-------------------------- MODULE StackOwnerProofs --------------------------
(***************************************************************************)
(* Proofs about StackOwner, for any limits and bounds.                     *)
(***************************************************************************)
EXTENDS StackOwner, TLAPS

\* Most leaves are first-order and short: Zenon is asked first, then the SMT solver.
USE ZenonT(3), SMTT(20), ZenonT(30)

USE OwnerAssumption
USE DEF deviceVars, smoltcpVars, sweepVars, nativeVars, pollVars, feederVars

-----------------------------------------------------------------------------
(* Deadlines and the device *)

LEMMA TimeFacts ==
    /\ Never \in Nat
    /\ \A t \in Times : t \in Nat /\ t <= Never
    /\ \A t \in Later : t \in Times
    /\ 0 \in Times /\ Never \in Times /\ MaxDelay \in Times
  BY DEF Never, Times, Later

\* Of t packets, some at most are handed out, and the credit covers them.
LEMMA TakenFacts ==
    ASSUME NEW t \in Nat, NEW c \in Nat, NEW room \in Nat, NEW cut \in BOOLEAN,
           NEW n \in Taken(t, c, room, cut)
    PROVE  /\ n \in Nat
           /\ n <= t
           /\ n <= room
           /\ Limited => n <= c
  <1>1. Sendable(t, c) \in Nat /\ Sendable(t, c) <= t /\ (Limited => Sendable(t, c) <= c)
    BY DEF Sendable, Min2
  <1>2. Min2(Sendable(t, c), room) \in Nat /\ Min2(Sendable(t, c), room) <= Sendable(t, c)
        /\ Min2(Sendable(t, c), room) <= room
    BY <1>1 DEF Min2
  <1>3. n \in Nat /\ n <= Min2(Sendable(t, c), room)
    BY <1>2 DEF Taken, Min2
  <1> QED
    BY <1>1, <1>2, <1>3

-----------------------------------------------------------------------------
(* What the owner makes of the effects *)

\* The poll messages and the timer after apply_effects: a continuation has one poll
\* message and no timer, and otherwise the timer is the one asked for.
LEMMA ApplyFacts ==
    ASSUME NEW more \in BOOLEAN, NEW at \in Times, NEW fr \in Nat, NEW t \in Times,
           stale \in Nat, fired \in BOOLEAN, ApplyEffects(more, at, fr, t)
    PROVE  /\ continuation' \in BOOLEAN
           /\ timerAt' \in Times
           /\ fresh' \in Nat
           /\ stale' \in Nat
           /\ fired' \in BOOLEAN
           /\ fresh' + stale' >= fr + stale
           /\ more => continuation' /\ timerAt' = Never /\ ~fired' /\ fresh' = 1
           /\ ~more => ~continuation' /\ timerAt' = at
           /\ ~more => \/ ~fired' /\ fresh' = 0
                       \/ t = at /\ at # Never /\ fired' = fired /\ fresh' = fr
  <1>1. CASE more
    <2>1. continuation' /\ ~fired' /\ continuation' \in BOOLEAN /\ fired' \in BOOLEAN
      BY <1>1, ZenonT(60) DEF ApplyEffects, Continue
    <2>2. timerAt' = Never /\ fresh' = 1 /\ stale' = stale + fr
      BY <1>1, ZenonT(60) DEF ApplyEffects, Continue
    <2>3. Never \in Times
      BY TimeFacts
    <2>4. stale + fr \in Nat /\ 1 + (stale + fr) >= fr + stale
      OBVIOUS
    <2>5. timerAt' \in Times /\ fresh' \in Nat /\ stale' \in Nat
          /\ fresh' + stale' >= fr + stale
      BY <2>2, <2>3, <2>4
    <2> QED
      BY <1>1, <2>1, <2>2, <2>5, ZenonT(60)
  <1>2. CASE ~more
    <2>1. ~continuation' /\ continuation' \in BOOLEAN /\ ReplaceTimer(at, fr, t)
      BY <1>2, ZenonT(60) DEF ApplyEffects
    <2>2. CASE t = at /\ at # Never /\ timerAt' = t /\ fresh' = fr /\ UNCHANGED <<fired, stale>>
      <3>1. fired' = fired /\ stale' = stale /\ fresh' = fr /\ timerAt' = at
        BY <2>2
      <3>2. timerAt' \in Times /\ fresh' \in Nat /\ stale' \in Nat
            /\ fresh' + stale' >= fr + stale
        BY <3>1
      <3>3. fired' \in BOOLEAN
        BY <3>1
      <3> QED
        BY <1>2, <2>1, <2>2, <3>1, <3>2, <3>3, ZenonT(60)
    <2>3. CASE timerAt' = at /\ fired' = FALSE /\ fresh' = 0 /\ stale' = stale + fr
      <3>1. timerAt' \in Times /\ fresh' \in Nat /\ stale' \in Nat
            /\ fresh' + stale' >= fr + stale
        BY <2>3
      <3>2. fired' \in BOOLEAN /\ ~fired'
        BY <2>3, ZenonT(60)
      <3> QED
        BY <1>2, <2>1, <2>3, <3>1, <3>2, ZenonT(60)
    <2> QED
      BY <2>1, <2>2, <2>3 DEF ReplaceTimer
  <1> QED
    BY <1>1, <1>2

-----------------------------------------------------------------------------
(* The drive *)

NativeType ==
    /\ rx \in 0..InputPackets
    /\ tx \in 0..OutputPackets
    /\ credit \in 0..MaxCredit
    /\ unsent \in 0..MaxUnsent
    /\ tcpAt \in Times
    /\ closeAt \in Times
    /\ sweep \in 0..MaxSweep
    /\ turn \in BOOLEAN
    /\ ready \in BOOLEAN
    /\ native \in {"up", "down", "broken"}

\* The deadline reported is the earliest of the closing sockets' and, but for a send
\* that waits for credit, of smoltcp's.
LEMMA PollAtFacts ==
    ASSUME NativeType'
    PROVE  /\ DrivePollAt \in Times
           /\ DrivePollAt <= closeAt'
           /\ CreditOpen(tx', credit') \/ SmoltcpPollAt(unsent', tcpAt') > 0
                  => DrivePollAt <= SmoltcpPollAt(unsent', tcpAt')
  <1> DEFINE s == SmoltcpPollAt(unsent', tcpAt')
             f == IF CreditOpen(tx', credit') \/ s > 0 THEN s ELSE Never
  <1>1. s \in Times /\ closeAt' \in Times
    BY TimeFacts DEF NativeType, SmoltcpPollAt
  <1>2. f \in Times /\ (CreditOpen(tx', credit') \/ s > 0 => f = s)
    BY <1>1, TimeFacts
  <1>3. DrivePollAt = Min2(f, closeAt')
    BY DEF DrivePollAt
  <1> HIDE DEF s, f
  <1>4. \A a, b \in Times : Min2(a, b) \in Times /\ Min2(a, b) <= a /\ Min2(a, b) <= b
    BY TimeFacts DEF Min2
  <1>5. DrivePollAt \in Times /\ DrivePollAt <= f /\ DrivePollAt <= closeAt'
    BY <1>1, <1>2, <1>3, <1>4
  <1> QED
    BY <1>2, <1>5 DEF s

\* The sweeps keep to their entries.
LEMMA SweepFacts ==
    ASSUME NativeType, NEW close \in Times, NEW changed, NEW cut,
           NEW work \in 0..Min2(MaxSweep, MaintenanceWork), Sweeps(close, changed, work, cut)
    PROVE  sweep' \in 0..MaxSweep /\ turn' \in BOOLEAN /\ closeAt' \in Times
  <1>1. PICK entries \in (IF close = 0 THEN {} ELSE {sweep})
                         \cup (IF changed \/ close = 0 THEN 1..MaxSweep ELSE {}) :
            /\ work <= entries
            /\ sweep' = entries - work
            /\ turn' \in IF work < entries THEN {work = 0, TRUE} ELSE {FALSE}
            /\ closeAt' = IF close = 0 /\ work > 0 THEN Never ELSE close
    BY DEF Sweeps
  <1>2. entries \in 0..MaxSweep
    BY DEF NativeType
  <1>3. sweep' \in 0..MaxSweep
    BY <1>1, <1>2
  <1>4. turn' \in BOOLEAN
    BY <1>1, ZenonT(60)
  <1> QED
    BY <1>1, <1>3, <1>4, TimeFacts

\* The egress loop fills the transmit queue at most.
LEMMA EgressFacts ==
    ASSUME NEW egress, NEW queued \in 0..OutputPackets, NEW c, NEW total,
           NEW emitted \in Nat, NEW work, NEW remain, NEW cut,
           EgressLoop(egress, queued, c, total, emitted, work, remain, cut)
    PROVE  queued + emitted <= OutputPackets
  BY DEF EgressLoop

\* An outcome of drive_batch keeps the native state within its limits.
LEMMA DriveBatchFacts ==
    ASSUME NativeType, NEW new \in Nat, rx + new <= InputPackets,
           NEW c \in 0..MaxCredit, NEW u \in 0..MaxUnsent, NEW close \in Times,
           NEW cut, NEW egress, NEW remain, NEW work \in 0..Min2(MaxSweep, MaintenanceWork),
           NEW taken \in 0..(rx + new),
           NEW sent \in Taken(tx, c, OutputPackets, cut = "ingress"),
           NEW replies \in 0..taken, NEW raised \in 0..1,
           NEW emitted \in 0..Min2(MaxUnsent, OutputPackets),
           DriveBatch(new, c, u, close, cut, egress, remain, work, taken, sent, replies,
                      raised, emitted)
    PROVE  NativeType' /\ native' = native /\ lapsed' = FALSE
  <1> DEFINE queued == tx - sent + replies
             total  == Min2(MaxUnsent, u + raised)
  <1>1. rx \in Nat /\ tx \in Nat /\ tx <= OutputPackets /\ c \in Nat /\ u \in Nat
    BY DEF NativeType
  <1>2. sent \in Nat /\ sent <= tx /\ (Limited => sent <= c)
    BY <1>1, TakenFacts
  <1>3. rx' \in 0..InputPackets
    <2>1. IngressLoop(rx + new, tx - sent, taken, replies, cut)
      BY ZenonT(60) DEF DriveBatch
    <2>2. rx' = (rx + new) - taken
      BY <2>1, ZenonT(60) DEF IngressLoop
    <2> QED
      BY <1>1, <2>2
  <1>4. queued \in 0..OutputPackets
    BY <1>1, <1>2 DEF DriveBatch
  <1>5. emitted \in Nat /\ queued + emitted <= OutputPackets
    <2>1. emitted \in Nat
      BY DEF Min2
    <2>2. EgressLoop(egress, queued, Spend(c, sent), total, emitted, work, remain, cut)
      BY DEF DriveBatch
    <2> HIDE DEF queued, total
    <2> QED
      BY <1>4, <2>1, <2>2, EgressFacts
  <1>6. Spend(c, sent) \in Nat /\ (Limited => Spend(c, sent) = c - sent)
    BY <1>1, <1>2 DEF Spend
  <1>7. tx' \in 0..OutputPackets /\ credit' \in 0..MaxCredit
    <2>1. PICK again \in Taken(queued + emitted, Spend(c, sent), OutputPackets - sent,
                               cut # "no" \/ sent > 0) :
              /\ tx' = queued + emitted - again
              /\ credit' = Spend(c, sent + again)
      BY DEF DriveBatch
    <2>2. OutputPackets - sent \in Nat /\ queued + emitted \in Nat
      BY <1>1, <1>2, <1>4, <1>5
    <2> HIDE DEF queued, total
    <2>3. again \in Nat /\ again <= queued + emitted /\ (Limited => again <= Spend(c, sent))
      BY <1>6, <2>2, TakenFacts
    <2>4. tx' \in 0..OutputPackets
      BY <1>4, <1>5, <2>1, <2>3
    <2>5. credit' \in 0..MaxCredit
      BY <1>1, <1>2, <1>6, <2>1, <2>3 DEF Spend
    <2> QED
      BY <2>4, <2>5
  <1>8. unsent' \in 0..MaxUnsent
    <2>1. total \in 0..MaxUnsent /\ emitted <= total
      BY <1>1 DEF DriveBatch, Min2
    <2>2. unsent' \in {total - emitted, Min2(MaxUnsent, total - emitted + 1)}
      BY DEF DriveBatch
    <2> HIDE DEF total
    <2> QED
      BY <1>5, <2>1, <2>2 DEF Min2
  <1>9. tcpAt' \in Times
    BY TimeFacts DEF DriveBatch, NativeType
  <1>10. sweep' \in 0..MaxSweep /\ turn' \in BOOLEAN /\ closeAt' \in Times
    <2>1. PICK changed \in BOOLEAN : Sweeps(close, changed, work, cut)
      BY DEF DriveBatch
    <2> QED
      BY <2>1, SweepFacts
  <1>11. ready' \in BOOLEAN /\ native' = native /\ lapsed' = FALSE
    BY DEF DriveBatch
  <1> QED
    BY <1>3, <1>7, <1>8, <1>9, <1>10, <1>11 DEF NativeType

\* A drive keeps the native state within its limits, and reports the work it leaves.
LEMMA DriveFacts ==
    ASSUME NativeType, NEW new \in Nat, rx + new <= InputPackets,
           NEW c \in 0..MaxCredit, NEW u \in 0..MaxUnsent, NEW close \in Times,
           NEW fr, NEW t, Drive(new, c, u, close, fr, t)
    PROVE  /\ NativeType'
           /\ native' = native
           /\ lapsed' = FALSE
           /\ \E more \in BOOLEAN : (WorkLeft' => more) /\ ApplyEffects(more, DrivePollAt, fr, t)
  <1>1. PICK cut \in Cuts, egress \in Egress, remain \in BOOLEAN,
             work \in 0..Min2(MaxSweep, MaintenanceWork), taken \in 0..(rx + new) :
             \E sent \in Taken(tx, c, OutputPackets, cut = "ingress"), replies \in 0..taken,
                raised \in 0..1, emitted \in 0..Min2(MaxUnsent, OutputPackets) :
                 /\ DriveBatch(new, c, u, close, cut, egress, remain, work, taken, sent,
                               replies, raised, emitted)
                 /\ ApplyEffects(DriveMore(remain, cut \in {"ingress", "egress"}),
                                 DrivePollAt, fr, t)
    BY ZenonT(60) DEF Drive
  <1>2. NativeType' /\ native' = native /\ lapsed' = FALSE
    BY <1>1, DriveBatchFacts
  <1>3. ApplyEffects(DriveMore(remain, cut \in {"ingress", "egress"}), DrivePollAt, fr, t)
    BY <1>1, ZenonT(60)
  <1>4. DriveMore(remain, cut \in {"ingress", "egress"}) \in BOOLEAN
    BY <1>2, ZenonT(60) DEF DriveMore, NativeType
  <1>5. WorkLeft' => DriveMore(remain, cut \in {"ingress", "egress"})
    BY ZenonT(60) DEF DriveMore, WorkLeft
  <1> QED
    BY <1>2, <1>3, <1>4, <1>5, ZenonT(60)

\* The timer armed for t covers the deadlines the call left.
CoversNew(t) ==
    /\ t <= closeAt'
    /\ CreditOpen(tx', credit') \/ SmoltcpPollAt(unsent', tcpAt') > 0
           => t <= SmoltcpPollAt(unsent', tcpAt')

\* A drive and what the owner makes of it: without a continuation no work is left and
\* the timer covers every deadline.
LEMMA DriveResult ==
    ASSUME TypeOK, NEW new \in Nat, rx + new <= InputPackets,
           NEW c \in 0..MaxCredit, NEW u \in 0..MaxUnsent, NEW close \in Times,
           NEW fr \in Nat, NEW t \in Times, Drive(new, c, u, close, fr, t)
    PROVE  /\ NativeType'
           /\ native' = native
           /\ lapsed' = FALSE
           /\ continuation' \in BOOLEAN
           /\ timerAt' \in Times
           /\ fresh' \in Nat
           /\ stale' \in Nat
           /\ fired' \in BOOLEAN
           /\ fresh' + stale' >= fr + stale
           /\ continuation' => timerAt' = Never /\ ~fired' /\ fresh' = 1
           /\ ~continuation' => ~WorkLeft' /\ CoversNew(timerAt')
           /\ ~continuation' => \/ ~fired' /\ fresh' = 0
                                \/ t = timerAt' /\ t # Never /\ fired' = fired /\ fresh' = fr
  <1>1. NativeType /\ stale \in Nat /\ fired \in BOOLEAN
    BY DEF TypeOK, NativeType
  <1>2. /\ NativeType'
        /\ native' = native
        /\ lapsed' = FALSE
        /\ \E more \in BOOLEAN : (WorkLeft' => more) /\ ApplyEffects(more, DrivePollAt, fr, t)
    BY <1>1, DriveFacts, ZenonT(90)
  <1>3. PICK more \in BOOLEAN : (WorkLeft' => more) /\ ApplyEffects(more, DrivePollAt, fr, t)
    BY <1>2
  <1>4. DrivePollAt \in Times /\ CoversNew(DrivePollAt)
    BY <1>2, PollAtFacts DEF CoversNew
  <1> HIDE DEF WorkLeft
  <1>5. /\ continuation' \in BOOLEAN
        /\ timerAt' \in Times
        /\ fresh' \in Nat
        /\ stale' \in Nat
        /\ fired' \in BOOLEAN
        /\ fresh' + stale' >= fr + stale
        /\ more => continuation' /\ timerAt' = Never /\ ~fired' /\ fresh' = 1
        /\ ~more => ~continuation' /\ timerAt' = DrivePollAt
        /\ ~more => \/ ~fired' /\ fresh' = 0
                    \/ t = DrivePollAt /\ DrivePollAt # Never /\ fired' = fired /\ fresh' = fr
    BY <1>1, <1>3, <1>4, ApplyFacts
  <1> QED
    BY <1>2, <1>3, <1>4, <1>5, ZenonT(60)

-----------------------------------------------------------------------------
(* The invariant *)

PollType ==
    /\ continuation \in BOOLEAN
    /\ fresh \in Nat
    /\ stale \in Nat
    /\ timerAt \in Times
    /\ fired \in BOOLEAN

\* The part of PollInv that is about the polls alone.
PollsAgree ==
    /\ fresh = (IF continuation \/ fired THEN 1 ELSE 0)
    /\ continuation => timerAt = Never /\ ~fired
    /\ fired => timerAt = 0

OwnerInv ==
    /\ TypeOK
    /\ PollInv
    /\ WorkIsPolledBarringSnapshots
    /\ DeadlinesArmed

\* A drive that replaces the owner's poll establishes all that is said of polls,
\* work and deadlines.
LEMMA DriveStep ==
    ASSUME OwnerInv, NEW new \in Nat, rx + new <= InputPackets,
           NEW c \in 0..MaxCredit, NEW u \in 0..MaxUnsent, NEW close \in Times,
           NEW fr \in Nat, NEW t \in Times, t = Never \/ (t = timerAt /\ fr = fresh),
           Drive(new, c, u, close, fr, t)
    PROVE  /\ NativeType' /\ PollType' /\ lapsed' \in BOOLEAN
           /\ PollsAgree'
           /\ continuation' => fresh' = 1
           /\ fresh' + stale' >= fr + stale
           /\ WorkIsPolledBarringSnapshots'
           /\ DeadlinesArmed'
  <1>1. TypeOK /\ PollsAgree
    BY DEF OwnerInv, PollInv, PollsAgree
  <1>2. /\ NativeType'
        /\ lapsed' = FALSE
        /\ continuation' \in BOOLEAN
        /\ timerAt' \in Times
        /\ fresh' \in Nat
        /\ stale' \in Nat
        /\ fired' \in BOOLEAN
        /\ fresh' + stale' >= fr + stale
        /\ continuation' => timerAt' = Never /\ ~fired' /\ fresh' = 1
        /\ ~continuation' => ~WorkLeft' /\ CoversNew(timerAt')
        /\ ~continuation' => \/ ~fired' /\ fresh' = 0
                             \/ t = timerAt' /\ t # Never /\ fired' = fired /\ fresh' = fr
    BY <1>1, DriveResult
  <1>3. NativeType' /\ PollType' /\ lapsed' \in BOOLEAN
    BY <1>2, ZenonT(60) DEF PollType
  <1>4. PollsAgree'
    <2>1. CASE continuation'
      BY <1>2, <2>1 DEF PollsAgree
    <2>2. CASE ~continuation' /\ ~fired' /\ fresh' = 0
      BY <2>2 DEF PollsAgree
    <2>3. CASE ~continuation' /\ t = timerAt' /\ t # Never /\ fired' = fired /\ fresh' = fr
      <3>1. t = timerAt /\ fr = fresh /\ ~continuation
        BY <1>1, <2>3 DEF PollsAgree
      <3> QED
        BY <1>1, <2>3, <3>1 DEF PollsAgree
    <2> QED
      BY <1>2, <2>1, <2>2, <2>3
  <1>5. WorkIsPolledBarringSnapshots'
    BY <1>2, ZenonT(60) DEF WorkIsPolledBarringSnapshots
  <1>6. DeadlinesArmed'
    BY <1>2 DEF DeadlinesArmed, CoversNew
  <1> QED
    BY <1>2, <1>3, <1>4, <1>5, <1>6, ZenonT(60)

\* After continue_pending_ingress packets are held or admitted, never both, as the
\* continuation says.
LEMMA ContinueFacts ==
    ASSUME TypeOK, ContinuePending(pending)
    PROVE  /\ pending' \in 0..InputPackets
           /\ admitted' \in 0..InputPackets
           /\ pending' > 0 => continuation'
           /\ admitted' > 0 => ~continuation'
  BY DEF ContinuePending, TypeOK

\* A handler that drives and then continues pending ingress.
LEMMA DriveThenContinue ==
    ASSUME OwnerInv, NEW new \in Nat, rx + new <= InputPackets, NEW fr \in Nat,
           NEW t \in Times, t = Never \/ (t = timerAt /\ fr = fresh),
           Drive(new, credit, unsent, closeAt, fr, t), ContinuePending(pending),
           UNCHANGED <<linkUp, alive>>
    PROVE  OwnerInv'
  <1>1. TypeOK
    BY DEF OwnerInv
  <1>2. credit \in 0..MaxCredit /\ unsent \in 0..MaxUnsent /\ closeAt \in Times
    BY <1>1 DEF TypeOK
  <1>3. /\ NativeType' /\ PollType' /\ lapsed' \in BOOLEAN
        /\ PollsAgree'
        /\ continuation' => fresh' = 1
        /\ WorkIsPolledBarringSnapshots'
        /\ DeadlinesArmed'
    BY <1>2, DriveStep
  <1>4. /\ pending' \in 0..InputPackets
        /\ admitted' \in 0..InputPackets
        /\ pending' > 0 => continuation'
        /\ admitted' > 0 => ~continuation'
    BY <1>1, ContinueFacts
  <1>5. TypeOK'
    <2>1. linkUp' \in BOOLEAN /\ alive' \in BOOLEAN
      BY <1>1 DEF TypeOK
    <2> QED
      BY <1>3, <1>4, <2>1, ZenonT(60) DEF TypeOK, NativeType, PollType
  <1>6. PollInv'
    <2>1. fresh' \in Nat /\ stale' \in Nat /\ (pending' > 0 => fresh' = 1)
      BY <1>3, <1>4, ZenonT(60) DEF PollType
    <2>2. pending' > 0 => fresh' + stale' > 0
      <3>1. \A f, n \in Nat : f = 1 => f + n > 0
        OBVIOUS
      <3> QED
        BY <2>1, <3>1, ZenonT(60)
    <2> QED
      BY <1>3, <1>4, <2>2, ZenonT(60) DEF PollInv, PollsAgree
  <1> QED
    BY <1>3, <1>5, <1>6 DEF OwnerInv

\* A call that drives leaves the feeder alone.
LEMMA DriveInCall ==
    ASSUME OwnerInv, Serving, NEW c \in 0..MaxCredit, NEW u \in 0..MaxUnsent,
           NEW close \in Times, Drive(0, c, u, close, fresh, timerAt),
           UNCHANGED <<feederVars, linkUp, alive>>
    PROVE  OwnerInv'
  <1>1. TypeOK /\ PollInv
    BY DEF OwnerInv
  <1>2. rx + 0 <= InputPackets /\ fresh \in Nat /\ stale \in Nat /\ timerAt \in Times
    BY <1>1 DEF TypeOK
  <1>3. /\ NativeType' /\ PollType' /\ lapsed' \in BOOLEAN
        /\ PollsAgree'
        /\ fresh' + stale' >= fresh + stale
        /\ WorkIsPolledBarringSnapshots'
        /\ DeadlinesArmed'
    BY <1>2, DriveStep
  <1>4. pending' = pending /\ admitted' = 0 /\ admitted = 0
    BY DEF Serving, Idle
  <1>5. TypeOK'
    <2>1. /\ linkUp' \in BOOLEAN /\ alive' \in BOOLEAN
          /\ pending' \in 0..InputPackets /\ admitted' \in 0..InputPackets
      BY <1>1, <1>4 DEF TypeOK
    <2> QED
      BY <1>3, <2>1, ZenonT(60) DEF TypeOK, NativeType, PollType
  <1>6. PollInv'
    <2>0. /\ fresh' \in Nat /\ stale' \in Nat /\ fresh' + stale' >= fresh + stale
          /\ pending > 0 => fresh + stale > 0
      BY <1>1, <1>3, ZenonT(60) DEF PollInv, PollType
    <2>1. pending' > 0 => fresh' + stale' > 0
      <3>1. \A f, n, g, m \in Nat : g + m > 0 /\ f + n >= g + m => f + n > 0
        OBVIOUS
      <3> QED
        BY <1>2, <1>4, <2>0, <3>1, ZenonT(60)
    <2>2. ~(admitted' > 0)
      BY <1>4
    <2> QED
      BY <1>3, <2>1, <2>2, ZenonT(60) DEF PollInv, PollsAgree
  <1> QED
    BY <1>3, <1>5, <1>6 DEF OwnerInv

\* What is to be shown of a step that is not a drive, in parts.
LEMMA InvParts ==
    ASSUME NativeType', PollType', pending' \in 0..InputPackets,
           admitted' \in 0..InputPackets, linkUp' \in BOOLEAN, alive' \in BOOLEAN,
           lapsed' \in BOOLEAN, PollsAgree', admitted' > 0 => ~continuation',
           pending' > 0 => fresh' + stale' > 0,
           WorkIsPolledBarringSnapshots', DeadlinesArmed'
    PROVE  OwnerInv'
  <1>1. TypeOK'
    BY ZenonT(60) DEF TypeOK, NativeType, PollType
  <1>2. PollInv'
    BY ZenonT(60) DEF PollInv, PollsAgree
  <1> QED
    BY <1>1, <1>2, ZenonT(60) DEF OwnerInv

\* The native stack is lost.
LEMMA LostFacts ==
    ASSUME NativeLost, native' \in {"down", "broken"}
    PROVE  /\ NativeType'
           /\ lapsed' \in BOOLEAN
           /\ WorkIsPolledBarringSnapshots'
           /\ DeadlinesArmed'
  <1>1. turn' \in BOOLEAN /\ ready' \in BOOLEAN /\ lapsed' \in BOOLEAN
    BY ZenonT(60) DEF NativeLost
  <1>2. NativeType'
    BY <1>1, TimeFacts DEF NativeLost, NativeType
  <1>3. native' # "up"
    OBVIOUS
  <1> QED
    BY <1>1, <1>2, <1>3, ZenonT(60) DEF WorkIsPolledBarringSnapshots, DeadlinesArmed

\* The owner terminates.
LEMMA TerminateStep ==
    ASSUME OwnerInv, admitted = 0, Terminate
    PROVE  OwnerInv'
  <1>1. NativeType' /\ lapsed' \in BOOLEAN /\ WorkIsPolledBarringSnapshots' /\ DeadlinesArmed'
    BY LostFacts DEF Terminate
  <1>2. PollType' /\ PollsAgree'
    BY TimeFacts DEF Terminate, PollType, PollsAgree
  <1>3. /\ pending' = 0 /\ admitted' = 0
        /\ linkUp' \in BOOLEAN /\ alive' \in BOOLEAN
    BY DEF Terminate, OwnerInv, TypeOK
  <1>4. /\ pending' \in 0..InputPackets /\ admitted' \in 0..InputPackets
        /\ ~(pending' > 0) /\ ~(admitted' > 0)
    BY <1>3
  <1> QED
    BY <1>1, <1>2, <1>3, <1>4, InvParts

\* A step that leaves the native stack and the deadline of the owner's timer alone,
\* and does not end a continuation, leaves work and deadlines attended to.
LEMMA NativeSame ==
    ASSUME OwnerInv, UNCHANGED <<nativeVars, timerAt, alive, lapsed, continuation>>
    PROVE  /\ NativeType' /\ lapsed' \in BOOLEAN
           /\ WorkIsPolledBarringSnapshots' /\ DeadlinesArmed'
  <1>1. NativeType' /\ lapsed' \in BOOLEAN
    BY DEF OwnerInv, TypeOK, NativeType
  <1>2. WorkIsPolledBarringSnapshots'
    BY DEF OwnerInv, WorkIsPolledBarringSnapshots, WorkLeft, TransmitReady, ReceiveReady
  <1>3. DeadlinesArmed'
    BY DEF OwnerInv, DeadlinesArmed
  <1> QED
    BY <1>1, <1>2, <1>3

\* Polls.
LEMMA PollStep == ASSUME OwnerInv, Poll PROVE OwnerInv'
  <1>1. TypeOK /\ PollInv /\ PollsAgree /\ fresh \in Nat /\ stale \in Nat /\ fired \in BOOLEAN
    BY DEF OwnerInv, PollInv, PollsAgree, TypeOK
  <1>2. CASE PollFresh
    <2>1. fresh - 1 \in Nat /\ rx + 0 <= InputPackets /\ Never \in Times
      BY <1>1, <1>2, TimeFacts DEF PollFresh, TypeOK
    <2>2. /\ Drive(0, credit, unsent, closeAt, fresh - 1, Never)
          /\ ContinuePending(pending)
          /\ UNCHANGED <<linkUp, alive>>
      BY <1>2 DEF PollFresh
    <2> QED
      BY <2>1, <2>2, DriveThenContinue
  <1>3. CASE PollFails
    <2>1. /\ UNCHANGED <<nativeVars, continuation, linkUp, alive, lapsed>>
          /\ ~continuation /\ native = "broken"
          /\ ReplaceTimer(Never, fresh - 1, Never)
          /\ ContinuePending(pending)
      BY <1>3 DEF PollFails
    <2>2. timerAt' = Never /\ fired' = FALSE /\ fresh' = 0 /\ stale' = stale + (fresh - 1)
      BY <2>1 DEF ReplaceTimer
    <2>3. stale + (fresh - 1) \in Nat
      BY <1>1, <1>3 DEF PollFails
    <2>4. PollType' /\ PollsAgree'
      BY <1>1, <2>1, <2>2, <2>3, TimeFacts DEF PollType, PollsAgree, TypeOK
    <2>5. NativeType' /\ lapsed' \in BOOLEAN /\ linkUp' \in BOOLEAN /\ alive' \in BOOLEAN
      BY <1>1, <2>1 DEF NativeType, TypeOK
    <2>6. WorkIsPolledBarringSnapshots' /\ DeadlinesArmed'
      <3>1. native' # "up"
        BY <2>1
      <3> QED
        BY <3>1, ZenonT(60) DEF WorkIsPolledBarringSnapshots, DeadlinesArmed
    <2>7. /\ pending' \in 0..InputPackets /\ admitted' \in 0..InputPackets
          /\ pending' > 0 => continuation'
          /\ admitted' > 0 => ~continuation'
          /\ ~continuation'
      BY <1>1, <2>1, ContinueFacts
    <2> QED
      BY <2>4, <2>5, <2>6, <2>7, InvParts
  <1>4. CASE PollFatal
    <2>1. admitted = 0 /\ Terminate
      BY <1>4 DEF PollFatal, Idle
    <2> QED
      BY <2>1, TerminateStep
  <1>5. CASE PollStale
    <2>1. /\ UNCHANGED <<nativeVars, timerAt, alive, lapsed, continuation, fresh, fired, linkUp>>
          /\ ContinuePending(pending)
          /\ stale' = stale - 1 /\ stale > 0
      BY <1>5 DEF PollStale
    <2>2. NativeType' /\ lapsed' \in BOOLEAN /\ WorkIsPolledBarringSnapshots' /\ DeadlinesArmed'
      BY <2>1, NativeSame
    <2>3. PollType' /\ PollsAgree'
      BY <1>1, <2>1 DEF PollType, PollsAgree, TypeOK
    <2>4. linkUp' \in BOOLEAN /\ alive' \in BOOLEAN
      BY <1>1, <2>1 DEF TypeOK
    <2>5. /\ pending' \in 0..InputPackets /\ admitted' \in 0..InputPackets
          /\ pending' > 0 => continuation'
          /\ admitted' > 0 => ~continuation'
      BY <1>1, <2>1, ContinueFacts
    <2>6. pending' > 0 => fresh' + stale' > 0
      <3>1. fresh' \in Nat /\ stale' \in Nat /\ (continuation' => fresh' = 1)
        BY <2>3 DEF PollType, PollsAgree
      <3>2. \A f, n \in Nat : f = 1 => f + n > 0
        OBVIOUS
      <3> QED
        BY <2>5, <3>1, <3>2, ZenonT(60)
    <2> QED
      BY <2>2, <2>3, <2>4, <2>5, <2>6, InvParts
  <1> QED
    BY <1>2, <1>3, <1>4, <1>5 DEF Poll

\* The packets admitted are processed, or lost.
LEMMA ProcessingStep == ASSUME OwnerInv, Processing PROVE OwnerInv'
  <1>1. TypeOK /\ PollInv /\ PollsAgree
    BY DEF OwnerInv, PollInv, PollsAgree
  <1>2. CASE ProcessIngress
    <2>1. /\ admitted \in Nat /\ rx + admitted <= InputPackets
          /\ fresh \in Nat /\ timerAt \in Times
      BY <1>1, <1>2 DEF ProcessIngress, TypeOK
    <2>2. /\ Drive(admitted, credit, unsent, closeAt, fresh, timerAt)
          /\ ContinuePending(pending)
          /\ UNCHANGED <<linkUp, alive>>
      BY <1>2 DEF ProcessIngress
    <2> QED
      BY <2>1, <2>2, DriveThenContinue
  <1>3. CASE IngressFails
    <2>1. /\ UNCHANGED <<nativeVars, fresh, stale, timerAt, fired, linkUp, alive, lapsed>>
          /\ ContinuePending(pending)
          /\ continuation' = FALSE /\ continuation = FALSE
      BY <1>1, <1>3 DEF IngressFails, PollInv, TypeOK
    <2>2. NativeType' /\ lapsed' \in BOOLEAN /\ WorkIsPolledBarringSnapshots' /\ DeadlinesArmed'
      BY <2>1, NativeSame
    <2>3. PollType' /\ PollsAgree'
      BY <1>1, <2>1 DEF PollType, PollsAgree, TypeOK
    <2>4. linkUp' \in BOOLEAN /\ alive' \in BOOLEAN
      BY <1>1, <2>1 DEF TypeOK
    <2>5. /\ pending' \in 0..InputPackets /\ admitted' \in 0..InputPackets
          /\ pending' > 0 => continuation'
          /\ admitted' > 0 => ~continuation'
          /\ ~continuation'
      BY <1>1, <2>1, ContinueFacts
    <2> QED
      BY <2>2, <2>3, <2>4, <2>5, InvParts
  <1> QED
    BY <1>2, <1>3 DEF Processing

\* The timer sends its message: none was current, as none is while it waits.
LEMMA FireStep == ASSUME OwnerInv, FireTimer PROVE OwnerInv'
  <1>1. TypeOK /\ PollInv /\ PollsAgree
    BY DEF OwnerInv, PollInv, PollsAgree
  <1>2. /\ UNCHANGED <<nativeVars, timerAt, alive, lapsed, continuation, stale, linkUp>>
        /\ pending' = pending /\ admitted' = admitted
        /\ timerAt = 0 /\ ~fired /\ fired' = TRUE /\ fresh' = fresh + 1
    BY DEF FireTimer
  <1>3. NativeType' /\ lapsed' \in BOOLEAN /\ WorkIsPolledBarringSnapshots' /\ DeadlinesArmed'
    BY <1>2, NativeSame
  <1>4. ~continuation /\ fresh = 0
    <2>1. Never # 0
      BY DEF Never
    <2> QED
      BY <1>1, <1>2, <2>1 DEF PollsAgree
  <1>5. fresh' = 1
    BY <1>2, <1>4
  <1>6. PollType' /\ PollsAgree'
    BY <1>1, <1>2, <1>4, <1>5 DEF PollType, PollsAgree, TypeOK
  <1>7. /\ linkUp' \in BOOLEAN /\ alive' \in BOOLEAN
        /\ pending' \in 0..InputPackets /\ admitted' \in 0..InputPackets
        /\ ~continuation'
    BY <1>1, <1>2, <1>4 DEF TypeOK
  <1>8. fresh' + stale' > 0
    BY <1>1, <1>2, <1>5 DEF TypeOK
  <1> QED
    BY <1>3, <1>6, <1>7, <1>8, InvParts

\* Time passes for every deadline alike.
LEMMA TickStep == ASSUME OwnerInv, Tick PROVE OwnerInv'
  <1> DEFINE Pass(t) == IF t \in {0, Never} THEN t ELSE t - 1
  <1>1. TypeOK /\ PollInv /\ PollsAgree /\ DeadlinesArmed
    BY DEF OwnerInv, PollInv, PollsAgree
  <1>2. /\ tcpAt' = Pass(tcpAt) /\ closeAt' = Pass(closeAt) /\ timerAt' = Pass(timerAt)
        /\ UNCHANGED <<deviceVars, unsent, sweepVars, ready, native, continuation, fresh,
                       stale, fired, feederVars, linkUp, alive, lapsed>>
    BY DEF Tick
  <1>3. /\ \A t \in Times : Pass(t) \in Times
        /\ \A t \in Times : Pass(t) > 0 => t > 0
        /\ \A s, t \in Times : s <= t => Pass(s) <= Pass(t)
        /\ Pass(0) = 0 /\ Pass(Never) = Never
    BY TimeFacts DEF Times, Never
  <1> HIDE DEF Pass
  <1>4. tcpAt \in Times /\ closeAt \in Times /\ timerAt \in Times
    BY <1>1 DEF TypeOK
  <1>5. NativeType' /\ lapsed' \in BOOLEAN
    BY <1>1, <1>2, <1>3, <1>4 DEF TypeOK, NativeType
  <1>6. PollType' /\ PollsAgree'
    BY <1>1, <1>2, <1>3, <1>4 DEF TypeOK, PollType, PollsAgree
  <1>7. /\ linkUp' \in BOOLEAN /\ alive' \in BOOLEAN
        /\ pending' \in 0..InputPackets /\ admitted' \in 0..InputPackets
    BY <1>1, <1>2 DEF TypeOK
  <1>8. (admitted' > 0 => ~continuation') /\ (pending' > 0 => fresh' + stale' > 0)
    BY <1>1, <1>2 DEF PollInv
  <1>9. WorkIsPolledBarringSnapshots'
    BY <1>2 DEF OwnerInv, WorkIsPolledBarringSnapshots, WorkLeft, TransmitReady, ReceiveReady
  <1>10. DeadlinesArmed'
    <2>1. SmoltcpPollAt(unsent, tcpAt) \in Times
      BY <1>4, TimeFacts DEF SmoltcpPollAt
    <2>2. SmoltcpPollAt(unsent', tcpAt') = Pass(SmoltcpPollAt(unsent, tcpAt))
      BY <1>2, <1>3 DEF SmoltcpPollAt
    <2>3. CreditOpen(tx', credit') = CreditOpen(tx, credit)
      BY <1>2
    <2> QED
      BY <1>1, <1>2, <1>3, <1>4, <2>1, <2>2, <2>3 DEF DeadlinesArmed
  <1> QED
    BY <1>5, <1>6, <1>7, <1>8, <1>9, <1>10, InvParts

\* A feeder is answered, or held while a poll is on its way.
LEMMA IngressStep ==
    ASSUME OwnerInv, NEW n \in 1..InputPackets, IngressAdmitted(n) \/ IngressHeld(n)
    PROVE  OwnerInv'
  <1>1. TypeOK /\ PollInv /\ PollsAgree
    BY DEF OwnerInv, PollInv, PollsAgree
  <1>2. UNCHANGED <<nativeVars, pollVars, linkUp, alive, lapsed>>
    BY DEF IngressAdmitted, IngressHeld
  <1>3. NativeType' /\ lapsed' \in BOOLEAN /\ WorkIsPolledBarringSnapshots' /\ DeadlinesArmed'
    BY <1>2, NativeSame
  <1>4. PollType' /\ PollsAgree' /\ linkUp' \in BOOLEAN /\ alive' \in BOOLEAN
    BY <1>1, <1>2 DEF PollType, PollsAgree, TypeOK
  <1>5. /\ pending' \in 0..InputPackets /\ admitted' \in 0..InputPackets
        /\ admitted' > 0 => ~continuation'
        /\ pending' > 0 => fresh' + stale' > 0
    <2>1. CASE IngressAdmitted(n)
      BY <1>1, <1>2, <2>1 DEF IngressAdmitted, TypeOK, PollInv
    <2>2. CASE IngressHeld(n)
      <3>1. /\ pending' = n /\ admitted' = admitted /\ admitted = 0 /\ continuation
        BY <2>2 DEF IngressHeld, Serving, Idle
      <3>2. fresh' = 1 /\ stale' \in Nat
        BY <1>1, <1>2, <3>1 DEF PollsAgree, TypeOK
      <3>3. fresh' + stale' > 0
        <4>1. \A k \in Nat : 1 + k > 0
          OBVIOUS
        <4> QED
          BY <3>2, <4>1, ZenonT(60)
      <3>4. pending' \in 0..InputPackets /\ admitted' \in 0..InputPackets /\ ~(admitted' > 0)
        BY <3>1
      <3> QED
        BY <3>3, <3>4
    <2> QED
      BY <2>1, <2>2
  <1> QED
    BY <1>3, <1>4, <1>5, InvParts

\* Calls that drive.
LEMMA DriveCallStep ==
    ASSUME OwnerInv,
           \/ \E u \in unsent..Min2(MaxUnsent, unsent + 1) : DriveCall(u) \/ CloseCall(u)
           \/ \E n \in 1..MaxCredit : GrantEgress(n)
    PROVE  OwnerInv'
  <1>1. TypeOK
    BY DEF OwnerInv
  <1>2. /\ credit \in 0..MaxCredit /\ unsent \in 0..MaxUnsent /\ closeAt \in Times
        /\ MaxDelay \in Times
    BY <1>1, TimeFacts DEF TypeOK
  <1>3. ASSUME NEW u \in unsent..Min2(MaxUnsent, unsent + 1), DriveCall(u) \/ CloseCall(u)
        PROVE  OwnerInv'
    <2>1. u \in 0..MaxUnsent
      BY <1>2 DEF Min2
    <2>2. CASE DriveCall(u)
      BY <1>2, <2>1, <2>2, DriveInCall DEF DriveCall
    <2>3. CASE CloseCall(u)
      BY <1>2, <2>1, <2>3, DriveInCall DEF CloseCall
    <2> QED
      BY <1>3, <2>2, <2>3
  <1>4. ASSUME NEW n \in 1..MaxCredit, GrantEgress(n)
        PROVE  OwnerInv'
    <2>1. credit + n \in 0..MaxCredit
      BY <1>2, <1>4 DEF GrantEgress
    <2> QED
      BY <1>2, <1>4, <2>1, DriveInCall DEF GrantEgress
  <1> QED
    BY <1>3, <1>4

\* Calls that do not drive: they replace the poll by one for what they looked at, or
\* leave it alone.
LEMMA OtherCallStep ==
    ASSUME OwnerInv,
           PreserveCall \/ (\E scan \in BOOLEAN : SnapshotCall(scan)) \/ AcceptRefused
    PROVE  OwnerInv'
  <1>1. TypeOK /\ PollInv /\ PollsAgree
    BY DEF OwnerInv, PollInv, PollsAgree
  <1>2. /\ fresh \in Nat /\ stale \in Nat /\ timerAt \in Times /\ fired \in BOOLEAN
        /\ SmoltcpPollAt(unsent, tcpAt) \in Times
    BY <1>1, TimeFacts DEF TypeOK, SmoltcpPollAt
  <1>3. /\ UNCHANGED <<feederVars, linkUp, alive>> /\ admitted = 0
    BY DEF PreserveCall, SnapshotCall, AcceptRefused, Serving, Idle
  <1>4. /\ pending' = pending /\ ~(admitted' > 0)
        /\ linkUp' \in BOOLEAN /\ alive' \in BOOLEAN
        /\ pending' \in 0..InputPackets /\ admitted' \in 0..InputPackets
    BY <1>1, <1>3 DEF TypeOK
  <1>5. ASSUME PollType', fresh' + stale' >= fresh + stale
        PROVE  pending' > 0 => fresh' + stale' > 0
    <2>1. fresh' \in Nat /\ stale' \in Nat /\ (pending > 0 => fresh + stale > 0)
      BY <1>1, <1>5, ZenonT(60) DEF PollType, PollInv
    <2>2. \A f, k, g, m \in Nat : g + m > 0 /\ f + k >= g + m => f + k > 0
      OBVIOUS
    <2> QED
      BY <1>2, <1>4, <1>5, <2>1, <2>2, ZenonT(60)
  <1>6. CASE PreserveCall
    <2>1. /\ ready' \in BOOLEAN /\ PreserveEffects(ready')
          /\ UNCHANGED <<deviceVars, smoltcpVars, sweepVars, native, lapsed, alive>>
      BY <1>6 DEF PreserveCall
    <2>2. NativeType' /\ lapsed' \in BOOLEAN
      BY <1>1, <2>1 DEF NativeType, TypeOK
    <2>3. CASE ready'
      <3>1. continuation' = TRUE /\ timerAt' = Never /\ fired' = FALSE /\ fresh' = 1
            /\ stale' = stale + fresh
        BY <2>1, <2>3, ZenonT(60) DEF PreserveEffects, Continue
      <3>2. PollType' /\ PollsAgree'
        <4>1. continuation' /\ ~fired' /\ continuation' \in BOOLEAN /\ fired' \in BOOLEAN
          BY <3>1, ZenonT(60)
        <4>2. timerAt' \in Times /\ fresh' \in Nat /\ stale' \in Nat
          BY <1>2, <3>1, TimeFacts
        <4> QED
          BY <3>1, <4>1, <4>2, ZenonT(60) DEF PollType, PollsAgree
      <3>3. fresh' + stale' >= fresh + stale
        BY <1>2, <3>1
      <3>4. WorkIsPolledBarringSnapshots' /\ DeadlinesArmed'
        BY <3>1, ZenonT(60) DEF WorkIsPolledBarringSnapshots, DeadlinesArmed
      <3> QED
        BY <1>4, <1>5, <2>2, <3>2, <3>3, <3>4, InvParts
    <2>4. CASE ~ready'
      <3>1. UNCHANGED pollVars
        BY <2>1, <2>4, ZenonT(60) DEF PreserveEffects
      <3>2. PollType' /\ PollsAgree'
        BY <1>1, <3>1 DEF PollType, PollsAgree, TypeOK
      <3>3. fresh' + stale' >= fresh + stale
        BY <1>2, <3>1
      <3>4. WorkIsPolledBarringSnapshots'
        BY <2>1, <2>4, <3>1
        DEF OwnerInv, WorkIsPolledBarringSnapshots, WorkLeft, TransmitReady, ReceiveReady
      <3>5. DeadlinesArmed'
        BY <2>1, <3>1 DEF OwnerInv, DeadlinesArmed
      <3> QED
        BY <1>4, <1>5, <2>2, <3>2, <3>3, <3>4, <3>5, InvParts
    <2> QED
      BY <2>3, <2>4
  <1>7. ASSUME NEW scan \in BOOLEAN, SnapshotCall(scan)
        PROVE  OwnerInv'
    <2>1. /\ ready' \in BOOLEAN
          /\ sweep' \in IF scan THEN 1..MaxSweep ELSE 0..sweep
          /\ ApplyEffects(scan \/ ready', SmoltcpPollAt(unsent, tcpAt), fresh, timerAt)
          /\ lapsed' = ~continuation'
          /\ UNCHANGED <<deviceVars, smoltcpVars, turn, native, alive>>
      BY <1>7 DEF SnapshotCall
    <2>2. NativeType'
      BY <1>1, <2>1 DEF NativeType, TypeOK
    <2>3. (scan \/ ready') \in BOOLEAN
      BY <2>1, ZenonT(60)
    <2>4. /\ continuation' \in BOOLEAN
          /\ timerAt' \in Times
          /\ fresh' \in Nat
          /\ stale' \in Nat
          /\ fired' \in BOOLEAN
          /\ fresh' + stale' >= fresh + stale
          /\ continuation' => timerAt' = Never /\ ~fired' /\ fresh' = 1
          /\ ~continuation' => \/ ~fired' /\ fresh' = 0
                               \/ timerAt = timerAt' /\ timerAt' # Never
                                  /\ fired' = fired /\ fresh' = fresh
      <3> DEFINE more == scan \/ ready'
                 at   == SmoltcpPollAt(unsent, tcpAt)
      <3>1. more \in BOOLEAN /\ at \in Times /\ ApplyEffects(more, at, fresh, timerAt)
        BY <1>2, <2>1, <2>3, ZenonT(60)
      <3> HIDE DEF more, at
      <3>2. /\ continuation' \in BOOLEAN
            /\ timerAt' \in Times
            /\ fresh' \in Nat
            /\ stale' \in Nat
            /\ fired' \in BOOLEAN
            /\ fresh' + stale' >= fresh + stale
            /\ more => continuation' /\ timerAt' = Never /\ ~fired' /\ fresh' = 1
            /\ ~more => ~continuation' /\ timerAt' = at
            /\ ~more => \/ ~fired' /\ fresh' = 0
                        \/ timerAt = at /\ at # Never /\ fired' = fired /\ fresh' = fresh
        BY <1>2, <3>1, ApplyFacts
      <3> QED
        BY <3>2, ZenonT(60)
    <2>5. PollType' /\ lapsed' \in BOOLEAN
      BY <2>1, <2>4, ZenonT(60) DEF PollType
    <2>6. PollsAgree'
      <3>1. CASE continuation'
        BY <2>4, <3>1 DEF PollsAgree
      <3>2. CASE ~continuation' /\ ~fired' /\ fresh' = 0
        BY <3>2 DEF PollsAgree
      <3>3. CASE ~continuation' /\ timerAt = timerAt' /\ timerAt' # Never
                 /\ fired' = fired /\ fresh' = fresh
        BY <1>1, <3>3 DEF PollsAgree
      <3> QED
        BY <2>4, <3>1, <3>2, <3>3
    <2>7. WorkIsPolledBarringSnapshots' /\ DeadlinesArmed'
      BY <2>1, <2>4, ZenonT(60) DEF WorkIsPolledBarringSnapshots, DeadlinesArmed
    <2> QED
      BY <1>4, <1>5, <2>2, <2>4, <2>5, <2>6, <2>7, InvParts
  <1>8. CASE AcceptRefused
    <2>1. /\ sweep' \in 0..MaxSweep
          /\ lapsed' = (lapsed \/ ~continuation)
          /\ UNCHANGED <<deviceVars, smoltcpVars, turn, ready, native, pollVars>>
      BY <1>8 DEF AcceptRefused
    <2>2. NativeType' /\ PollType' /\ PollsAgree' /\ fresh' + stale' >= fresh + stale
      BY <1>1, <2>1 DEF NativeType, PollType, PollsAgree, TypeOK
    <2>3. lapsed' \in BOOLEAN /\ (continuation' \/ lapsed')
      BY <2>1
    <2>4. WorkIsPolledBarringSnapshots' /\ DeadlinesArmed'
      BY <2>3, ZenonT(60) DEF WorkIsPolledBarringSnapshots, DeadlinesArmed
    <2> QED
      BY <1>4, <1>5, <2>2, <2>3, <2>4, InvParts
  <1> QED
    BY <1>6, <1>7, <1>8

\* Calls that end something: the native stack, the link or the owner.
LEMMA EndStep ==
    ASSUME OwnerInv, Panic \/ ShutdownWaiters \/ LinkDown \/ Stop
    PROVE  OwnerInv'
  <1>1. TypeOK /\ PollInv /\ PollsAgree
    BY DEF OwnerInv, PollInv, PollsAgree
  <1>2. admitted = 0 /\ ~(admitted > 0)
    BY DEF Panic, ShutdownWaiters, LinkDown, Stop, Serving, Idle
  <1>3. CASE Panic
    <2>1. NativeType' /\ lapsed' \in BOOLEAN /\ WorkIsPolledBarringSnapshots' /\ DeadlinesArmed'
      BY <1>3, LostFacts DEF Panic
    <2>2. UNCHANGED <<pollVars, feederVars, linkUp, alive>>
      BY <1>3 DEF Panic
    <2>3. /\ PollType' /\ PollsAgree' /\ linkUp' \in BOOLEAN /\ alive' \in BOOLEAN
          /\ pending' \in 0..InputPackets /\ admitted' \in 0..InputPackets
      BY <1>1, <2>2 DEF PollType, PollsAgree, TypeOK
    <2>4. ~(admitted' > 0) /\ (pending' > 0 => fresh' + stale' > 0)
      BY <1>1, <1>2, <2>2 DEF PollInv
    <2> QED
      BY <2>1, <2>3, <2>4, InvParts
  <1>4. CASE ShutdownWaiters
    <2>1. NativeType' /\ lapsed' \in BOOLEAN /\ WorkIsPolledBarringSnapshots' /\ DeadlinesArmed'
      BY <1>4, LostFacts DEF ShutdownWaiters
    <2>2. /\ UNCHANGED <<admitted, linkUp, alive>> /\ pending' = 0 /\ continuation' = FALSE
          /\ ReplaceTimer(Never, fresh, timerAt)
      BY <1>4 DEF ShutdownWaiters
    <2>3. timerAt' = Never /\ fired' = FALSE /\ fresh' = 0 /\ stale' = stale + fresh
      BY <2>2 DEF ReplaceTimer
    <2>4. PollType' /\ PollsAgree'
      <3>1. continuation' \in BOOLEAN /\ ~continuation' /\ fired' \in BOOLEAN /\ ~fired'
        BY <2>2, <2>3, ZenonT(60)
      <3>2. fresh' = 0 /\ fresh' \in Nat /\ stale' \in Nat /\ timerAt' \in Times
        BY <1>1, <2>3, TimeFacts DEF TypeOK
      <3> QED
        BY <3>1, <3>2, ZenonT(60) DEF PollType, PollsAgree
    <2>5. /\ linkUp' \in BOOLEAN /\ alive' \in BOOLEAN
          /\ pending' \in 0..InputPackets /\ admitted' \in 0..InputPackets
          /\ ~(admitted' > 0) /\ ~(pending' > 0)
      BY <1>1, <1>2, <2>2 DEF TypeOK
    <2> QED
      BY <2>1, <2>4, <2>5, InvParts
  <1>5. CASE LinkDown
    <2>1. UNCHANGED <<nativeVars, pollVars, feederVars, alive, lapsed>> /\ linkUp' = FALSE
      BY <1>5 DEF LinkDown
    <2>2. NativeType' /\ lapsed' \in BOOLEAN /\ WorkIsPolledBarringSnapshots' /\ DeadlinesArmed'
      BY <2>1, NativeSame
    <2>3. /\ PollType' /\ PollsAgree' /\ linkUp' \in BOOLEAN /\ alive' \in BOOLEAN
          /\ pending' \in 0..InputPackets /\ admitted' \in 0..InputPackets
      BY <1>1, <2>1 DEF PollType, PollsAgree, TypeOK
    <2>4. ~(admitted' > 0) /\ (pending' > 0 => fresh' + stale' > 0)
      BY <1>1, <1>2, <2>1 DEF PollInv
    <2> QED
      BY <2>2, <2>3, <2>4, InvParts
  <1>6. CASE Stop
    BY <1>2, <1>6, TerminateStep DEF Stop
  <1> QED
    BY <1>3, <1>4, <1>5, <1>6

-----------------------------------------------------------------------------
(* Theorems *)

LEMMA InitInv == Init => OwnerInv
  <1> SUFFICES ASSUME Init PROVE OwnerInv
    OBVIOUS
  <1>1. TypeOK
    <2>1. /\ turn \in BOOLEAN /\ ready \in BOOLEAN /\ continuation \in BOOLEAN
          /\ fired \in BOOLEAN /\ linkUp \in BOOLEAN /\ alive \in BOOLEAN
          /\ lapsed \in BOOLEAN
      BY ZenonT(60) DEF Init
    <2> QED
      BY <2>1, TimeFacts DEF Init, TypeOK
  <1>2. PollInv
    BY DEF Init, PollInv
  <1>3. ~WorkLeft
    BY DEF Init, WorkLeft, TransmitReady, ReceiveReady, Sendable, Min2
  <1>4. DeadlinesArmed
    BY TimeFacts DEF Init, DeadlinesArmed, SmoltcpPollAt
  <1> QED
    BY <1>1, <1>2, <1>3, <1>4 DEF OwnerInv, WorkIsPolledBarringSnapshots

LEMMA StepInv == OwnerInv /\ [Next]_vars => OwnerInv'
  <1> SUFFICES ASSUME OwnerInv, [Next]_vars PROVE OwnerInv'
    OBVIOUS
  <1>1. CASE Poll
    BY <1>1, PollStep
  <1>2. CASE Processing
    BY <1>2, ProcessingStep
  <1>3. CASE FireTimer
    BY <1>3, FireStep
  <1>4. CASE Call
    BY <1>4, IngressStep, DriveCallStep, OtherCallStep, EndStep DEF Call
  <1>5. CASE Tick
    BY <1>5, TickStep
  <1>6. CASE UNCHANGED vars
    <2>1. TypeOK'
      BY <1>6 DEF vars, OwnerInv, TypeOK
    <2>2. PollInv'
      BY <1>6 DEF vars, OwnerInv, PollInv
    <2>3. WorkIsPolledBarringSnapshots'
      BY <1>6 DEF vars, OwnerInv, WorkIsPolledBarringSnapshots, WorkLeft, TransmitReady,
                  ReceiveReady
    <2>4. DeadlinesArmed'
      BY <1>6 DEF vars, OwnerInv, DeadlinesArmed
    <2> QED
      BY <2>1, <2>2, <2>3, <2>4 DEF OwnerInv
  <1> QED
    BY <1>1, <1>2, <1>3, <1>4, <1>5, <1>6 DEF Next

LEMMA InvHolds == Spec => []OwnerInv
  BY InitInv, StepInv, PTL DEF Spec

\* Every variable keeps to its type: the queues, the credit and the sweeps to their
\* limits, and no drive, call or poll makes a count negative.
THEOREM TypeCorrect == Spec => []TypeOK
  BY InvHolds, PTL DEF OwnerInv

\* The bookkeeping of apply_effects and replace_timer is sound for any limits.
THEOREM PollsAreAccounted == Spec => []PollInv
  BY InvHolds, PTL DEF OwnerInv

\* There is a current poll message exactly when a continuation is due or the timer
\* has fired, and then only one: polls never multiply.
THEOREM PollsNeverMultiply == Spec => []OnePoll
  <1>1. PollInv => OnePoll
    BY DEF PollInv, OnePoll
  <1> QED
    BY <1>1, PollsAreAccounted, PTL

\* A feeder is held only while a message that releases it is on its way.
THEOREM FeederIsReleased == Spec => []HeldIsReleased
  <1>1. PollInv => HeldIsReleased
    BY DEF PollInv, HeldIsReleased
  <1> QED
    BY <1>1, PollsAreAccounted, PTL

\* Work a drive leaves behind is polled for, until a call that reports
\* current_effects intervenes.
THEOREM WorkPolled == Spec => []WorkIsPolledBarringSnapshots
  BY InvHolds, PTL DEF OwnerInv

\* The owner's timer covers the deadlines of smoltcp and of closing sockets.
THEOREM TimerCoversDeadlines == Spec => []DeadlinesArmed
  BY InvHolds, PTL DEF OwnerInv

\* Only terminate ends the owner, and it drops the native stack.
LEMMA AliveStep == (alive \/ native # "up") /\ [Next]_vars => (alive \/ native # "up")'
  <1> SUFFICES ASSUME alive \/ native # "up", [Next]_vars
               PROVE  alive' \/ native' # "up"
    BY ZenonT(60)
  <1>1. CASE Next
    BY <1>1, ZenonT(60)
    DEF Next, Poll, PollFresh, PollFails, PollFatal, PollStale, Processing, ProcessIngress,
        IngressFails, FireTimer, Call, IngressAdmitted, IngressHeld, DriveCall, CloseCall,
        GrantEgress, PreserveCall, SnapshotCall, AcceptRefused, Panic, ShutdownWaiters,
        LinkDown, Stop, Tick, Terminate, Serving, Idle
  <1>2. CASE UNCHANGED vars
    BY <1>2 DEF vars
  <1> QED
    BY <1>1, <1>2

\* Packets answered with ok fit the receive queue, but for a full transmit queue and
\* the effects of a tcp_accept.
THEOREM AcceptedFits == Spec => []AcceptedIsProcessed
  <1>1. Init => alive \/ native # "up"
    BY DEF Init
  <1>2. Spec => [](alive \/ native # "up")
    BY <1>1, AliveStep, PTL DEF Spec
  <1>3. OwnerInv /\ (alive \/ native # "up") => AcceptedIsProcessed
    <2> SUFFICES ASSUME OwnerInv, alive \/ native # "up", AcceptedIsLost, ~lapsed,
                        tx # OutputPackets
                 PROVE  FALSE
      BY DEF AcceptedIsProcessed
    <2>1. native = "up" /\ admitted > 0 /\ rx + admitted > InputPackets /\ alive
      BY DEF AcceptedIsLost
    <2>2. ~continuation
      BY <2>1 DEF OwnerInv, PollInv
    <2>3. ~ReceiveReady
      BY <2>1, <2>2 DEF OwnerInv, WorkIsPolledBarringSnapshots, WorkLeft
    <2> QED
      BY <2>1, <2>3 DEF OwnerInv, TypeOK, ReceiveReady
  <1> QED
    BY <1>2, <1>3, InvHolds, PTL
=============================================================================

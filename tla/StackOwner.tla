----------------------------- MODULE StackOwner -----------------------------
(***************************************************************************)
(* The stack owner process (stack.ex) around the native drive              *)
(* (drive_batch in stack.rs, BeamDevice in device.rs): when the owner      *)
(* polls again, and what becomes of the feeder's packets.                  *)
(*                                                                         *)
(* Every handler of the owner is one action: its messages are handled one  *)
(* at a time, and a native call runs inside one.  The mailbox is the       *)
(* number of poll messages of the current timer generation (`fresh') and   *)
(* of earlier ones (`stale'), handled in any order; other messages arrive  *)
(* at any time.  Packets are counted; what a sweep, a socket or the        *)
(* readiness machinery does is abstracted to how much of it is left.       *)
(*                                                                         *)
(* Time is relative: a deadline is the time left, 0 is due, Never is none, *)
(* and Tick lets one unit pass.                                            *)
(***************************************************************************)
EXTENDS Integers

CONSTANTS InputPackets,    \* limits.input_packets, the receive queue's limit
          OutputPackets,   \* limits.output_packets
          MaintenanceWork, \* limits.maintenance_work
          Limited,         \* whether the stack was started with egress credit
          Cuts,            \* where a call's time budget runs out: nowhere, while packets
                           \* are processed, in the egress loop, or after it
          MaxCredit,       \* bound: credit outstanding
          MaxUnsent,       \* bound: segments the sockets want to send
          MaxSweep,        \* bound: entries a closing or listener sweep visits
          MaxDelay,        \* bound: the longest timer
          MaxStale         \* bound: poll messages in the mailbox

ASSUME OwnerAssumption ==
    /\ InputPackets \in Nat \ {0}
    /\ OutputPackets \in Nat \ {0}
    /\ MaintenanceWork \in Nat \ {0}
    /\ Limited \in BOOLEAN
    /\ Cuts \subseteq {"no", "ingress", "egress", "late"}
    /\ MaxSweep \in Nat \ {0}
    /\ MaxCredit \in Nat
    /\ MaxUnsent \in Nat
    /\ MaxDelay \in Nat
    /\ MaxStale \in Nat

Never == MaxDelay + 1
Times == 0..Never
Later == 1..Never

VARIABLES
    rx,       \* packets in the device's receive queue
    tx,       \* packets in its transmit queue
    credit,   \* egress credit left, in packets
    unsent,   \* segments smoltcp's sockets would send now
    tcpAt,    \* the earliest timer of a smoltcp socket
    closeAt,  \* the earliest deadline of a closing socket
    sweep,    \* entries the pending closing and listener sweeps have left
    turn,     \* a sweep was passed over and goes first (maintenance_cleanup_turn, listener_maintenance_turn)
    ready,    \* readiness work is retained (module Readiness)
    native,   \* "up", "down" once a shutdown was asked for, or "broken" by a panic
    continuation, \* native_continuation
    fresh, stale, \* poll messages of the current and of earlier generations
    timerAt, fired, \* state.timer: its deadline, and whether its message was sent
    pending,  \* pending_ingress: the packets of the feeder held
    admitted, \* packets answered with ok that the next continuation processes
    linkUp, alive,
    lapsed    \* the last call that replaced the poll did not look at all the work left

deviceVars == <<rx, tx, credit>>
smoltcpVars == <<unsent, tcpAt, closeAt>>
sweepVars == <<sweep, turn>>
nativeVars == <<deviceVars, smoltcpVars, sweepVars, ready, native>>
pollVars == <<continuation, fresh, stale, timerAt, fired>>
feederVars == <<pending, admitted>>
vars == <<nativeVars, pollVars, feederVars, linkUp, alive, lapsed>>

TypeOK ==
    /\ rx \in 0..InputPackets
    /\ tx \in 0..OutputPackets
    /\ credit \in 0..MaxCredit
    /\ unsent \in 0..MaxUnsent
    /\ tcpAt \in Times
    /\ closeAt \in Times
    /\ sweep \in 0..MaxSweep
    /\ turn \in BOOLEAN
    /\ ready \in BOOLEAN
    /\ native \in {"up", "down", "broken"}
    /\ continuation \in BOOLEAN
    /\ fresh \in Nat
    /\ stale \in Nat
    /\ timerAt \in Times
    /\ fired \in BOOLEAN
    /\ pending \in 0..InputPackets
    /\ admitted \in 0..InputPackets
    /\ linkUp \in BOOLEAN
    /\ alive \in BOOLEAN
    /\ lapsed \in BOOLEAN

\* init and create_native_stack.
Init ==
    /\ rx = 0
    /\ tx = 0
    /\ credit = 0
    /\ unsent = 0
    /\ tcpAt = Never
    /\ closeAt = Never
    /\ sweep = 0
    /\ turn = FALSE
    /\ ready = FALSE
    /\ native = "up"
    /\ continuation = FALSE
    /\ fresh = 0
    /\ stale = 0
    /\ timerAt = Never
    /\ fired = FALSE
    /\ pending = 0
    /\ admitted = 0
    /\ linkUp = TRUE
    /\ alive = TRUE
    /\ lapsed = FALSE

Min2(a, b) == IF a < b THEN a ELSE b

-----------------------------------------------------------------------------
(* The device *)

\* How many of t queued packets the credit c lets go to the link.
Sendable(t, c) == IF Limited THEN Min2(t, c) ELSE t

\* transmit_credit_available: the transmit queue may grow.
CreditOpen(t, c) == ~Limited \/ t < c

\* transmit_ready: a queued packet may go to the link.
TransmitReady == Sendable(tx, credit) > 0

\* The receive queue has something that may be processed.
ReceiveReady == rx > 0 /\ tx < OutputPackets

\* What is left of credit c after n packets.
Spend(c, n) == IF Limited THEN c - n ELSE c

\* take_transmit of at most `room' packets.  Bytes are not counted here, so that
\* it may stop short of them; but it hands out at least one packet if it can, as
\* the first fits any byte budget, unless the call's budget is out.
Taken(t, c, room, cut) ==
    LET most == Min2(Sendable(t, c), room)
    IN  IF cut THEN 0..most ELSE Min2(1, most)..most

-----------------------------------------------------------------------------
(* The owner's polls and timer *)

\* Mutant: a new generation leaves the current poll message current.
ReplaceTimerKeep(at, fr, t) ==
    /\ timerAt' = at
    /\ fired' = FALSE
    /\ fresh' = fr
    /\ stale' = stale

\* replace_timer: cancel the timer, move to a new generation, which makes the
\* current poll messages stale, and arm a timer for `at'.  A timer with that very
\* deadline stays (two deadlines that have passed may or may not be the same).
ReplaceTimer(at, fr, t) ==
    \/ /\ t = at
       /\ at # Never
       /\ timerAt' = t
       /\ fresh' = fr
       /\ UNCHANGED <<fired, stale>>
    \/ /\ t # at \/ at \in {0, Never}
       /\ timerAt' = at
       /\ fired' = FALSE
       /\ fresh' = 0
       /\ stale' = stale + fr

\* apply_effects' continuation: the timer is dropped and a poll message of the new
\* generation sent.
Continue(fr) ==
    /\ continuation' = TRUE
    /\ timerAt' = Never
    /\ fired' = FALSE
    /\ fresh' = 1
    /\ stale' = stale + fr

\* apply_effects with :replace_timer.
ApplyEffects(more, at, fr, t) ==
    IF more THEN Continue(fr)
            ELSE continuation' = FALSE /\ ReplaceTimer(at, fr, t)

\* apply_effects with :preserve_timer, for calls that report no deadline.
PreserveEffects(more) ==
    IF more THEN Continue(fresh) ELSE UNCHANGED pollVars

-----------------------------------------------------------------------------
(* Driving the interface *)

\* How the egress loop ended: it did not start; it stopped after an egress that
\* may leave more; or smoltcp had nothing more to send.
Egress == {"skipped", "stopped", "done"}

\* The poll smoltcp asks for, in u segments and timer t: data to send asks for one
\* now.
SmoltcpPollAt(u, t) == IF u > 0 THEN 0 ELSE t

\* Mutant: the deadline of closing sockets is left out of the poll.
DrivePollAtNoClose == IF CreditOpen(tx', credit') \/ SmoltcpPollAt(unsent', tcpAt') > 0
                      THEN SmoltcpPollAt(unsent', tcpAt') ELSE Never

\* Mutant: a poll that waits for credit is asked for all the same.
DrivePollAtSpin == Min2(SmoltcpPollAt(unsent', tcpAt'), closeAt')

\* The deadline drive_batch reports, in the state it leaves.  A poll that could
\* only send, and waits for credit, is left out.
DrivePollAt ==
    LET smoltcp == SmoltcpPollAt(unsent', tcpAt')
    IN  Min2(IF CreditOpen(tx', credit') \/ smoltcp > 0 THEN smoltcp ELSE Never, closeAt')

\* Mutant: a sweep that was not finished does not ask for a continuation.
DriveMoreNoSweep(remain, deferred) ==
    \/ TransmitReady'
    \/ ReceiveReady'
    \/ remain /\ CreditOpen(tx', credit')
    \/ deferred
    \/ ready'

\* drive_batch's `more' with the readiness work finish_call adds.
DriveMore(remain, deferred) ==
    \/ TransmitReady'
    \/ ReceiveReady'
    \/ remain /\ CreditOpen(tx', credit')
    \/ sweep' > 0
    \/ deferred
    \/ ready'

\* drive_batch's ingress loop on n packets, with `queued' packets to transmit:
\* `taken' are processed, each with a reply at most.
IngressLoop(n, queued, taken, replies, cut) ==
    /\ taken > 0 => queued < OutputPackets
    /\ taken < n => cut = "ingress" \/ queued + replies = OutputPackets
    /\ rx' = n - taken

\* Its egress loop: of `total' segments, `emitted' join the `queued' packets.  It is
\* skipped when the sweeps took all of the work, there is no room or no time.
EgressLoop(egress, queued, c, total, emitted, work, remain, cut) ==
    LET Room(t) == t < OutputPackets /\ CreditOpen(t, c)
    IN  \/ /\ egress = "skipped"
           /\ emitted = 0
           /\ IF remain THEN work = MaintenanceWork
                        ELSE ~Room(queued) \/ cut \in {"ingress", "egress"}
        \/ /\ egress = "stopped"
           /\ remain
           /\ cut # "ingress"
           /\ emitted > 0
           /\ Room(queued + emitted - 1)
        \/ /\ egress = "done"
           /\ ~remain
           /\ cut \notin {"ingress", "egress"}
           /\ emitted = total
           /\ Room(queued + emitted)

\* The closing and listener sweeps before and after it: of the entries due, which
\* is what was left or a new sweep, `work' are visited.  A sweep passed over goes
\* first the next time.
Sweeps(close, changed, work, cut) ==
    \E entries \in (IF close = 0 THEN {} ELSE {sweep})
                    \cup (IF changed \/ close = 0 THEN 1..MaxSweep ELSE {}) :
        /\ work <= entries
        /\ work = 0 /\ entries > 0 => ~turn \/ cut # "no"
        /\ sweep' = entries - work
        /\ turn' \in IF work < entries THEN {work = 0, TRUE} ELSE {FALSE}
        /\ closeAt' = IF close = 0 /\ work > 0 THEN Never ELSE close

\* One outcome of drive_batch: `sent' packets go to the link, `taken' are processed,
\* and of u segments and one raised `emitted' are sent.  A packet processed or a timer
\* that is due may raise a segment (timers due together count as one), as may the
\* reset of a closing socket past its deadline; MaxUnsent stands for that many or
\* more.
DriveBatch(new, c, u, close, cut, egress, remain, work, taken, sent, replies, raised, emitted) ==
    LET queued  == tx - sent + replies
        total   == Min2(MaxUnsent, u + raised)
        changed == taken > 0 \/ emitted > 0
        reached == tcpAt = 0 /\ egress # "skipped"
        expired == reached /\ (egress = "done" \/ (raised = 1 /\ taken = 0))
    IN
    /\ replies <= OutputPackets - (tx - sent)
    /\ raised = 1 => taken > 0 \/ reached
    /\ emitted <= total
    /\ IngressLoop(rx + new, tx - sent, taken, replies, cut)
    /\ EgressLoop(egress, queued, Spend(c, sent), total, emitted, work, remain, cut)
    /\ Sweeps(close, changed \/ reached, work, cut)
    /\ unsent' \in {total - emitted}
                   \cup (IF close = 0 /\ work > 0 THEN {Min2(MaxUnsent, total - emitted + 1)}
                         ELSE {})
    /\ tcpAt' \in (IF expired THEN {} ELSE {tcpAt})
                  \cup (IF changed \/ expired THEN Later ELSE {})
    /\ \E again \in Taken(queued + emitted, Spend(c, sent), OutputPackets - sent,
                          cut # "no" \/ sent > 0) :
           /\ tx' = queued + emitted - again
           /\ credit' = Spend(c, sent + again)
    /\ ready' \in BOOLEAN
    /\ lapsed' = FALSE
    /\ UNCHANGED native

\* drive_batch offers smoltcp the packets held and new ones, with credit c, u
\* segments to send and the close deadline `close'; then finish_call, and the owner
\* applies the effects, with fr current poll messages left and its timer at t.
Drive(new, c, u, close, fr, t) ==
    \E cut \in Cuts, egress \in Egress, remain \in BOOLEAN,
       work \in 0..Min2(MaxSweep, MaintenanceWork), taken \in 0..(rx + new) :
    \E sent \in Taken(tx, c, OutputPackets, cut = "ingress"), replies \in 0..taken,
       raised \in 0..1, emitted \in 0..Min2(MaxUnsent, OutputPackets) :
        /\ DriveBatch(new, c, u, close, cut, egress, remain, work, taken, sent, replies,
                      raised, emitted)
        /\ ApplyEffects(DriveMore(remain, cut \in {"ingress", "egress"}), DrivePollAt, fr, t)

-----------------------------------------------------------------------------
(* Messages and calls *)

\* The owner may handle another message: handle_continue goes before any.
Idle == alive /\ admitted = 0

\* It handles a call; the mailbox stays within its bound.
Serving == Idle /\ stale + fresh <= MaxStale

\* Mutant: the held feeder is answered with work still left.
ContinuePendingAnyway(held) == pending' = 0 /\ admitted' = held

\* continue_pending_ingress: unless a continuation will, the packets of the feeder
\* held are answered with ok and processed next.
ContinuePending(held) ==
    IF continuation' \/ held = 0
    THEN pending' = held /\ admitted' = 0
    ELSE pending' = 0 /\ admitted' = held

\* The native stack is gone, drained or out of reach, with what it held.
NativeLost ==
    /\ rx' = 0
    /\ tx' = 0
    /\ credit' = 0
    /\ unsent' = 0
    /\ tcpAt' = Never
    /\ closeAt' = Never
    /\ sweep' = 0
    /\ turn' = FALSE
    /\ ready' = FALSE
    /\ lapsed' = FALSE

\* terminate, and the end of the process and of its timer.
Terminate ==
    /\ alive' = FALSE
    /\ NativeLost
    /\ native' = "down"
    /\ pending' = 0
    /\ continuation' = FALSE
    /\ fresh' = 0
    /\ stale' = 0
    /\ timerAt' = Never
    /\ fired' = FALSE
    /\ UNCHANGED <<admitted, linkUp>>

\* stack_poll.
PollFresh ==
    /\ Idle
    /\ fresh > 0
    /\ native = "up"
    /\ Drive(0, credit, unsent, closeAt, fresh - 1, Never)
    /\ ContinuePending(pending)
    /\ UNCHANGED <<linkUp, alive>>

\* stack_poll fails.
PollFails ==
    /\ Idle
    /\ fresh > 0
    /\ native = "broken"
    /\ ~continuation
    /\ UNCHANGED <<nativeVars, continuation, linkUp, alive, lapsed>>
    /\ ReplaceTimer(Never, fresh - 1, Never)
    /\ ContinuePending(pending)

\* With work left that is fatal.
PollFatal ==
    /\ Idle
    /\ fresh > 0
    /\ native = "broken"
    /\ continuation
    /\ Terminate

\* Mutant: a stale poll is dropped with the feeder's packets still held.
PollStaleDropped ==
    /\ Idle
    /\ stale > 0
    /\ stale' = stale - 1
    /\ UNCHANGED <<continuation, fresh, timerAt, fired>>
    /\ UNCHANGED <<nativeVars, feederVars, linkUp, alive, lapsed>>

\* A poll message of an earlier generation.
PollStale ==
    /\ Idle
    /\ stale > 0
    /\ stale' = stale - 1
    /\ UNCHANGED <<continuation, fresh, timerAt, fired>>
    /\ ContinuePending(pending)
    /\ UNCHANGED <<nativeVars, linkUp, alive, lapsed>>

\* The timer sends its message.
FireTimer ==
    /\ timerAt = 0
    /\ ~fired
    /\ alive
    /\ fired' = TRUE
    /\ fresh' = fresh + 1
    /\ UNCHANGED <<nativeVars, continuation, stale, timerAt, feederVars, linkUp, alive,
                   lapsed>>

\* An ingress call with n packets while nothing is left to do: answered with ok, and
\* processed before any other message.
IngressAdmitted(n) ==
    /\ Serving
    /\ native # "down"
    /\ linkUp
    /\ ~continuation
    /\ admitted' = n
    /\ UNCHANGED <<nativeVars, pollVars, pending, linkUp, alive, lapsed>>

\* With work left, the feeder is held.  (A second feeder is refused, as are calls
\* with the link down or after a shutdown: no step.)
IngressHeld(n) ==
    /\ Serving
    /\ native # "down"
    /\ linkUp
    /\ continuation
    /\ pending = 0
    /\ pending' = n
    /\ UNCHANGED <<nativeVars, pollVars, admitted, linkUp, alive, lapsed>>

\* process_ingress of packets that fit the receive queue.
ProcessIngress ==
    /\ alive
    /\ admitted > 0
    /\ native = "up"
    /\ rx + admitted <= InputPackets
    /\ Drive(admitted, credit, unsent, closeAt, fresh, timerAt)
    /\ ContinuePending(pending)
    /\ UNCHANGED <<linkUp, alive>>

\* process_ingress fails: the packets are counted and lost.
IngressFails ==
    /\ alive
    /\ admitted > 0
    /\ native # "up" \/ rx + admitted > InputPackets
    /\ continuation' = FALSE
    /\ ContinuePending(pending)
    /\ UNCHANGED <<nativeVars, fresh, stale, timerAt, fired, linkUp, alive, lapsed>>

\* A socket call that drives the interface, with or without something new to send.
DriveCall(u) ==
    /\ Serving
    /\ native = "up"
    /\ Drive(0, credit, u, closeAt, fresh, timerAt)
    /\ UNCHANGED <<feederVars, linkUp, alive>>

\* A graceful close.  Its deadline is the latest of all: when another socket is
\* closing, this is but a call that drives.
CloseCall(u) ==
    /\ Serving
    /\ native = "up"
    /\ closeAt = Never
    /\ Drive(0, credit, u, MaxDelay, fresh, timerAt)
    /\ UNCHANGED <<feederVars, linkUp, alive>>

\* grant_egress.
GrantEgress(n) ==
    /\ Serving
    /\ native = "up"
    /\ Limited
    /\ credit + n <= MaxCredit
    /\ Drive(0, credit + n, unsent, closeAt, fresh, timerAt)
    /\ UNCHANGED <<feederVars, linkUp, alive>>

\* A call that does not drive: open, cancel, bind, a name or an option read.
PreserveCall ==
    /\ Serving
    /\ native = "up"
    /\ ready' \in BOOLEAN
    /\ PreserveEffects(ready')
    /\ UNCHANGED <<deviceVars, smoltcpVars, sweepVars, native, feederVars, linkUp, alive,
                   lapsed>>

\* tcp_accept, and the connect retry of a connection that is established: they
\* report current_effects, which looks at the listener sweep (tcp_accept), the
\* readiness work and smoltcp's own timers only.
SnapshotCall(scan) ==
    /\ Serving
    /\ native = "up"
    /\ ready' \in BOOLEAN
    /\ sweep' \in IF scan THEN 1..MaxSweep ELSE 0..sweep
    /\ ApplyEffects(scan \/ ready', SmoltcpPollAt(unsent, tcpAt), fresh, timerAt)
    /\ lapsed' = ~continuation'
    /\ UNCHANGED <<deviceVars, smoltcpVars, turn, native, feederVars, linkUp, alive>>

\* tcp_accept with the waiters at their limit: it has begun a listener sweep, and
\* reports an error and no effects.
AcceptRefused ==
    /\ Serving
    /\ native = "up"
    /\ sweep' \in 0..MaxSweep
    /\ lapsed' = (lapsed \/ ~continuation)
    /\ UNCHANGED <<deviceVars, smoltcpVars, turn, ready, native, pollVars, feederVars, linkUp,
                   alive>>

\* The native stack panics in a call: its lock is poisoned, and every later call
\* fails.
Panic ==
    /\ Serving
    /\ native = "up"
    /\ native' = "broken"
    /\ NativeLost
    /\ UNCHANGED <<pollVars, feederVars, linkUp, alive>>

\* shutdown_waiters: the feeder is refused and the native stack drained.
ShutdownWaiters ==
    /\ Serving
    /\ native # "down"
    /\ native' = "down"
    /\ NativeLost
    /\ pending' = 0
    /\ continuation' = FALSE
    /\ ReplaceTimer(Never, fresh, timerAt)
    /\ UNCHANGED <<admitted, linkUp, alive>>

\* The link goes down under :mark_down or {:notify, _}.
LinkDown ==
    /\ Idle
    /\ linkUp
    /\ linkUp' = FALSE
    /\ UNCHANGED <<nativeVars, pollVars, feederVars, alive, lapsed>>

\* The owner stops: the link goes down under :stop, or the starter dies.
Stop == Idle /\ Terminate

\* One unit of time passes.
Tick ==
    LET Pass(t) == IF t \in {0, Never} THEN t ELSE t - 1
    IN  /\ alive
        /\ {tcpAt, closeAt, timerAt} \cap 1..MaxDelay # {}
        /\ tcpAt' = Pass(tcpAt)
        /\ closeAt' = Pass(closeAt)
        /\ timerAt' = Pass(timerAt)
        /\ UNCHANGED <<deviceVars, unsent, sweepVars, ready, native, continuation, fresh,
                       stale, fired, feederVars, linkUp, alive, lapsed>>

-----------------------------------------------------------------------------
Poll == PollFresh \/ PollFails \/ PollFatal \/ PollStale

Processing == ProcessIngress \/ IngressFails

Call ==
    \/ \E n \in 1..InputPackets : IngressAdmitted(n) \/ IngressHeld(n)
    \/ \E u \in unsent..Min2(MaxUnsent, unsent + 1) : DriveCall(u) \/ CloseCall(u)
    \/ \E n \in 1..MaxCredit : GrantEgress(n)
    \/ PreserveCall
    \/ \E scan \in BOOLEAN : SnapshotCall(scan)
    \/ AcceptRefused
    \/ Panic
    \/ ShutdownWaiters
    \/ LinkDown
    \/ Stop

Next == Poll \/ Processing \/ FireTimer \/ Call \/ Tick

Spec == Init /\ [][Next]_vars

-----------------------------------------------------------------------------
(* Properties *)

\* The mailbox and the owner's state agree: there is one current poll message when
\* a continuation is due or the timer has fired, and none otherwise (apply_effects,
\* replace_timer).
OnePoll ==
    alive => fresh = (IF continuation \/ fired THEN 1 ELSE 0)

\* The feeder is never held with nothing left to release it (the comment on stale
\* polls in stack.ex): a poll message, current or stale, is on its way.
HeldIsReleased ==
    alive /\ pending > 0 => fresh + stale > 0

\* What the native stack left undone, and a poll could do.
WorkLeft == TransmitReady \/ ReceiveReady \/ sweep > 0 \/ ready

\* "Any retained work sets `more: true`" (ADR 0011), and the owner then polls.
WorkIsPolled ==
    alive /\ native = "up" /\ WorkLeft => continuation

\* The same for the calls that look at all of the work: after a drive, what is left
\* is polled for until the next tcp_accept or connect retry (SnapshotCall,
\* AcceptRefused).
WorkIsPolledBarringSnapshots ==
    alive /\ native = "up" /\ WorkLeft => continuation \/ lapsed

\* The deadlines of smoltcp and of closing sockets are the owner's: with no
\* continuation due its timer fires no later than the first, unless that is due
\* and waits for credit.
DeadlinesArmed ==
    alive /\ native = "up" /\ ~continuation /\ ~lapsed =>
        /\ timerAt <= closeAt
        /\ CreditOpen(tx, credit) \/ SmoltcpPollAt(unsent, tcpAt) > 0
               => timerAt <= SmoltcpPollAt(unsent, tcpAt)

\* The inductive invariant behind OnePoll and HeldIsReleased: a continuation and an
\* armed timer exclude each other, a timer that has fired is due, and packets are
\* admitted with no continuation due.
PollInv ==
    /\ fresh = (IF continuation \/ fired THEN 1 ELSE 0)
    /\ continuation => timerAt = Never /\ ~fired
    /\ fired => timerAt = 0
    /\ admitted > 0 => ~continuation
    /\ pending > 0 => fresh + stale > 0

\* Packets answered with ok are lost (receive_fits fails).
AcceptedIsLost == native = "up" /\ admitted > 0 /\ rx + admitted > InputPackets

\* Packets answered with ok are not lost but to a panic, a full transmit queue or the
\* effects of a tcp_accept: accept_ingress, which looks at the continuation only,
\* agrees with the native stack, which looks at its queue.
AcceptedIsProcessed == AcceptedIsLost => tx = OutputPackets \/ lapsed
=============================================================================

-------------------------- MODULE ReadinessProofs --------------------------
(***************************************************************************)
(* Proofs about Readiness, for any limits, any number of sockets and any   *)
(* number of select references.                                            *)
(***************************************************************************)
EXTENDS Readiness, FiniteSetTheorems, TLAPS

\* Most leaves are first-order and short: Zenon is asked first, then the SMT solver.
USE ZenonT(3), SMTT(20), ZenonT(60)

USE DEF tableVars, queueVars, sweepVars, refVars, scanVars, callVars

-----------------------------------------------------------------------------
(* Keys and finite sets of them *)

\* A key is the read or the write key of its socket, in this order.
LEMMA KeyFacts ==
    ASSUME NEW k \in Keys
    PROVE  /\ Id(k) \in Ids
           /\ k = Key(Id(k), Read) \/ k = Key(Id(k), Write)
  BY LimitsAssumption DEF Keys, Ids, Id, Key, Read, Write

\* The keys of a socket.
LEMMA SocketKeys ==
    ASSUME NEW i \in Ids
    PROVE  /\ Key(i, Read) \in Keys /\ Key(i, Write) \in Keys
           /\ Id(Key(i, Read)) = i /\ Id(Key(i, Write)) = i
           /\ Key(i, Read) < Key(i, Write)
           /\ Key(i, Read) # Key(i, Write)
  BY LimitsAssumption DEF Keys, Ids, Id, Key, Read, Write

\* Sets of keys are finite.
LEMMA KeySets ==
    ASSUME NEW S \in SUBSET Keys
    PROVE  IsFiniteSet(S) /\ Cardinality(S) \in Nat
  <1>1. 2 \in Int /\ 2 * MaxId + 1 \in Int
    BY LimitsAssumption
  <1>2. IsFiniteSet(Keys)
    BY <1>1, FS_Interval DEF Keys
  <1>3. IsFiniteSet(S)
    BY <1>2, FS_Subset
  <1> QED
    BY <1>3, FS_CardinalityType

\* Sets of references are finite.
LEMMA RefSets ==
    ASSUME NEW S \in SUBSET Refs
    PROVE  IsFiniteSet(S) /\ Cardinality(S) \in Nat
  <1>1. 1 \in Int /\ MaxRef \in Int
    BY LimitsAssumption
  <1>2. IsFiniteSet(Refs)
    BY <1>1, FS_Interval DEF Refs
  <1>3. IsFiniteSet(S)
    BY <1>2, FS_Subset
  <1> QED
    BY <1>3, FS_CardinalityType

-----------------------------------------------------------------------------
(* Type correctness *)

\* The waiters of a set of keys are references, and taking them keeps the types
\* of the waiter slots and of their count.
LEMMA TakeWaitersType ==
    ASSUME TypeOK, NEW ks \in SUBSET Keys, TakeWaiters(ks)
    PROVE  /\ waiter' \in [Keys -> Refs \cup {0}]
           /\ waiterCount' \in Int
           /\ progress' \subseteq Keys
           /\ Waiting(ks) \subseteq Refs
  <1>1. {k \in ks : waiter[k] # 0} \in SUBSET Keys
    OBVIOUS
  <1>2. Cardinality({k \in ks : waiter[k] # 0}) \in Nat
    BY <1>1, KeySets
  <1> QED
    BY <1>2 DEF TakeWaiters, Waiting, TypeOK

\* Delivering a set of keys keeps the types of what it changes.
LEMMA DeliverType ==
    ASSUME TypeOK, NEW ks \in SUBSET Keys, DeliverOrDiscard(ks)
    PROVE  /\ flag' \in [Keys -> BOOLEAN]
           /\ waiter' \in [Keys -> Refs \cup {0}]
           /\ sent' \in [Keys -> Refs \cup {0}]
           /\ waiterCount' \in Int
           /\ progress' \subseteq Keys
           /\ selected' \subseteq Refs
  <1> DEFINE ready == {k \in ks : lifecycle = "running" /\ Id(k) \in live /\ flag[k]}
  <1>1. ready \in SUBSET Keys
    OBVIOUS
  <1>2. /\ TakeWaiters(ready)
        /\ selected' = selected \cup Waiting(ready)
        /\ flag' = [k \in Keys |-> k \notin ready /\ flag[k]]
        /\ sent' = [k \in Keys |-> IF k \in ready /\ waiter[k] # 0
                                   THEN waiter[k] ELSE sent[k]]
    BY DEF DeliverOrDiscard
  <1> HIDE DEF ready
  <1>3. /\ waiter' \in [Keys -> Refs \cup {0}]
        /\ waiterCount' \in Int
        /\ progress' \subseteq Keys
        /\ Waiting(ready) \subseteq Refs
    BY <1>1, <1>2, TakeWaitersType
  <1> QED
    BY <1>2, <1>3 DEF TypeOK

\* A wake-up keeps the types of the flags and of the queue.
LEMMA MarkReadyType ==
    ASSUME TypeOK, NEW k \in Keys, MarkReady(k)
    PROVE  flag' \in [Keys -> BOOLEAN] /\ queue' \subseteq Keys /\ overflow' \in BOOLEAN
  BY DEF MarkReady, TypeOK

\* The cost of a scan is a number.
LEMMA EndScanType ==
    ASSUME TypeOK, NEW n \in Nat, NEW keys \in SUBSET Keys, NEW done \in BOOLEAN,
           EndScan(n, keys, done)
    PROVE  phase' \in Phases /\ complete' \in BOOLEAN /\ work' \in Nat
  BY KeySets DEF EndScan, TypeOK, Phases

\* Every step keeps every variable in its type.
LEMMA TypeStep == TypeOK /\ [Next]_vars => TypeOK'
  <1> SUFFICES ASSUME TypeOK, [Next]_vars
               PROVE  TypeOK'
    OBVIOUS
  <1> USE LimitsAssumption
  <1>1. CASE Open
    BY <1>1 DEF Open, Begin, TypeOK, Phases, Ids
  <1>2. ASSUME NEW k \in Keys, NEW ready \in BOOLEAN, NEW drive \in BOOLEAN,
               Arm(k, ready, drive)
        PROVE  TypeOK'
    <2>1. flag' \in [Keys -> BOOLEAN] /\ queue' \subseteq Keys /\ overflow' \in BOOLEAN
      BY <1>2, MarkReadyType DEF Arm, TypeOK
    <2>2. nextRef \in Refs /\ nextRef' \in 1..(MaxRef + 1)
      BY <1>2 DEF Arm, TypeOK, Refs
    <2>3. /\ waiter' \in [Keys -> Refs \cup {0}]
          /\ sent' \in [Keys -> Refs \cup {0}]
          /\ progress' \subseteq Keys
          /\ registered' \in [Keys -> BOOLEAN]
      BY <1>2, <2>2 DEF Arm, TypeOK
    <2>4. phase' \in Phases /\ waiterCount' \in Int
      BY <1>2 DEF Arm, Begin, TypeOK, Phases
    <2> QED
      BY <1>2, <2>1, <2>2, <2>3, <2>4 DEF Arm, Begin, TypeOK
  <1>3. ASSUME NEW k \in Keys, CancelWaiting(k)
        PROVE  TypeOK'
    <2>1. /\ waiter' \in [Keys -> Refs \cup {0}]
          /\ waiterCount' \in Int
          /\ progress' \subseteq Keys
      BY <1>3, TakeWaitersType DEF CancelWaiting
    <2> QED
      BY <1>3, <2>1 DEF CancelWaiting, Begin, TypeOK, Phases
  <1>4. CASE CancelOther
    BY <1>4 DEF CancelOther, Begin, TypeOK, Phases
  <1>5. ASSUME NEW i \in Ids, NEW ds \in {{Read}, {Write}, {Read, Write}},
               ShutdownDirections(i, ds)
        PROVE  TypeOK'
    <2> DEFINE ks == {k \in {Key(i, d) : d \in ds} : waiter[k] # 0}
    <2>1. ks \in SUBSET Keys
      BY SocketKeys
    <2>2. /\ waiter' \in [Keys -> Refs \cup {0}]
          /\ waiterCount' \in Int
          /\ progress' \subseteq Keys
          /\ Waiting(ks) \subseteq Refs
      BY <1>5, <2>1, TakeWaitersType DEF ShutdownDirections
    <2>3. /\ flag' = [k \in Keys |-> IF k \in ks THEN FALSE ELSE flag[k]]
          /\ pending' = pending \cup Waiting(ks)
      BY <1>5 DEF ShutdownDirections
    <2> HIDE DEF ks
    <2> QED
      BY <1>5, <2>2, <2>3 DEF ShutdownDirections, Begin, TypeOK, Phases
  <1>6. ASSUME NEW i \in Ids, NEW graceful \in BOOLEAN, Close(i, graceful)
        PROVE  TypeOK'
    <2> DEFINE ks == {Key(i, Read), Key(i, Write)}
    <2>1. ks \in SUBSET Keys
      BY SocketKeys
    <2>2. /\ waiter' \in [Keys -> Refs \cup {0}]
          /\ waiterCount' \in Int
          /\ progress' \subseteq Keys
          /\ Waiting(ks) \subseteq Refs
      BY <1>6, <2>1, TakeWaitersType DEF Close
    <2> QED
      BY <1>6, <2>2 DEF Close, Begin, TypeOK, Phases
  <1>7. CASE PollCall
    BY <1>7 DEF PollCall, Begin, TypeOK, Phases
  <1>8. ASSUME NEW n \in 0..MaxStructures, Shutdown(n)
        PROVE  TypeOK'
    <2>1. structures' \in Nat /\ phase' \in Phases
      BY <1>8 DEF Shutdown, Begin, TypeOK, Phases
    <2> QED
      BY <1>8, <2>1 DEF Shutdown, Begin, TypeOK
  <1>9. CASE ContinueShutdown
    BY <1>9 DEF ContinueShutdown, Begin, TypeOK, Phases
  <1>10. CASE DriveDone
    BY <1>10 DEF DriveDone, TypeOK, Phases
  <1>11. ASSUME NEW i \in Ids, ShutdownSocket(i)
         PROVE  TypeOK'
    <2> DEFINE ks == {Key(i, Read), Key(i, Write)}
    <2>1. ks \in SUBSET Keys
      BY SocketKeys
    <2>2. /\ waiter' \in [Keys -> Refs \cup {0}]
          /\ waiterCount' \in Int
          /\ progress' \subseteq Keys
          /\ Waiting(ks) \subseteq Refs
      BY <1>11, <2>1, TakeWaitersType DEF ShutdownSocket
    <2>3. pending' \subseteq Refs /\ live' \subseteq Ids /\ work' \in Nat
      BY <1>11, <2>2 DEF ShutdownSocket, TypeOK
    <2>4. UNCHANGED <<lifecycle, nextId, sent, flag, queueVars, sweepVars,
                      sweepPending, structures, registered, refVars, continuation,
                      phase, preserve, budget, batch, scanVars>>
      BY <1>11 DEF ShutdownSocket
    <2> HIDE DEF ks
    <2> QED
      BY <2>2, <2>3, <2>4 DEF TypeOK
  <1>12. CASE ShutdownStructure
    BY <1>12 DEF ShutdownStructure, TypeOK
  <1>13. CASE ShutdownWorkDone
    BY <1>13 DEF ShutdownWorkDone, TypeOK, Phases
  <1>14. ASSUME NEW rs \in SUBSET pending, SendAborts(rs)
         PROVE  TypeOK'
    <2>1. rs \subseteq Refs /\ Cardinality(rs) \in Nat
      BY RefSets DEF TypeOK
    <2> QED
      BY <1>14, <2>1, ZenonT(90) DEF SendAborts, Loop, TypeOK, Phases
  <1>15. ASSUME NEW ks \in SUBSET queue, DrainQueue(ks)
         PROVE  TypeOK'
    BY <1>15 DEF DrainQueue, Loop, TypeOK, Phases
  <1>16. CASE DrainContended
    BY <1>16 DEF DrainContended, TypeOK, Phases
  <1>17. ASSUME NEW ks \in SUBSET batch, Deliver(ks)
         PROVE  TypeOK'
    <2>1. ks \in SUBSET Keys /\ Cardinality(ks) \in Nat
      BY KeySets DEF TypeOK
    <2>2. /\ flag' \in [Keys -> BOOLEAN]
          /\ waiter' \in [Keys -> Refs \cup {0}]
          /\ sent' \in [Keys -> Refs \cup {0}]
          /\ waiterCount' \in Int
          /\ progress' \subseteq Keys
          /\ selected' \subseteq Refs
      BY <1>17, <2>1, DeliverType DEF Deliver
    <2>3. phase' \in Phases /\ work' \in Nat
      BY <1>17, <2>1 DEF Deliver, TypeOK, Phases
    <2>5. sweep' \in BOOLEAN /\ cursor' \in Keys \cup {0} /\ resweep' \in BOOLEAN
      <3>1. CASE phase = "deliver"
        BY <1>17, <3>1 DEF Deliver, TypeOK
      <3>2. CASE phase # "deliver"
        <4>1. SweepStep
          BY <1>17, <3>2 DEF Deliver
        <4>2. sweep' \in BOOLEAN
          BY <4>1, ZenonT(60) DEF SweepStep, TypeOK
        <4>3. resweep' \in BOOLEAN
          BY <4>1, ZenonT(60) DEF SweepStep, TypeOK
        <4>4. cursor' \in Keys \cup {0}
          BY <4>1 DEF SweepStep, TypeOK
        <4> QED
          BY <4>2, <4>3, <4>4
      <3> QED
        BY <3>1, <3>2
    <2>4. budget' \in BOOLEAN /\ batch' \subseteq Keys /\ sweepPending' \subseteq Keys
      BY <1>17 DEF Deliver, Loop, TypeOK
    <2> QED
      BY <1>17, <2>2, <2>3, <2>4, <2>5 DEF Deliver, TypeOK
  <1>18. ASSUME NEW ks \in SUBSET sweepPending, Resume(ks)
         PROVE  TypeOK'
    <2>1. ks \in SUBSET Keys /\ Cardinality(ks) \in Nat
      BY KeySets DEF TypeOK
    <2>2. /\ flag' \in [Keys -> BOOLEAN]
          /\ waiter' \in [Keys -> Refs \cup {0}]
          /\ sent' \in [Keys -> Refs \cup {0}]
          /\ waiterCount' \in Int
          /\ progress' \subseteq Keys
          /\ selected' \subseteq Refs
      BY <1>18, <2>1, DeliverType DEF Resume
    <2> QED
      BY <1>18, <2>1, <2>2 DEF Resume, Loop, TypeOK, Phases
  <1>19. ASSUME NEW i \in Ids, ScanEntry(i)
         PROVE  TypeOK'
    <2> DEFINE takeRead == cursor # Key(i, Read) /\ flag[Key(i, Read)]
               keys1 == IF takeRead THEN batch \cup {Key(i, Read)} ELSE batch
               keys2 == IF flag[Key(i, Write)] THEN keys1 \cup {Key(i, Write)} ELSE keys1
               last == \A j \in live : j <= i
    <2>1. keys1 \in SUBSET Keys /\ keys2 \in SUBSET Keys
      BY SocketKeys DEF TypeOK
    <2>2. scanned + 1 \in Nat
      BY DEF TypeOK
    <2>3. last \in BOOLEAN
      OBVIOUS
    <2>4. /\ budget' \in BOOLEAN
          /\ cursor' \in Keys
          /\ \/ batch' = keys1 /\ EndScan(scanned + 1, keys1, FALSE)
             \/ batch' = keys2 /\ EndScan(scanned + 1, keys2, last)
             \/ batch' = keys2 /\ UNCHANGED <<phase, complete, work>>
      BY <1>19, SocketKeys, ZenonT(90) DEF ScanEntry, TypeOK
    <2> HIDE DEF takeRead, keys1, keys2, last
    <2>5. phase' \in Phases /\ complete' \in BOOLEAN /\ work' \in Nat /\ batch' \subseteq Keys
      <3>1. CASE batch' = keys1 /\ EndScan(scanned + 1, keys1, FALSE)
        BY <2>1, <2>2, <3>1, EndScanType
      <3>2. CASE batch' = keys2 /\ EndScan(scanned + 1, keys2, last)
        BY <2>1, <2>2, <2>3, <3>2, EndScanType
      <3>3. CASE batch' = keys2 /\ UNCHANGED <<phase, complete, work>>
        BY <2>1, <3>3 DEF TypeOK
      <3> QED
        BY <2>4, <3>1, <3>2, <3>3
    <2> QED
      BY <1>19, <2>2, <2>4, <2>5 DEF ScanEntry, TypeOK
  <1>20. CASE ScanStops
    <2>1. phase' \in Phases /\ complete' \in BOOLEAN /\ work' \in Nat
      BY <1>20, EndScanType DEF ScanStops, TypeOK
    <2> QED
      BY <1>20, <2>1 DEF ScanStops, TypeOK
  <1>21. CASE FinishCall
    BY <1>21 DEF FinishCall, Return, Retained, TypeOK, Phases
  <1>22. CASE FinishShutdown
    BY <1>22 DEF FinishShutdown, Return, ShutdownPending, Retained, TypeOK, Phases
  <1>23. ASSUME NEW k \in Keys, SocketReady(k)
         PROVE  TypeOK'
    <2>1. flag' \in [Keys -> BOOLEAN] /\ queue' \subseteq Keys /\ overflow' \in BOOLEAN
      BY <1>23, MarkReadyType DEF SocketReady
    <2> QED
      BY <1>23, <2>1, ZenonT(90) DEF SocketReady, TypeOK
  <1>24. CASE UNCHANGED vars
    BY <1>24 DEF vars, TypeOK
  <1> QED
    BY <1>1, <1>2, <1>3, <1>4, <1>5, <1>6, <1>7, <1>8, <1>9, <1>10, <1>11, <1>12,
       <1>13, <1>14, <1>15, <1>16, <1>17, <1>18, <1>19, <1>20, <1>21, <1>22, <1>23,
       <1>24 DEF Next, Call, Step

\* The initial state has its types.
LEMMA TypeInit ==
    Init => TypeOK
  <1> SUFFICES ASSUME Init PROVE TypeOK
    OBVIOUS
  <1>1. nextId \in 1..(MaxId + 1) /\ nextRef \in 1..(MaxRef + 1)
    BY LimitsAssumption DEF Init
  <1>2. flag \in [Keys -> BOOLEAN] /\ registered \in [Keys -> BOOLEAN]
    BY DEF Init
  <1>3. waiter \in [Keys -> Refs \cup {0}] /\ sent \in [Keys -> Refs \cup {0}]
    BY DEF Init
  <1>4. /\ overflow \in BOOLEAN /\ sweep \in BOOLEAN /\ resweep \in BOOLEAN
        /\ continuation \in BOOLEAN /\ preserve \in BOOLEAN /\ budget \in BOOLEAN
        /\ complete \in BOOLEAN
    BY ZenonT(60) DEF Init
  <1>5. /\ lifecycle \in {"running", "shuttingDown", "shutdown"} /\ phase \in Phases
        /\ live = {} /\ progress = {} /\ queue = {} /\ sweepPending = {} /\ pending = {}
        /\ selected = {} /\ aborted = {} /\ cancelled = {} /\ batch = {}
    BY ZenonT(60) DEF Init, Phases
  <1>6. /\ cursor \in Keys \cup {0} /\ waiterCount \in Int /\ structures \in Nat
        /\ work \in Nat /\ scanned \in Nat
    BY DEF Init
  <1> QED
    BY <1>1, <1>2, <1>3, <1>4, <1>5, <1>6 DEF TypeOK

\* The type invariant holds for every value of the limits.
THEOREM TypeCorrect == Spec => []TypeOK
  BY TypeInit, TypeStep, PTL DEF Spec

-----------------------------------------------------------------------------
(* No lost wake-up *)

USE DEF Slots

\* A wake-up raises the flag of its key only, and leaves it queued or announced.
LEMMA MarkReadyFacts ==
    ASSUME TypeOK, NEW k \in Keys, MarkReady(k)
    PROVE  /\ flag'[k]
           /\ \A j \in Keys : j # k => flag'[j] = flag[j]
           /\ queue \subseteq queue'
           /\ overflow => overflow'
           /\ ~flag[k] => k \in queue' \/ overflow'
  BY DEF MarkReady, TypeOK

\* Delivering empties the slots of ready keys and clears their flags, and touches
\* no other key; in a running stack no delivered key of an open socket stays up.
LEMMA DeliverFacts ==
    ASSUME TypeOK, NEW ks \in SUBSET Keys, DeliverOrDiscard(ks)
    PROVE  /\ \A k \in Keys : waiter'[k] = waiter[k] \/ waiter'[k] = 0
           /\ \A k \in Keys : flag'[k] => flag[k]
           /\ \A k \in Keys : waiter'[k] # 0 => flag'[k] = flag[k] /\ (k \in progress' <=> k \in progress)
           /\ \A k \in progress' : k \in progress /\ waiter'[k] = waiter[k]
           /\ lifecycle = "running" => \A k \in ks : Id(k) \in live => ~flag'[k]
  <1> DEFINE ready == {k \in ks : lifecycle = "running" /\ Id(k) \in live /\ flag[k]}
  <1>1. /\ waiter' = [k \in Keys |-> IF k \in ready THEN 0 ELSE waiter[k]]
        /\ progress' = progress \ ready
        /\ flag' = [k \in Keys |-> k \notin ready /\ flag[k]]
    BY DEF DeliverOrDiscard, TakeWaiters
  <1>2. \A k \in ks : lifecycle = "running" /\ Id(k) \in live /\ flag[k] => k \in ready
    OBVIOUS
  <1> HIDE DEF ready
  <1>3. \A k \in Keys : /\ waiter'[k] = (IF k \in ready THEN 0 ELSE waiter[k])
                        /\ flag'[k] <=> (k \notin ready /\ flag[k])
    BY <1>1
  <1> QED
    BY <1>1, <1>2, <1>3 DEF TypeOK

\* Taking waiters empties the slots given and no other.
LEMMA TakeWaitersFacts ==
    ASSUME TypeOK, NEW ks \in SUBSET Keys, TakeWaiters(ks)
    PROVE  /\ \A k \in ks : waiter'[k] = 0
           /\ \A k \in Keys \ ks : waiter'[k] = waiter[k] /\ (k \in progress' <=> k \in progress)
  BY DEF TakeWaiters, TypeOK

\* The steps that touch neither the table, the flags nor the wakers.
Bookkeeping ==
    \/ CancelOther \/ PollCall \/ (\E n \in 0..MaxStructures : Shutdown(n))
    \/ ContinueShutdown \/ DriveDone \/ ShutdownStructure \/ ShutdownWorkDone
    \/ (\E rs \in SUBSET pending : SendAborts(rs))
    \/ (\E ks \in SUBSET queue : DrainQueue(ks)) \/ DrainContended
    \/ (\E i \in Ids : ScanEntry(i)) \/ ScanStops \/ FinishCall \/ FinishShutdown
    \/ UNCHANGED vars

\* Bookkeeping changes no entry, slot, flag or waker.
LEMMA BookkeepingFacts ==
    ASSUME Bookkeeping
    PROVE  UNCHANGED <<live, nextId, waiter, progress, flag, registered>>
  BY ZenonT(90) DEF Bookkeeping, CancelOther, PollCall, Shutdown, ContinueShutdown, DriveDone,
         ShutdownStructure, ShutdownWorkDone, SendAborts, DrainQueue, DrainContended,
         ScanEntry, ScanStops, FinishCall, FinishShutdown, vars

\* The steps of the specification, those that are bookkeeping in one.
LEMMA Steps ==
    ASSUME [Next]_vars
    PROVE  \/ Open
           \/ \E k \in Keys, ready, drive \in BOOLEAN : Arm(k, ready, drive)
           \/ \E k \in Keys : CancelWaiting(k) \/ SocketReady(k)
           \/ \E i \in Ids, ds \in {{Read}, {Write}, {Read, Write}} : ShutdownDirections(i, ds)
           \/ \E i \in Ids, graceful \in BOOLEAN : Close(i, graceful)
           \/ \E i \in Ids : ShutdownSocket(i)
           \/ \E ks \in SUBSET batch : Deliver(ks)
           \/ \E ks \in SUBSET sweepPending : Resume(ks)
           \/ Bookkeeping
  BY DEF Next, Call, Step, Bookkeeping

\* A running stack was running.
LEMMA RunningBefore ==
    ASSUME [Next]_vars, lifecycle' = "running"
    PROVE  lifecycle = "running"
  BY ZenonT(90) DEF Next, Call, Step, Open, Arm, CancelWaiting, CancelOther, ShutdownDirections,
         Close, PollCall, Shutdown, ContinueShutdown, DriveDone, ShutdownSocket,
         ShutdownStructure, ShutdownWorkDone, SendAborts, DrainQueue, DrainContended,
         Deliver, Resume, ScanEntry, ScanStops, FinishCall, FinishShutdown,
         SocketReady, vars

\* Identities stay fresh, and only open sockets have waiters.
LEMMA FreshStep ==
    TypeOK /\ FreshInv /\ SlotsLive /\ [Next]_vars => FreshInv' /\ SlotsLive'
  <1> SUFFICES ASSUME TypeOK, FreshInv, SlotsLive, [Next]_vars
               PROVE  FreshInv' /\ SlotsLive'
    OBVIOUS
  <1>k. \A k \in Keys : Id(k) \in Ids
    BY KeyFacts
  <1>n. nextId \in Nat /\ \A i \in Ids : i \in Nat
    BY DEF TypeOK, Ids
  <1>1. CASE Open
    BY <1>1, <1>k, <1>n DEF Open, FreshInv, SlotsLive, TypeOK, Ids
  <1>2. ASSUME NEW k \in Keys, NEW ready \in BOOLEAN, NEW drive \in BOOLEAN,
               Arm(k, ready, drive)
        PROVE  FreshInv' /\ SlotsLive'
    <2>1. \A j \in Keys : j # k => flag'[j] = flag[j] /\ registered'[j] = registered[j]
                                   /\ waiter'[j] = waiter[j]
      BY <1>2, MarkReadyFacts DEF Arm, TypeOK
    <2>2. Id(k) < nextId /\ Id(k) \in live /\ live' = live /\ nextId' = nextId
      BY <1>2 DEF Arm, FreshInv
    <2>3. \A i \in live' : i < nextId'
      BY <2>2 DEF FreshInv
    <2>4. ASSUME NEW j \in Keys, Id(j) >= nextId'
          PROVE  ~flag'[j] /\ ~registered'[j]
      <3>1. Id(j) \in Nat /\ Id(k) \in Nat /\ nextId \in Nat
        BY <1>k, <1>n
      <3>2. Id(j) >= nextId /\ j # k
        BY <2>2, <2>4, <3>1
      <3> QED
        BY <2>1, <3>2, ZenonT(60) DEF FreshInv
    <2>5. SlotsLive'
      BY <2>1, <2>2 DEF SlotsLive
    <2> QED
      BY <2>3, <2>4, <2>5 DEF FreshInv
  <1>3. ASSUME NEW k \in Keys, CancelWaiting(k)
        PROVE  FreshInv' /\ SlotsLive'
    <2>1. \A j \in Keys : (flag'[j] => flag[j]) /\ (waiter'[j] # 0 => waiter[j] # 0)
      BY <1>3 DEF CancelWaiting, TakeWaiters, TypeOK
    <2>2. live' = live /\ nextId' = nextId /\ registered' = registered
      BY <1>3 DEF CancelWaiting
    <2> QED
      BY <2>1, <2>2, <1>k, <1>n DEF FreshInv, SlotsLive
  <1>4. ASSUME NEW k \in Keys, SocketReady(k)
        PROVE  FreshInv' /\ SlotsLive'
    <2>1. \A j \in Keys : j # k => flag'[j] = flag[j]
      BY <1>4, MarkReadyFacts DEF SocketReady
    <2>2. \A j \in Keys : registered'[j] => registered[j]
      BY <1>4 DEF SocketReady, TypeOK
    <2>3. Id(k) < nextId
      <3>1. registered[k]
        BY <1>4 DEF SocketReady
      <3>2. ~(Id(k) >= nextId)
        BY <3>1 DEF FreshInv
      <3>3. Id(k) \in Nat /\ nextId \in Nat
        BY <1>k, <1>n
      <3> QED
        BY <3>2, <3>3
    <2>4. live' = live /\ nextId' = nextId /\ waiter' = waiter
      BY <1>4 DEF SocketReady
    <2>5. ASSUME NEW j \in Keys, Id(j) >= nextId'
          PROVE  ~flag'[j] /\ ~registered'[j]
      <3>1. Id(j) \in Nat /\ Id(k) \in Nat /\ nextId \in Nat
        BY <1>k, <1>n
      <3>2. Id(j) >= nextId /\ j # k
        BY <2>3, <2>4, <2>5, <3>1
      <3> QED
        BY <2>1, <2>2, <3>2, ZenonT(60) DEF FreshInv
    <2>6. \A i \in live' : i < nextId'
      BY <2>4 DEF FreshInv
    <2>7. SlotsLive'
      BY <2>4 DEF SlotsLive
    <2> QED
      BY <2>5, <2>6, <2>7 DEF FreshInv
  <1>5. ASSUME NEW i \in Ids, NEW ds \in {{Read}, {Write}, {Read, Write}},
               ShutdownDirections(i, ds)
        PROVE  FreshInv' /\ SlotsLive'
    <2>1. \A j \in Keys : (flag'[j] => flag[j]) /\ (waiter'[j] # 0 => waiter[j] # 0)
      BY <1>5 DEF ShutdownDirections, TakeWaiters, TypeOK
    <2>2. live' = live /\ nextId' = nextId /\ registered' = registered
      BY <1>5 DEF ShutdownDirections
    <2> QED
      BY <2>1, <2>2, <1>k, <1>n DEF FreshInv, SlotsLive
  <1>6. ASSUME NEW i \in Ids,
               \/ \E graceful \in BOOLEAN : Close(i, graceful)
               \/ ShutdownSocket(i)
        PROVE  FreshInv' /\ SlotsLive'
    <2>1. /\ \A j \in Keys : waiter'[j] # 0 =>
                 waiter[j] # 0 /\ j # Key(i, Read) /\ j # Key(i, Write)
          /\ \A j \in Keys : registered'[j] => registered[j]
          /\ live' = live \ {i} /\ nextId' = nextId /\ flag' = flag
      BY <1>6 DEF Close, ShutdownSocket, TakeWaiters, TypeOK
    <2>2. \A j \in Keys : waiter'[j] # 0 => Id(j) # i
      BY <2>1, KeyFacts
    <2> QED
      BY <2>1, <2>2, <1>k, <1>n DEF FreshInv, SlotsLive
  <1>7. ASSUME \/ \E ks \in SUBSET batch : Deliver(ks)
               \/ \E ks \in SUBSET sweepPending : Resume(ks)
        PROVE  FreshInv' /\ SlotsLive'
    <2>1. \A j \in Keys : (flag'[j] => flag[j]) /\ (waiter'[j] # 0 => waiter[j] # 0)
      BY <1>7, DeliverFacts DEF Deliver, Resume, TypeOK
    <2>2. live' = live /\ nextId' = nextId /\ registered' = registered
      BY <1>7 DEF Deliver, Resume
    <2> QED
      BY <2>1, <2>2, <1>k, <1>n DEF FreshInv, SlotsLive
  <1>8. CASE Bookkeeping
    BY <1>8, BookkeepingFacts DEF FreshInv, SlotsLive
  <1> QED
    BY Steps, <1>1, <1>2, <1>3, <1>4, <1>5, <1>6, <1>7, <1>8

\* Only waiters make progress.
LEMMA ProgressStep ==
    TypeOK /\ progress \subseteq Slots /\ [Next]_vars => (progress \subseteq Slots)'
  <1> SUFFICES ASSUME TypeOK, progress \subseteq Slots, [Next]_vars
               PROVE  \A j \in progress' : j \in Keys /\ waiter'[j] # 0
    OBVIOUS
  <1>1. CASE Open
    BY <1>1 DEF Open
  <1>2. ASSUME NEW k \in Keys, NEW ready \in BOOLEAN, NEW drive \in BOOLEAN,
               Arm(k, ready, drive)
        PROVE  \A j \in progress' : j \in Keys /\ waiter'[j] # 0
    <2>1. waiter' = [waiter EXCEPT ![k] = nextRef] /\ progress' \subseteq progress \cup {k}
      BY <1>2 DEF Arm
    <2>2. waiter \in [Keys -> Refs \cup {0}] /\ nextRef # 0
      BY DEF TypeOK
    <2> QED
      BY <2>1, <2>2
  <1>3. ASSUME NEW k \in Keys, CancelWaiting(k)
        PROVE  \A j \in progress' : j \in Keys /\ waiter'[j] # 0
    BY <1>3 DEF CancelWaiting, TakeWaiters
  <1>4. ASSUME NEW k \in Keys, SocketReady(k)
        PROVE  \A j \in progress' : j \in Keys /\ waiter'[j] # 0
    BY <1>4 DEF SocketReady
  <1>5. ASSUME NEW i \in Ids, NEW ds \in {{Read}, {Write}, {Read, Write}},
               ShutdownDirections(i, ds)
        PROVE  \A j \in progress' : j \in Keys /\ waiter'[j] # 0
    BY <1>5 DEF ShutdownDirections, TakeWaiters
  <1>6. ASSUME NEW i \in Ids,
               \/ \E graceful \in BOOLEAN : Close(i, graceful)
               \/ ShutdownSocket(i)
        PROVE  \A j \in progress' : j \in Keys /\ waiter'[j] # 0
    BY <1>6 DEF Close, ShutdownSocket, TakeWaiters
  <1>7. ASSUME \/ \E ks \in SUBSET batch : Deliver(ks)
               \/ \E ks \in SUBSET sweepPending : Resume(ks)
        PROVE  \A j \in progress' : j \in Keys /\ waiter'[j] # 0
    BY <1>7, DeliverFacts DEF Deliver, Resume, TypeOK
  <1>8. CASE Bookkeeping
    BY <1>8, BookkeepingFacts
  <1> QED
    BY Steps, <1>1, <1>2, <1>3, <1>4, <1>5, <1>6, <1>7, <1>8

\* A waiter keeps its flag or its waker.
LEMMA ArmedStep ==
    TypeOK /\ ArmedInv /\ [Next]_vars => ArmedInv'
  <1> SUFFICES ASSUME TypeOK, ArmedInv, [Next]_vars, lifecycle' = "running",
                      NEW j \in Keys, waiter'[j] # 0
               PROVE  IF j \in progress' THEN flag'[j] ELSE registered'[j]
    BY ProgressStep DEF ArmedInv
  <1>l. lifecycle = "running"
    BY RunningBefore
  <1>a. waiter[j] # 0 => IF j \in progress THEN flag[j] ELSE registered[j]
    BY <1>l DEF ArmedInv
  <1>1. CASE Open
    BY <1>1, <1>a DEF Open
  <1>2. ASSUME NEW k \in Keys, NEW ready \in BOOLEAN, NEW drive \in BOOLEAN,
               Arm(k, ready, drive)
        PROVE  IF j \in progress' THEN flag'[j] ELSE registered'[j]
    <2>1. CASE j = k
      BY <1>2, <2>1, MarkReadyFacts DEF Arm, ArmedInv, TypeOK
    <2>2. CASE j # k
      <3>1. flag'[j] = flag[j]
        BY <1>2, <2>2, MarkReadyFacts DEF Arm
      <3> QED
        BY <1>2, <1>a, <2>2, <3>1 DEF Arm, TypeOK
    <2> QED
      BY <2>1, <2>2
  <1>3. ASSUME NEW k \in Keys, CancelWaiting(k)
        PROVE  IF j \in progress' THEN flag'[j] ELSE registered'[j]
    <2>1. j # k /\ waiter[j] # 0 /\ (j \in progress' <=> j \in progress)
      BY <1>3, TakeWaitersFacts DEF CancelWaiting
    <2> QED
      BY <1>3, <1>a, <2>1 DEF CancelWaiting, TypeOK
  <1>4. ASSUME NEW k \in Keys, SocketReady(k)
        PROVE  IF j \in progress' THEN flag'[j] ELSE registered'[j]
    <2>1. flag'[k] /\ (j # k => flag'[j] = flag[j])
      BY <1>4, MarkReadyFacts DEF SocketReady
    <2> QED
      BY <1>4, <1>a, <2>1 DEF SocketReady, TypeOK
  <1>5. ASSUME NEW i \in Ids, NEW ds \in {{Read}, {Write}, {Read, Write}},
               ShutdownDirections(i, ds)
        PROVE  IF j \in progress' THEN flag'[j] ELSE registered'[j]
    <2> DEFINE ks == {k \in {Key(i, d) : d \in ds} : waiter[k] # 0}
    <2>1. ks \in SUBSET Keys
      BY SocketKeys
    <2>2. TakeWaiters(ks) /\ flag' = [k \in Keys |-> IF k \in ks THEN FALSE ELSE flag[k]]
      BY <1>5 DEF ShutdownDirections
    <2> HIDE DEF ks
    <2>3. j \notin ks /\ waiter[j] # 0 /\ (j \in progress' <=> j \in progress)
      BY <2>1, <2>2, TakeWaitersFacts
    <2>4. flag'[j] = flag[j]
      BY <2>2, <2>3
    <2> QED
      BY <1>5, <1>a, <2>3, <2>4 DEF ShutdownDirections
  <1>6. ASSUME NEW i \in Ids,
               \/ \E graceful \in BOOLEAN : Close(i, graceful)
               \/ ShutdownSocket(i)
        PROVE  IF j \in progress' THEN flag'[j] ELSE registered'[j]
    <2> DEFINE ks == {Key(i, Read), Key(i, Write)}
    <2>1. ks \in SUBSET Keys
      BY SocketKeys
    <2>2. /\ TakeWaiters(ks)
          /\ flag' = flag
          /\ \A k \in Keys \ ks : registered'[k] = registered[k]
      BY <1>6 DEF Close, ShutdownSocket, TypeOK
    <2> HIDE DEF ks
    <2>3. j \notin ks /\ waiter[j] # 0 /\ (j \in progress' <=> j \in progress)
      BY <2>1, <2>2, TakeWaitersFacts
    <2> QED
      BY <1>a, <2>2, <2>3
  <1>7. ASSUME \/ \E ks \in SUBSET batch : Deliver(ks)
               \/ \E ks \in SUBSET sweepPending : Resume(ks)
        PROVE  IF j \in progress' THEN flag'[j] ELSE registered'[j]
    <2>1. /\ waiter'[j] = waiter[j] \/ waiter'[j] = 0
          /\ waiter'[j] # 0 => flag'[j] = flag[j] /\ (j \in progress' <=> j \in progress)
      BY <1>7, DeliverFacts DEF Deliver, Resume, TypeOK
    <2> QED
      BY <1>7, <1>a, <2>1 DEF Deliver, Resume
  <1>8. CASE Bookkeeping
    BY <1>8, <1>a, BookkeepingFacts
  <1> QED
    BY Steps, <1>1, <1>2, <1>3, <1>4, <1>5, <1>6, <1>7, <1>8

\* Where a call is: what the phases say of the batch and the scan is kept.
LEMMA PhaseStep ==
    TypeOK /\ PhaseInv /\ [Next]_vars => PhaseInv'
  <1> SUFFICES ASSUME TypeOK, PhaseInv, [Next]_vars
               PROVE  PhaseInv'
    OBVIOUS
  <1>1. ASSUME \/ Call
               \/ DriveDone \/ (\E i \in Ids : ShutdownSocket(i)) \/ ShutdownStructure
               \/ ShutdownWorkDone \/ (\E rs \in SUBSET pending : SendAborts(rs))
               \/ (\E ks \in SUBSET queue : DrainQueue(ks)) \/ DrainContended
               \/ (\E k \in Keys : SocketReady(k))
        PROVE  PhaseInv'
    <2>1. /\ phase \notin {"scan", "scanDeliver", "deliver", "finish"}
          /\ phase' \notin {"scan", "scanDeliver"}
          /\ phase' # "deliver" => UNCHANGED batch
          /\ lifecycle' # "shutdown" \/ UNCHANGED <<lifecycle, phase>>
      BY <1>1, ZenonT(90) DEF PhaseInv, Call, Begin, Open, Arm, CancelWaiting, CancelOther,
                  ShutdownDirections, Close, PollCall, Shutdown, ContinueShutdown,
                  DriveDone, ShutdownSocket, ShutdownStructure, ShutdownWorkDone,
                  SendAborts, DrainQueue, DrainContended, SocketReady, callVars
    <2> QED
      BY <2>1 DEF PhaseInv
  <1>2. ASSUME NEW ks \in SUBSET batch, Deliver(ks)
        PROVE  PhaseInv'
    BY <1>2 DEF PhaseInv, Deliver
  <1>3. ASSUME NEW ks \in SUBSET sweepPending, Resume(ks)
        PROVE  PhaseInv'
    BY <1>3, ZenonT(90) DEF PhaseInv, Resume, sweepVars
  <1>4. ASSUME NEW i \in Ids, ScanEntry(i)
        PROVE  PhaseInv'
    <2>1. phase = "scan" /\ sweep' = sweep /\ live' = live /\ lifecycle' = lifecycle
      BY <1>4 DEF ScanEntry, tableVars
    <2>2. phase' \in {"scan", "scanDeliver"}
      BY <1>4, <2>1 DEF ScanEntry, EndScan
    <2>3. ASSUME phase' = "scanDeliver", complete'
          PROVE  cursor' = Key(i, Write) /\ \A j \in live : j <= i
      BY <1>4, <2>1, <2>3 DEF ScanEntry, EndScan
    <2>4. ASSUME phase' = "scanDeliver", complete'
          PROVE  Ahead' = {}
      <3>1. \A j \in live : Key(j, Write) <= Key(i, Write)
        BY <2>3, <2>4 DEF Key, Write, TypeOK, Ids
      <3>2. \A j \in live : Key(j, Write) \in Int /\ Key(i, Write) \in Int
        BY DEF Key, Write, TypeOK, Ids
      <3>3. Ahead' = {j \in live : Key(j, Write) > Key(i, Write)}
        BY <2>1, <2>3, <2>4 DEF Ahead
      <3> QED
        BY <3>1, <3>2, <3>3
    <2> QED
      BY <2>1, <2>2, <2>4 DEF PhaseInv
  <1>5. CASE ScanStops
    <2>1. phase = "scan" /\ phase' = "scanDeliver" /\ sweep' = sweep /\ live' = live
          /\ cursor' = cursor /\ lifecycle' = lifecycle
      BY <1>5 DEF ScanStops, EndScan, tableVars, sweepVars
    <2>2. complete' => Ahead = {}
      BY <1>5, ZenonT(60) DEF ScanStops, EndScan
    <2> QED
      BY <2>1, <2>2 DEF PhaseInv, Ahead
  <1>6. CASE FinishCall \/ FinishShutdown
    BY <1>6 DEF PhaseInv, FinishCall, FinishShutdown, Return
  <1>7. CASE UNCHANGED vars
    BY <1>7 DEF PhaseInv, Ahead, vars, callVars, scanVars, sweepVars, tableVars
  <1> QED
    BY <1>1, <1>2, <1>3, <1>4, <1>5, <1>6, <1>7 DEF Next, Step

\* Retained work keeps a poll outstanding: only the end of a call makes the stack
\* idle, and it asks for a poll whenever something is left.
LEMMA ContinuedStep ==
    TypeOK /\ PhaseInv /\ RetainedIsContinued /\ [Next]_vars => RetainedIsContinued'
  <1> SUFFICES ASSUME TypeOK, PhaseInv, RetainedIsContinued, [Next]_vars,
                      phase' = "idle"
               PROVE  (Retained' \/ lifecycle' = "shuttingDown") => continuation'
    BY ZenonT(90) DEF RetainedIsContinued
  <1>1. FinishCall \/ FinishShutdown \/ UNCHANGED vars
    BY ZenonT(90) DEF Next, Call, Step, Begin, Open, Arm, CancelWaiting, CancelOther,
           ShutdownDirections, Close, PollCall, Shutdown, ContinueShutdown,
           DriveDone, ShutdownSocket, ShutdownStructure, ShutdownWorkDone,
           SendAborts, DrainQueue, DrainContended, SocketReady, Deliver, Resume,
           ScanEntry, ScanStops, EndScan, callVars
  <1>2. CASE FinishCall
    <2>1. UNCHANGED <<pending, overflow, queue, sweepPending, sweep, lifecycle>>
          /\ lifecycle = "running"
      BY <1>2, ZenonT(90) DEF FinishCall, queueVars, sweepVars
    <2>2. Retained => continuation'
      BY <1>2, ZenonT(60) DEF FinishCall
    <2> QED
      BY <2>1, <2>2 DEF Retained
  <1>3. CASE FinishShutdown
    <2>1. ShutdownPending => continuation'
      BY <1>3, ZenonT(60) DEF FinishShutdown
    <2>2. UNCHANGED <<pending, overflow, queue>>
      BY <1>3 DEF FinishShutdown, queueVars
    <2>3. ~ShutdownPending => lifecycle' = "shutdown" /\ sweepPending' = {} /\ ~sweep'
      BY <1>3 DEF FinishShutdown
    <2> QED
      BY <2>1, <2>2, <2>3 DEF ShutdownPending, Retained
  <1>4. CASE UNCHANGED vars
    BY <1>4 DEF RetainedIsContinued, Retained, vars, callVars, queueVars, sweepVars
  <1> QED
    BY <1>1, <1>2, <1>3, <1>4

\* A scan step takes every flagged key its cursor passes.
LEMMA ScanPasses ==
    ASSUME TypeOK, NEW i \in Ids, ScanEntry(i),
           NEW k \in Keys, flag[k], Id(k) \in live, k > cursor
    PROVE  k \in batch' \/ k > cursor'
  <1>1. i \in Int /\ cursor \in Int /\ k \in Int /\ Id(k) \in Int
    <2>1. cursor \in Keys \cup {0}
      BY DEF TypeOK
    <2>2. \A j \in Keys : j \in Int
      BY LimitsAssumption DEF Keys
    <2>3. \A j \in Ids : j \in Int
      BY LimitsAssumption DEF Ids
    <2> QED
      BY <2>1, <2>2, <2>3, KeyFacts
  <1>2. CASE k = Key(Id(k), Read)
    <2>1. Id(k) \in Ahead
      BY <1>1, <1>2 DEF Ahead, Key, Read, Write
    <2>2. i <= Id(k)
      BY <2>1 DEF ScanEntry
    <2>3. CASE i = Id(k)
      <3>1. k = Key(i, Read) /\ cursor # Key(i, Read) /\ flag[Key(i, Read)]
        BY <1>1, <1>2, <2>3
      <3>2. Key(i, Read) \in batch'
        BY <3>1 DEF ScanEntry
      <3> QED
        BY <3>1, <3>2
    <2>4. CASE i < Id(k)
      <3>1. cursor' = Key(i, Read) \/ cursor' = Key(i, Write)
        BY DEF ScanEntry
      <3> QED
        BY <1>1, <1>2, <2>4, <3>1 DEF Key, Read, Write
    <2> QED
      BY <1>1, <2>2, <2>3, <2>4
  <1>3. CASE k = Key(Id(k), Write)
    <2>1. Id(k) \in Ahead
      BY <1>1, <1>3 DEF Ahead
    <2>2. i <= Id(k)
      BY <2>1 DEF ScanEntry
    <2>3. CASE i = Id(k)
      <3>1. CASE cursor' = Key(i, Read)
        BY <1>1, <1>3, <2>3, <3>1 DEF Key, Read, Write
      <3>2. CASE cursor' # Key(i, Read)
        BY <1>1, <1>3, <2>3, <3>2 DEF ScanEntry
      <3> QED
        BY <3>1, <3>2
    <2>4. CASE i < Id(k)
      <3>1. cursor' = Key(i, Read) \/ cursor' = Key(i, Write)
        BY DEF ScanEntry
      <3> QED
        BY <1>1, <1>3, <2>4, <3>1 DEF Key, Read, Write
    <2> QED
      BY <1>1, <2>2, <2>3, <2>4
  <1> QED
    BY <1>2, <1>3, KeyFacts

\* No step loses a wake-up.
LEMMA CoveredStep ==
    TypeOK /\ PhaseInv /\ FreshInv /\ FlagsCovered /\ [Next]_vars => FlagsCovered'
  <1> SUFFICES ASSUME TypeOK, PhaseInv, FreshInv, FlagsCovered, [Next]_vars,
                      lifecycle' = "running",
                      NEW k \in Keys, flag'[k], Id(k) \in live'
               PROVE  \/ k \in queue' \cup batch' \cup sweepPending'
                      \/ overflow'
                      \/ sweep' /\ (resweep' \/ k > cursor')
    BY DEF FlagsCovered
  <1> DEFINE Goal == \/ k \in queue' \cup batch' \cup sweepPending'
                     \/ overflow'
                     \/ sweep' /\ (resweep' \/ k > cursor')
  <1>l. lifecycle = "running"
    BY RunningBefore
  <1>a. flag[k] /\ Id(k) \in live =>
            \/ k \in queue \cup batch \cup sweepPending
            \/ overflow
            \/ sweep /\ (resweep \/ k > cursor)
    BY <1>l DEF FlagsCovered
  <1>i. \A j \in Keys : j \in Int /\ j > 0
    BY LimitsAssumption DEF Keys
  <1>c. cursor \in Keys \cup {0}
    BY DEF TypeOK
  <1>k. Id(k) \in Ids /\ k \in Int /\ k > 0 /\ cursor \in Int
    BY <1>i, <1>c, KeyFacts
  <1>1. CASE Open
    <2>1. Id(k) # nextId
      <3>1. nextId >= nextId
        BY DEF TypeOK
      <3>2. flag' = flag
        BY <1>1 DEF Open, queueVars
      <3> QED
        BY <3>1, <3>2 DEF FreshInv
    <2> QED
      BY <1>1, <1>a, <2>1 DEF Open
  <1>2. ASSUME NEW j \in Keys,
               \/ \E ready, drive \in BOOLEAN : Arm(j, ready, drive)
               \/ SocketReady(j)
        PROVE  Goal
    <2>1. /\ UNCHANGED <<live, batch, sweepPending, sweep, resweep, cursor>>
          /\ MarkReady(j) \/ UNCHANGED <<flag, queue, overflow>>
      BY <1>2 DEF Arm, SocketReady
    <2>2. CASE MarkReady(j)
      BY <1>a, <2>1, <2>2, MarkReadyFacts
    <2>3. CASE UNCHANGED <<flag, queue, overflow>>
      BY <1>a, <2>1, <2>3
    <2> QED
      BY <2>1, <2>2, <2>3
  <1>3. ASSUME \/ \E j \in Keys : CancelWaiting(j)
               \/ \E i \in Ids, ds \in {{Read}, {Write}, {Read, Write}} : ShutdownDirections(i, ds)
               \/ \E i \in Ids, graceful \in BOOLEAN : Close(i, graceful)
               \/ \E i \in Ids : ShutdownSocket(i)
        PROVE  Goal
    <2>1. /\ flag[k]
          /\ live' \subseteq live
          /\ UNCHANGED <<queue, overflow, batch, sweepPending, sweep, resweep, cursor>>
      BY <1>3 DEF CancelWaiting, ShutdownDirections, Close, ShutdownSocket, TypeOK
    <2> QED
      BY <1>a, <2>1
  <1>4. ASSUME NEW ks \in SUBSET batch, Deliver(ks)
        PROVE  Goal
    <2>1. ks \in SUBSET Keys
      BY DEF TypeOK
    <2>2. /\ flag[k] /\ Id(k) \in live /\ k \notin ks
          /\ UNCHANGED <<live, queue, overflow>>
          /\ sweepPending' = sweepPending \cup (batch \ ks)
      BY <1>4, <1>l, <2>1, DeliverFacts DEF Deliver
    <2>3. CASE UNCHANGED sweepVars
      BY <1>a, <2>2, <2>3
    <2>4. CASE phase = "scanDeliver" /\ SweepStep
      <3>1. CASE complete /\ resweep
        BY <1>a, <1>k, <2>2, <2>4, <3>1 DEF SweepStep
      <3>2. CASE complete /\ ~resweep
        <4>1. Ahead = {}
          BY <2>4, <3>2 DEF PhaseInv
        <4>2. ~(Key(Id(k), Write) > cursor)
          BY <2>2, <4>1 DEF Ahead
        <4>3. k <= Key(Id(k), Write)
          BY <1>k, KeyFacts DEF Key, Read, Write, Ids
        <4>4. ~(k > cursor)
          BY <1>k, <4>2, <4>3 DEF Key, Write, Ids
        <4> QED
          BY <1>a, <2>2, <3>2, <4>4
      <3>3. CASE ~complete
        BY <1>a, <2>2, <2>4, <3>3 DEF SweepStep
      <3> QED
        BY <3>1, <3>2, <3>3
    <2> QED
      BY <1>4, <2>3, <2>4 DEF Deliver
  <1>5. ASSUME NEW ks \in SUBSET sweepPending, Resume(ks)
        PROVE  Goal
    <2>1. ks \in SUBSET Keys
      BY DEF TypeOK
    <2>2. /\ flag[k] /\ k \notin ks
          /\ UNCHANGED <<live, queue, overflow, batch, sweepVars>>
          /\ sweepPending' = sweepPending \ ks
      BY <1>5, <1>l, <2>1, DeliverFacts DEF Resume
    <2> QED
      BY <1>a, <2>2
  <1>6. ASSUME NEW rs \in SUBSET pending, SendAborts(rs)
        PROVE  Goal
    BY <1>6, <1>a, <1>k, <1>l DEF SendAborts
  <1>7. ASSUME NEW ks \in SUBSET queue, DrainQueue(ks)
        PROVE  Goal
    BY <1>7, <1>a DEF DrainQueue, PhaseInv
  <1>8. CASE DrainContended
    BY <1>8 DEF DrainContended
  <1>9. ASSUME NEW i \in Ids, ScanEntry(i)
        PROVE  Goal
    <2>1. /\ batch \subseteq batch'
          /\ UNCHANGED <<live, flag, queue, overflow, sweep, resweep, sweepPending>>
      BY <1>9 DEF ScanEntry
    <2> QED
      BY <1>9, <1>a, <2>1, ScanPasses
  <1>10. ASSUME \/ CancelOther \/ PollCall \/ ContinueShutdown \/ DriveDone
                \/ ShutdownStructure \/ ShutdownWorkDone \/ ScanStops \/ FinishCall
                \/ UNCHANGED vars
         PROVE  Goal
    <2>1. UNCHANGED <<live, flag, queue, overflow, batch, sweepPending, sweep, resweep, cursor>>
      BY <1>10 DEF CancelOther, PollCall, ContinueShutdown, DriveDone,
                   ShutdownStructure, ShutdownWorkDone, ScanStops, FinishCall, vars
    <2> QED
      BY <1>a, <2>1
  <1>11. ~FinishShutdown /\ ~(\E n \in 0..MaxStructures : Shutdown(n))
    BY <1>l DEF FinishShutdown, Shutdown
  <1> QED
    BY <1>1, <1>2, <1>3, <1>4, <1>5, <1>6, <1>7, <1>8, <1>9, <1>10, <1>11 DEF Next, Call, Step

\* WakeupInv is inductive.
LEMMA WakeupStep ==
    WakeupInv /\ [Next]_vars => WakeupInv'
  BY TypeStep, FreshStep, ArmedStep, PhaseStep, ContinuedStep, CoveredStep DEF WakeupInv

\* WakeupInv holds initially.
LEMMA WakeupInit ==
    Init => WakeupInv
  <1> SUFFICES ASSUME Init
               PROVE  WakeupInv
    OBVIOUS
  <1>1. TypeOK
    BY TypeInit
  <1>2. PhaseInv /\ SlotsLive /\ ArmedInv
    BY DEF Init, PhaseInv, SlotsLive, ArmedInv, Ahead
  <1>3. \A k \in Keys : ~flag[k] /\ ~registered[k]
    BY DEF Init
  <1>4. FreshInv /\ FlagsCovered
    BY <1>3 DEF FreshInv, FlagsCovered, Init
  <1>5. RetainedIsContinued
    BY DEF Init, RetainedIsContinued, Retained
  <1> QED
    BY <1>1, <1>2, <1>4, <1>5 DEF WakeupInv

\* The inductive invariant of the wake-up machinery holds in every behaviour.
THEOREM WakeupInvariant == Spec => []WakeupInv
  BY WakeupInit, WakeupStep, PTL DEF Spec

\* No wake-up is lost: for any limits and any interleaving of calls, cut short
\* anywhere, a flag that is up is on its way to being looked at (waiter.rs,
\* finish_call).
THEOREM NoLostWakeup == Spec => []FlagsCovered
  <1>1. WakeupInv => FlagsCovered
    BY DEF WakeupInv
  <1> QED
    BY <1>1, WakeupInvariant, PTL

\* Retained work keeps a poll outstanding (finish_call's `more').
THEOREM WorkIsContinued == Spec => []RetainedIsContinued
  <1>1. WakeupInv => RetainedIsContinued
    BY DEF WakeupInv
  <1> QED
    BY <1>1, WakeupInvariant, PTL

\* No waiter is stranded: one that could make progress is flagged, and its owner
\* will poll; smoltcp holds the waker of any other (arm_read, arm_write,
\* finish_call).
THEOREM WaitersReachable == Spec => []NoStrandedWaiter
  <1>1. WakeupInv => NoStrandedWaiter
    <2> SUFFICES ASSUME WakeupInv, lifecycle = "running", NEW k \in Slots
                 PROVE  IF k \in progress
                        THEN flag[k] /\ (phase = "idle" => continuation)
                        ELSE registered[k]
      BY DEF NoStrandedWaiter
    <2>1. IF k \in progress THEN flag[k] ELSE registered[k]
      BY DEF WakeupInv, ArmedInv
    <2>2. ASSUME k \in progress, phase = "idle"
          PROVE  continuation
      <3>1. flag[k] /\ Id(k) \in live
        BY <2>1, <2>2 DEF WakeupInv, SlotsLive
      <3>2. batch = {}
        BY <2>2 DEF WakeupInv, PhaseInv
      <3>3. Retained
        BY <3>1, <3>2 DEF WakeupInv, FlagsCovered, Retained
      <3> QED
        BY <2>2, <3>3 DEF WakeupInv, RetainedIsContinued
    <2> QED
      BY <2>1, <2>2
  <1> QED
    BY <1>1, WakeupInvariant, PTL

\* A stack that is down has told everyone: no entry, no waiter and no abort owed
\* is left when continue_shutdown completes.
THEOREM ShutdownIsComplete == Spec => []ShutdownComplete
  <1> DEFINE Down == lifecycle = "shutdown" => live = {} /\ pending = {}
  <1>1. Init => Down
    BY DEF Init
  <1>2. WakeupInv /\ Down /\ [Next]_vars => Down'
    <2> SUFFICES ASSUME WakeupInv, Down, [Next]_vars, lifecycle' = "shutdown"
                 PROVE  live' = {} /\ pending' = {}
      OBVIOUS
    <2>1. CASE lifecycle = "shutdown"
      <3>1. phase = "idle"
        BY <2>1, ZenonT(90) DEF WakeupInv, PhaseInv
      <3>2. UNCHANGED vars
        BY <2>1, <3>1, ZenonT(90) DEF Next, Call, Step, Open, Arm, CancelWaiting, CancelOther,
              ShutdownDirections, Close, PollCall, Shutdown, ContinueShutdown, DriveDone,
              ShutdownSocket, ShutdownStructure, ShutdownWorkDone, SendAborts, DrainQueue,
              DrainContended, Deliver, Resume, ScanEntry, ScanStops, FinishCall,
              FinishShutdown, SocketReady
      <3> QED
        BY <2>1, <3>2 DEF vars
    <2>2. CASE lifecycle # "shutdown"
      <3>1. FinishShutdown
        BY <2>2, ZenonT(90) DEF Next, Call, Step, Open, Arm, CancelWaiting, CancelOther,
              ShutdownDirections, Close, PollCall, Shutdown, ContinueShutdown, DriveDone,
              ShutdownSocket, ShutdownStructure, ShutdownWorkDone, SendAborts, DrainQueue,
              DrainContended, Deliver, Resume, ScanEntry, ScanStops, FinishCall,
              SocketReady, vars
      <3>2. ~ShutdownPending
        BY <2>2, <3>1 DEF FinishShutdown
      <3>3. UNCHANGED <<live, pending>>
        BY <3>1 DEF FinishShutdown
      <3> QED
        BY <3>2, <3>3, ZenonT(90) DEF ShutdownPending, Retained
    <2> QED
      BY <2>1, <2>2
  <1>3. WakeupInv /\ Down => ShutdownComplete
    BY DEF WakeupInv, SlotsLive, ShutdownComplete
  <1> QED
    BY <1>1, <1>2, <1>3, WakeupInvariant, PTL DEF Spec
=============================================================================

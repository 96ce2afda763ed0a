---------------------------- MODULE SelectProofs ----------------------------
(***************************************************************************)
(* The readiness machinery implements SelectService, for any limits, any   *)
(* number of sockets and any number of references.                         *)
(***************************************************************************)
EXTENDS ReadinessProofs

\* Most leaves are first-order and short: Zenon is asked first, then the SMT solver.
USE ZenonT(3), SMTT(20), ZenonT(30)

USE DEF tableVars, queueVars, sweepVars, refVars, scanVars, callVars

-----------------------------------------------------------------------------
(* The service itself *)

\* The service keeps every reference in one place.
LEMMA OneFateStep ==
    ASSUME nextRef \in Nat \ {0}, Service!OneFate, Service!Next
    PROVE  Service!OneFate'
  <1>1. CASE Service!Issue
    <2>1. nextRef \notin 1..(nextRef - 1)
      OBVIOUS
    <2>2. 1..(nextRef' - 1) = 1..(nextRef - 1) \cup {nextRef}
      BY <1>1 DEF Service!Issue
    <2> QED
      BY <1>1, <2>1, <2>2 DEF Service!Issue, Service!OneFate, Service!Next
  <1>2. ASSUME NEW R \in SUBSET Waiting(Keys), Service!Select(R)
        PROVE  Service!OneFate'
    BY <1>2 DEF Service!Select, Service!OneFate, Service!Next
  <1>3. ASSUME NEW R \in SUBSET Waiting(Keys), Service!Owe(R)
        PROVE  Service!OneFate'
    BY <1>3 DEF Service!Owe, Service!OneFate, Service!Next
  <1>4. ASSUME NEW r \in Waiting(Keys), Service!Cancel(r)
        PROVE  Service!OneFate'
    BY <1>4 DEF Service!Cancel, Service!OneFate, Service!Next
  <1>5. ASSUME NEW R \in SUBSET pending, Service!Abort(R)
        PROVE  Service!OneFate'
    BY <1>5 DEF Service!Abort, Service!OneFate, Service!Next
  <1>6. CASE Service!Forget
    BY <1>6 DEF Service!Forget, Service!OneFate, Service!Next
  <1> QED
    BY <1>1, <1>2, <1>3, <1>4, <1>5, <1>6 DEF Service!Next

-----------------------------------------------------------------------------
(* The slots *)

\* Taking the waiters of ks takes exactly their references from those that wait.
LEMMA TakenRefs ==
    ASSUME TypeOK, PlaceInv, NEW ks \in SUBSET Keys, TakeWaiters(ks)
    PROVE  /\ Waiting(Keys)' = Waiting(Keys) \ Waiting(ks)
           /\ Waiting(ks) \in SUBSET Waiting(Keys)
           /\ \A k1, k2 \in Slots' : waiter'[k1] = waiter'[k2] => k1 = k2
  <1>1. \A k \in Keys : waiter'[k] = IF k \in ks THEN 0 ELSE waiter[k]
    BY DEF TakeWaiters
  <1>2. \A k1, k2 \in Keys : waiter[k1] # 0 /\ waiter[k1] = waiter[k2] => k1 = k2
    BY DEF PlaceInv, Slots
  <1>3. Waiting(Keys)' = Waiting(Keys) \ Waiting(ks)
    BY <1>1, <1>2 DEF Waiting
  <1>4. \A k1, k2 \in Slots' : waiter'[k1] = waiter'[k2] => k1 = k2
    BY <1>1, <1>2 DEF Slots
  <1> QED
    BY <1>3, <1>4 DEF Waiting

\* Taking waiters to abort them is the service's Owe.
LEMMA OweRefs ==
    ASSUME TypeOK, PlaceInv, NEW ks \in SUBSET Keys, TakeWaiters(ks),
           pending' = pending \cup Waiting(ks),
           UNCHANGED <<sent, refVars>>
    PROVE  /\ Service!Next
           /\ \A k1, k2 \in Slots' : waiter'[k1] = waiter'[k2] => k1 = k2
  <1>1. /\ Waiting(Keys)' = Waiting(Keys) \ Waiting(ks)
        /\ Waiting(ks) \in SUBSET Waiting(Keys)
        /\ \A k1, k2 \in Slots' : waiter'[k1] = waiter'[k2] => k1 = k2
    BY TakenRefs
  <1>2. Service!Owe(Waiting(ks))
    BY <1>1 DEF Service!Owe
  <1>3. ({sent[k] : k \in Keys} \ {0})' \subseteq selected'
    BY DEF PlaceInv, Service!OneFate
  <1> QED
    BY <1>1, <1>2, <1>3 DEF Service!Next

\* Delivering keys is the service's Select, of the waiters of those that are ready.
LEMMA SelectRefs ==
    ASSUME TypeOK, PlaceInv, NEW ks \in SUBSET Keys, DeliverOrDiscard(ks),
           UNCHANGED <<pending, nextRef, aborted, cancelled>>
    PROVE  /\ Service!Next
           /\ \A k1, k2 \in Slots' : waiter'[k1] = waiter'[k2] => k1 = k2
  <1> DEFINE ready == {k \in ks : lifecycle = "running" /\ Id(k) \in live /\ flag[k]}
  <1>1. /\ ready \in SUBSET Keys
        /\ TakeWaiters(ready)
        /\ selected' = selected \cup Waiting(ready)
        /\ sent' = [k \in Keys |-> IF k \in ready /\ waiter[k] # 0
                                   THEN waiter[k] ELSE sent[k]]
    BY DEF DeliverOrDiscard
  <1> HIDE DEF ready
  <1>2. /\ Waiting(Keys)' = Waiting(Keys) \ Waiting(ready)
        /\ Waiting(ready) \in SUBSET Waiting(Keys)
        /\ \A k1, k2 \in Slots' : waiter'[k1] = waiter'[k2] => k1 = k2
    BY <1>1, TakenRefs
  <1>3. Service!Select(Waiting(ready))
    BY <1>1, <1>2 DEF Service!Select
  <1>4. \A k \in Keys : sent[k] # 0 => sent[k] \in selected
    BY DEF PlaceInv, Service!OneFate
  <1>5. \A k \in Keys : sent'[k] # 0 => sent'[k] \in selected'
    BY <1>1, <1>4 DEF Waiting
  <1>6. ({sent[k] : k \in Keys} \ {0})' \subseteq selected'
    BY <1>5
  <1> QED
    BY <1>2, <1>3, <1>6 DEF Service!Next

-----------------------------------------------------------------------------
(* Steps *)

\* A step that changes nothing the service sees.
LEMMA Unseen ==
    ASSUME PlaceInv, UNCHANGED <<nextRef, waiter, sent, pending, selected, aborted, cancelled>>
    PROVE  [Service!Next]_(Service!vars) /\ PlaceInv'
  <1>1. UNCHANGED Service!vars
    BY DEF Service!vars, Waiting
  <1>2. PlaceInv'
    BY DEF PlaceInv, Service!OneFate, Slots, Waiting
  <1> QED
    BY <1>1, <1>2

\* A step of the service keeps PlaceInv if the slots stay distinct.
LEMMA Seen ==
    ASSUME TypeOK, PlaceInv, Service!Next,
           \A k1, k2 \in Slots' : waiter'[k1] = waiter'[k2] => k1 = k2
    PROVE  [Service!Next]_(Service!vars) /\ PlaceInv'
  <1>1. nextRef \in Nat \ {0}
    BY LimitsAssumption DEF TypeOK
  <1> QED
    BY <1>1, OneFateStep DEF PlaceInv

\* A new waiter is the service's Issue: its reference is in no slot and in no place.
LEMMA ArmRefs ==
    ASSUME TypeOK, PlaceInv, NEW k \in Keys, waiter[k] = 0,
           waiter' = [waiter EXCEPT ![k] = nextRef],
           sent' = [sent EXCEPT ![k] = 0],
           nextRef' = nextRef + 1,
           UNCHANGED <<pending, selected, aborted, cancelled>>
    PROVE  /\ Service!Next
           /\ \A k1, k2 \in Slots' : waiter'[k1] = waiter'[k2] => k1 = k2
  <1>1. nextRef \in Nat \ {0} /\ waiter \in [Keys -> Refs \cup {0}] /\ sent \in [Keys -> Refs \cup {0}]
    BY LimitsAssumption DEF TypeOK
  <1>2. \A j \in Keys : waiter'[j] = IF j = k THEN nextRef ELSE waiter[j]
    BY <1>1
  <1>3. nextRef \notin Waiting(Keys)
    BY <1>1 DEF PlaceInv, Service!OneFate
  <1>4. Waiting(Keys)' = Waiting(Keys) \cup {nextRef}
    BY <1>1, <1>2 DEF Waiting
  <1>5. Service!Issue
    BY <1>4 DEF Service!Issue
  <1>6. \A j \in Keys : sent[j] # 0 => sent[j] \in selected
    BY DEF PlaceInv, Service!OneFate
  <1>7. ({sent[j] : j \in Keys} \ {0})' \subseteq selected'
    BY <1>1, <1>6
  <1>8. \A j \in Keys : waiter[j] # nextRef
    BY <1>1, <1>3 DEF Waiting
  <1>9. \A k1, k2 \in Slots' : waiter'[k1] = waiter'[k2] => k1 = k2
    BY <1>2, <1>8 DEF PlaceInv, Slots
  <1> QED
    BY <1>5, <1>7, <1>9 DEF Service!Next

\* cancel of an installed waiter is the service's Cancel.
LEMMA CancelRefs ==
    ASSUME TypeOK, PlaceInv, NEW k \in Keys, waiter[k] # 0, TakeWaiters({k}),
           cancelled' = cancelled \cup {waiter[k]},
           UNCHANGED <<sent, pending, nextRef, selected, aborted>>
    PROVE  /\ Service!Next
           /\ \A k1, k2 \in Slots' : waiter'[k1] = waiter'[k2] => k1 = k2
  <1>1. Waiting({k}) = {waiter[k]}
    BY DEF Waiting
  <1>2. /\ Waiting(Keys)' = Waiting(Keys) \ {waiter[k]}
        /\ waiter[k] \in Waiting(Keys)
        /\ \A k1, k2 \in Slots' : waiter'[k1] = waiter'[k2] => k1 = k2
    BY <1>1, TakenRefs
  <1>3. Service!Cancel(waiter[k])
    BY <1>2 DEF Service!Cancel
  <1>4. ({sent[j] : j \in Keys} \ {0})' \subseteq selected'
    BY DEF PlaceInv, Service!OneFate
  <1> QED
    BY <1>2, <1>3, <1>4 DEF Service!Next

\* Every step of the machinery is a step of the service, or one it does not see.
LEMMA ServiceStep ==
    ASSUME TypeOK, PlaceInv, [Next]_vars
    PROVE  [Service!Next]_(Service!vars) /\ PlaceInv'
  <1>1. ASSUME NEW k \in Keys, NEW ready \in BOOLEAN, NEW drive \in BOOLEAN,
               Arm(k, ready, drive)
        PROVE  [Service!Next]_(Service!vars) /\ PlaceInv'
    BY <1>1, ArmRefs, Seen DEF Arm
  <1>2. ASSUME NEW k \in Keys, CancelWaiting(k)
        PROVE  [Service!Next]_(Service!vars) /\ PlaceInv'
    BY <1>2, CancelRefs, Seen DEF CancelWaiting
  <1>3. ASSUME NEW i \in Ids, NEW ds \in {{Read}, {Write}, {Read, Write}},
               ShutdownDirections(i, ds)
        PROVE  [Service!Next]_(Service!vars) /\ PlaceInv'
    <2> DEFINE ks == {k \in {Key(i, d) : d \in ds} : waiter[k] # 0}
    <2>1. ks \in SUBSET Keys
      BY SocketKeys
    <2>2. /\ TakeWaiters(ks)
          /\ pending' = pending \cup Waiting(ks)
          /\ UNCHANGED <<sent, refVars>>
      BY <1>3 DEF ShutdownDirections
    <2> HIDE DEF ks
    <2> QED
      BY <2>1, <2>2, OweRefs, Seen
  <1>4. ASSUME NEW i \in Ids, NEW graceful \in BOOLEAN, Close(i, graceful)
        PROVE  [Service!Next]_(Service!vars) /\ PlaceInv'
    BY <1>4, SocketKeys, OweRefs, Seen DEF Close
  <1>5. ASSUME NEW i \in Ids, ShutdownSocket(i)
        PROVE  [Service!Next]_(Service!vars) /\ PlaceInv'
    BY <1>5, SocketKeys, OweRefs, Seen DEF ShutdownSocket
  <1>6. ASSUME NEW rs \in SUBSET pending, SendAborts(rs)
        PROVE  [Service!Next]_(Service!vars) /\ PlaceInv'
    <2>1. /\ pending' = pending \ rs
          /\ aborted' = aborted \cup rs
          /\ UNCHANGED <<waiter, sent, nextRef, selected, cancelled>>
      BY <1>6 DEF SendAborts
    <2>2. Service!Abort(rs)
      BY <2>1 DEF Service!Abort, Waiting
    <2>3. ({sent[j] : j \in Keys} \ {0})' \subseteq selected'
      BY <2>1 DEF PlaceInv, Service!OneFate
    <2>4. Service!Next
      BY <2>2, <2>3 DEF Service!Next
    <2>5. \A k1, k2 \in Slots' : waiter'[k1] = waiter'[k2] => k1 = k2
      BY <2>1 DEF PlaceInv, Slots
    <2> QED
      BY <2>4, <2>5, Seen
  <1>7. ASSUME NEW ks \in SUBSET batch, Deliver(ks)
        PROVE  [Service!Next]_(Service!vars) /\ PlaceInv'
    <2>1. ks \in SUBSET Keys
      BY DEF TypeOK
    <2> QED
      BY <1>7, <2>1, SelectRefs, Seen DEF Deliver
  <1>8. ASSUME NEW ks \in SUBSET sweepPending, Resume(ks)
        PROVE  [Service!Next]_(Service!vars) /\ PlaceInv'
    <2>1. ks \in SUBSET Keys
      BY DEF TypeOK
    <2> QED
      BY <1>8, <2>1, SelectRefs, Seen DEF Resume
  <1>9. CASE Open \/ CancelOther \/ PollCall \/ ContinueShutdown
    BY <1>9, Unseen DEF Open, CancelOther, PollCall, ContinueShutdown
  <1>10. ASSUME NEW n \in 0..MaxStructures, Shutdown(n)
         PROVE  [Service!Next]_(Service!vars) /\ PlaceInv'
    BY <1>10, Unseen DEF Shutdown
  <1>11. CASE DriveDone \/ ShutdownStructure \/ ShutdownWorkDone \/ DrainContended \/ ScanStops
    BY <1>11, Unseen DEF DriveDone, ShutdownStructure, ShutdownWorkDone, DrainContended,
                         ScanStops
  <1>12. ASSUME NEW ks \in SUBSET queue, DrainQueue(ks)
         PROVE  [Service!Next]_(Service!vars) /\ PlaceInv'
    BY <1>12, Unseen DEF DrainQueue
  <1>13. ASSUME NEW i \in Ids, ScanEntry(i)
         PROVE  [Service!Next]_(Service!vars) /\ PlaceInv'
    BY <1>13, Unseen DEF ScanEntry
  <1>14. CASE FinishCall \/ FinishShutdown
    BY <1>14, Unseen DEF FinishCall, FinishShutdown
  <1>15. ASSUME NEW k \in Keys, SocketReady(k)
         PROVE  [Service!Next]_(Service!vars) /\ PlaceInv'
    BY <1>15, Unseen DEF SocketReady
  <1>16. CASE UNCHANGED vars
    BY <1>16, Unseen DEF vars
  <1> QED
    BY <1>1, <1>2, <1>3, <1>4, <1>5, <1>6, <1>7, <1>8, <1>9, <1>10, <1>11, <1>12, <1>13,
       <1>14, <1>15, <1>16 DEF Next, Call, Step

\* Nothing has been issued at first.
LEMMA ServiceInit ==
    ASSUME Init
    PROVE  Service!Init /\ PlaceInv
  <1>1. Waiting(Keys) = {} /\ {sent[k] : k \in Keys} \ {0} = {}
    BY DEF Init, Waiting
  <1>2. 1..(nextRef - 1) = {}
    BY DEF Init
  <1> QED
    BY <1>1, <1>2 DEF Init, Service!Init, PlaceInv, Service!OneFate, Slots

\* A reference is in one slot and in one place: slots, aborts to send, or the record
\* of what ended it (socket_table.rs, finish_call).
THEOREM OnePlace == Spec => []PlaceInv
  <1>1. Init => PlaceInv
    BY ServiceInit
  <1>2. TypeOK /\ PlaceInv /\ [Next]_vars => PlaceInv'
    BY ServiceStep
  <1> QED
    BY <1>1, <1>2, TypeCorrect, PTL DEF Spec

\* The readiness machinery implements the select service: queue, sweeps, limits and
\* budgets lose no reference and notify none twice (finish_call, cancel, close,
\* shutdown).
THEOREM ServiceImplemented == Spec => ImplementsService
  <1>1. Init => Service!Init
    BY ServiceInit
  <1>2. TypeOK /\ PlaceInv /\ [Next]_vars => [Service!Next]_(Service!vars)
    BY ServiceStep
  <1> QED
    BY <1>1, <1>2, TypeCorrect, OnePlace, PTL DEF Spec, ImplementsService, Service!Spec

-----------------------------------------------------------------------------
(* The number of waiters *)

\* Taking waiters keeps the count exact.
LEMMA TakenCount ==
    ASSUME TypeOK, WaiterCountExact, NEW ks \in SUBSET Keys, TakeWaiters(ks)
    PROVE  WaiterCountExact'
  <1> DEFINE taken == {k \in ks : waiter[k] # 0}
  <1>1. Slots \in SUBSET Keys /\ taken \in SUBSET Keys
    BY DEF Slots
  <1>2. /\ IsFiniteSet(Slots) /\ Cardinality(Slots) \in Nat
        /\ IsFiniteSet(taken) /\ Cardinality(taken) \in Nat
    BY <1>1, KeySets
  <1>3. Slots \cap taken = taken
    BY DEF Slots
  <1>4. Cardinality(Slots \ taken) = Cardinality(Slots) - Cardinality(taken)
    <2>1. PICK S, T : S = Slots /\ T = taken
      OBVIOUS
    <2>2. IsFiniteSet(S) /\ S \cap T = T
      BY <1>2, <1>3, <2>1
    <2>3. Cardinality(S \ T) = Cardinality(S) - Cardinality(S \cap T)
      BY <2>2, FS_Difference
    <2> QED
      BY <2>1, <2>2, <2>3
  <1>5. Slots' = Slots \ taken
    BY DEF TakeWaiters, Slots, TypeOK
  <1>6. waiterCount' = waiterCount - Cardinality(taken)
    BY DEF TakeWaiters
  <1> HIDE DEF taken
  <1> QED
    BY <1>2, <1>4, <1>5, <1>6, LimitsAssumption DEF WaiterCountExact

\* Every step keeps the count exact.
LEMMA CountStep ==
    ASSUME TypeOK, WaiterCountExact, [Next]_vars
    PROVE  WaiterCountExact'
  <1>1. ASSUME UNCHANGED <<waiter, waiterCount>>
        PROVE  WaiterCountExact'
    BY <1>1 DEF WaiterCountExact, Slots
  <1>2. ASSUME NEW k \in Keys, NEW ready \in BOOLEAN, NEW drive \in BOOLEAN,
               Arm(k, ready, drive)
        PROVE  WaiterCountExact'
    <2>1. /\ waiter[k] = 0 /\ waiter' = [waiter EXCEPT ![k] = nextRef]
          /\ waiterCount < MaxWaiters /\ waiterCount' = waiterCount + 1
      BY <1>2 DEF Arm
    <2>2. /\ waiter \in [Keys -> Refs \cup {0}]
          /\ nextRef # 0
          /\ waiterCount \in Int
      BY LimitsAssumption DEF TypeOK
    <2>3. Slots' = Slots \cup {k} /\ k \notin Slots
      BY <2>1, <2>2 DEF Slots
    <2>4. IsFiniteSet(Slots) /\ Cardinality(Slots) \in Nat
      BY KeySets DEF Slots
    <2>5. Cardinality(Slots') = Cardinality(Slots) + 1
      BY <2>3, <2>4, FS_AddElement
    <2> QED
      BY <2>1, <2>2, <2>5, LimitsAssumption DEF WaiterCountExact
  <1>3. ASSUME NEW ks \in SUBSET Keys, DeliverOrDiscard(ks)
        PROVE  WaiterCountExact'
    <2> DEFINE ready == {k \in ks : lifecycle = "running" /\ Id(k) \in live /\ flag[k]}
    <2>1. ready \in SUBSET Keys /\ TakeWaiters(ready)
      BY <1>3 DEF DeliverOrDiscard
    <2> HIDE DEF ready
    <2> QED
      BY <2>1, TakenCount
  <1>4. ASSUME NEW ks \in SUBSET batch, Deliver(ks)
        PROVE  WaiterCountExact'
    BY <1>3, <1>4 DEF Deliver, TypeOK
  <1>5. ASSUME NEW ks \in SUBSET sweepPending, Resume(ks)
        PROVE  WaiterCountExact'
    BY <1>3, <1>5 DEF Resume, TypeOK
  <1>6. ASSUME NEW k \in Keys, CancelWaiting(k)
        PROVE  WaiterCountExact'
    BY <1>6, TakenCount DEF CancelWaiting
  <1>7. ASSUME NEW i \in Ids, NEW ds \in {{Read}, {Write}, {Read, Write}},
               ShutdownDirections(i, ds)
        PROVE  WaiterCountExact'
    <2> DEFINE ks == {k \in {Key(i, d) : d \in ds} : waiter[k] # 0}
    <2>1. ks \in SUBSET Keys
      BY SocketKeys
    <2>2. TakeWaiters(ks)
      BY <1>7 DEF ShutdownDirections
    <2> HIDE DEF ks
    <2> QED
      BY <2>1, <2>2, TakenCount
  <1>8. ASSUME NEW i \in Ids, NEW graceful \in BOOLEAN, Close(i, graceful)
        PROVE  WaiterCountExact'
    BY <1>8, SocketKeys, TakenCount DEF Close
  <1>9. ASSUME NEW i \in Ids, ShutdownSocket(i)
        PROVE  WaiterCountExact'
    BY <1>9, SocketKeys, TakenCount DEF ShutdownSocket
  <1>10. CASE Open
    BY <1>1, <1>10 DEF Open
  <1>11. ASSUME NEW k \in Keys, SocketReady(k)
         PROVE  WaiterCountExact'
    BY <1>1, <1>11 DEF SocketReady
  <1>12. CASE Bookkeeping
    BY <1>1, <1>12 DEF Bookkeeping, CancelOther, PollCall, Shutdown, ContinueShutdown,
         DriveDone, ShutdownStructure, ShutdownWorkDone, SendAborts, DrainQueue,
         DrainContended, ScanEntry, ScanStops, FinishCall, FinishShutdown, vars
  <1> QED
    BY <1>2, <1>4, <1>5, <1>6, <1>7, <1>8, <1>9, <1>10, <1>11, <1>12, Steps

\* waiter_count is exact for any limits: the limit on waiters neither leaks nor lets
\* more in (SocketTable::install_waiter, take_waiter, close).
THEOREM CountIsExact == Spec => []WaiterCountExact
  <1>1. Init => WaiterCountExact
    BY FS_EmptySet, LimitsAssumption DEF Init, WaiterCountExact, Slots
  <1>2. TypeOK /\ WaiterCountExact /\ [Next]_vars => WaiterCountExact'
    BY CountStep
  <1> QED
    BY <1>1, <1>2, TypeCorrect, PTL DEF Spec
=============================================================================

------------------------- MODULE MaintenanceProofs --------------------------
(***************************************************************************)
(* Proofs about Maintenance, for any sets of sockets and members, any      *)
(* limits and any budgets: what needs a sweep is ahead of one, the limits  *)
(* hold, children keep their order, and the accept that waits is woken.    *)
(*                                                                         *)
(* The argument: a sweep visits its keys in order from its cursor, so a    *)
(* key that is covered is visited or still covered when the sweep stops    *)
(* (SweepKeeps).  A socket leaves TIME-WAIT without a request only in a    *)
(* drive that reached the deadline last published, and that one asks for   *)
(* the sweep itself (DueInv).                                              *)
(***************************************************************************)
EXTENDS Maintenance, FiniteSetTheorems, TLAPS

\* Most leaves are first-order and short: Zenon is asked first, then the SMT solver.
USE ZenonT(3), SMTT(20), ZenonT(30)

\* The children in the queue are sockets of their own that wait to be accepted.
QueueInv ==
    /\ IsInjective(accepted)
    /\ \A a \in 1..Len(accepted) : sock[accepted[a]] = "queued"

\* A member that is established or dead is ahead of a scan, in every step of a drive.
ScanInv == \A h \in Handles : pool[h] \in {"established", "dead"} => Covered(scan, h)

\* A closing socket that is done is ahead of a sweep, in every step of a drive.
CleanupInv == \A i \in Ids : sock[i] = "closed" => Covered(cleanup, i)

\* A TIME-WAIT that is over is one the drive knows of, until its egress ran: between
\* calls the poll that is published, if no continuation is due, is not later than its
\* end.
DueInv ==
    /\ Idle /\ ~more => \A i \in Ids : scheduled <= waitAt[i]
    /\ Expired # {} => IF phase \in {"cleanup", "scan", "egress"} THEN reached ELSE scheduled = 0
    /\ reached => phase \in {"cleanup", "scan", "egress"} /\ scheduled = 0
    /\ tried => phase = "egress" /\ remain

-----------------------------------------------------------------------------
(* Sweeps *)

LEMMA DueFinite ==
    ASSUME NEW s, NEW keys, IsFiniteSet(keys)
    PROVE  IsFiniteSet(Due(s, keys)) /\ Cardinality(Due(s, keys)) \in Nat
  <1>1. Due(s, keys) \in SUBSET keys
    BY DEF Due
  <1> QED
    BY <1>1, FS_Subset, FS_CardinalityType

\* The least-number principle.
LEMMA LeastNatural ==
    ASSUME NEW T, T \subseteq Nat, T # {}
    PROVE  \E m \in T : \A n \in T : m <= n
  <1> DEFINE R == OpToRel(<, Nat)
  <1>1. IsWellFoundedOn(R, Nat)
    BY NatLessThanWellFounded
  <1> HIDE DEF R
  <1>2. PICK x \in T : \A y \in T : ~(<<y, x>> \in R)
    BY <1>1, WFMin
  <1>3. \A y \in T : ~(y < x)
    BY <1>2 DEF R, OpToRel
  <1> QED
    BY <1>3

\* Every finite set of numbers that is not empty has a greatest one: the one with the
\* fewest above it.
LEMMA Greatest ==
    ASSUME NEW S, IsFiniteSet(S), S \subseteq Nat, S # {}
    PROVE  \E k \in S : \A j \in S : j <= k
  <1> DEFINE Above(x) == {j \in S : j > x}
             T == {Cardinality(Above(x)) : x \in S}
  <1>1. \A x \in S : IsFiniteSet(Above(x)) /\ Cardinality(Above(x)) \in Nat
    <2>1. \A x \in S : Above(x) \in SUBSET S
      OBVIOUS
    <2> QED
      BY <2>1, FS_Subset, FS_CardinalityType
  <1>2. PICK m \in T : \A n \in T : m <= n
    <2>1. T \subseteq Nat /\ T # {}
      BY <1>1
    <2> QED
      BY <2>1, LeastNatural
  <1>3. PICK k \in S : m = Cardinality(Above(k))
    BY <1>2
  <1>4. ASSUME NEW j \in S, j > k PROVE FALSE
    <2>0. \A i \in S : i \in Nat
      OBVIOUS
    <2>1. Above(j) \in SUBSET Above(k) /\ j \in Above(k) /\ j \notin Above(j)
      <3>1. \A i \in S : i > j => i > k
        BY <1>4, <2>0, SMTT(30)
      <3>2. ~(j > j)
        BY <2>0, SMTT(30)
      <3> QED
        BY <1>4, <3>1, <3>2
    <2>2. Cardinality(Above(j)) < Cardinality(Above(k))
      BY <1>1, <2>1, FS_Subset
    <2>3. Cardinality(Above(k)) <= Cardinality(Above(j))
      BY <1>2, <1>3
    <2> QED
      BY <1>1, <2>2, <2>3
  <1>5. \A j \in S : j <= k
    BY <1>4
  <1> QED
    BY <1>5

\* The first n keys that are due come before the others.
LEMMA FirstDueOrder ==
    ASSUME NEW s, NEW keys, IsFiniteSet(keys), keys \subseteq Nat, NEW n \in Nat,
           NEW j \in FirstDue(s, keys, n), NEW k \in Due(s, keys) \ FirstDue(s, keys, n)
    PROVE  j < k
  <1> DEFINE Before(x) == {i \in Due(s, keys) : i < x}
  <1>1. j \in Due(s, keys) /\ j \in Nat /\ k \in Nat
    BY DEF FirstDue, Due
  <1>2. Cardinality(Before(j)) < n /\ ~(Cardinality(Before(k)) < n)
    BY DEF FirstDue
  <1>3. SUFFICES ASSUME k <= j PROVE FALSE
    BY <1>1
  <1>4. Before(k) \in SUBSET Before(j)
    <2>1. \A i \in Due(s, keys) : i \in Nat /\ (i < k => i < j)
      BY <1>1, <1>3 DEF Due
    <2> QED
      BY <2>1
  <1>5. IsFiniteSet(Before(j)) /\ IsFiniteSet(Before(k))
    BY DueFinite, FS_Subset
  <1>6. /\ Cardinality(Before(k)) <= Cardinality(Before(j))
        /\ Cardinality(Before(k)) \in Nat /\ Cardinality(Before(j)) \in Nat
    BY <1>4, <1>5, FS_Subset, FS_CardinalityType
  <1> QED
    BY <1>2, <1>6

\* With enough visits these are all.
LEMMA FirstDueAll ==
    ASSUME NEW s, NEW keys, IsFiniteSet(keys), keys \subseteq Nat, NEW n \in Nat,
           n >= Cardinality(Due(s, keys))
    PROVE  FirstDue(s, keys, n) = Due(s, keys)
  <1> SUFFICES ASSUME NEW k \in Due(s, keys) PROVE k \in FirstDue(s, keys, n)
    BY DEF FirstDue
  <1> DEFINE B == {i \in Due(s, keys) : i < k}
  <1>1. B \in SUBSET (Due(s, keys) \ {k})
    BY DEF Due
  <1>2. /\ IsFiniteSet(Due(s, keys) \ {k})
        /\ Cardinality(Due(s, keys) \ {k}) = Cardinality(Due(s, keys)) - 1
    BY DueFinite, FS_RemoveElement
  <1>3. Cardinality(B) \in Nat /\ Cardinality(B) <= Cardinality(Due(s, keys) \ {k})
    BY <1>1, <1>2, FS_Subset, FS_CardinalityType
  <1>4. Cardinality(B) < n
    BY <1>2, <1>3, DueFinite
  <1> QED
    BY <1>4 DEF FirstDue

LEMMA FirstDueFinite ==
    ASSUME NEW s, NEW keys, IsFiniteSet(keys), NEW n
    PROVE  /\ FirstDue(s, keys, n) \subseteq Due(s, keys)
           /\ FirstDue(s, keys, n) \subseteq keys
           /\ IsFiniteSet(FirstDue(s, keys, n))
  <1>1. FirstDue(s, keys, n) \in SUBSET Due(s, keys)
    BY DEF FirstDue
  <1> QED
    BY <1>1, DueFinite, FS_Subset DEF Due

LEMMA VisitsType ==
    ASSUME NEW s, NEW keys, IsFiniteSet(keys), NEW limit \in Nat,
           NEW n \in Visits(s, keys, limit)
    PROVE  n \in 0..limit
  BY DueFinite DEF Visits, Min2

LEMMA SweepType ==
    ASSUME NEW keys, NEW s \in Sweeps(keys)
    PROVE  /\ s.pending \in BOOLEAN /\ s.resweep \in BOOLEAN /\ s.turn \in BOOLEAN
           /\ s.cursor \in keys \cup {0}
           /\ DOMAIN s = {"pending", "resweep", "cursor", "turn"}
  BY DEF Sweeps

\* A request covers every key, and what was covered.
LEMMA RequestedCovers ==
    ASSUME NEW all, all \subseteq Nat \ {0}, NEW s \in Sweeps(all), NEW keys, keys # {}
    PROVE  /\ Requested(s, keys) \in Sweeps(all)
           /\ \A k \in all : Covered(Requested(s, keys), k)
  <1>1. CASE s.pending
    <2>1. Requested(s, keys) = [s EXCEPT !.resweep = TRUE]
      BY <1>1 DEF Requested
    <2> QED
      BY <1>1, <2>1 DEF Sweeps, Covered
  <1>2. CASE ~s.pending
    <2>1. Requested(s, keys) = [s EXCEPT !.pending = TRUE, !.cursor = 0]
      BY <1>2 DEF Requested
    <2>2. Requested(s, keys) \in Sweeps(all)
      BY <2>1 DEF Sweeps
    <2>3. Requested(s, keys).pending /\ Requested(s, keys).cursor = 0
      BY <2>1 DEF Sweeps
    <2> QED
      BY <2>2, <2>3 DEF Covered
  <1> QED
    BY <1>1, <1>2

LEMMA RequestedNone ==
    ASSUME NEW s
    PROVE  Requested(s, {}) = s
  BY DEF Requested

LEMMA RequestedType ==
    ASSUME NEW all, all \subseteq Nat \ {0}, NEW s \in Sweeps(all), NEW keys
    PROVE  /\ Requested(s, keys) \in Sweeps(all)
           /\ \A k \in all : Covered(s, k) => Covered(Requested(s, keys), k)
  BY RequestedCovers, RequestedNone

LEMMA ClearedType ==
    ASSUME NEW all, NEW s \in Sweeps(all)
    PROVE  Cleared(s) \in Sweeps(all)
  BY DEF Cleared, Sweeps

\* The sweep of `keys' after n visits covers what it covered and did not visit.
LEMMA SweepKeeps ==
    ASSUME NEW all, all \subseteq Nat \ {0}, NEW s \in Sweeps(all),
           NEW keys \in SUBSET all, IsFiniteSet(keys), NEW n \in Nat
    PROVE  /\ Advanced(s, keys, n) \in Sweeps(all)
           /\ \A k \in keys \ FirstDue(s, keys, n) :
                  Covered(s, k) => Covered(Advanced(s, keys, n), k)
  <1> DEFINE seen == FirstDue(s, keys, n)
             last == IF seen = {} THEN s.cursor ELSE CHOOSE k \in seen : \A j \in seen : j <= k
  <1>0. keys \subseteq Nat /\ s.cursor \in Nat /\ Cardinality(Due(s, keys)) \in Nat
    <2>1. Cardinality(Due(s, keys)) \in Nat
      BY DueFinite
    <2>2. s.cursor \in Nat
      <3>1. s.cursor \in all \/ s.cursor = 0
        BY SweepType
      <3>2. 0 \in Nat
        OBVIOUS
      <3> QED
        BY <3>1, <3>2, ZenonT(60)
    <2>3. keys \subseteq Nat
      OBVIOUS
    <2> QED
      BY <2>1, <2>2, <2>3
  <1>1. seen # {} => last \in seen
    <2>1. seen # {} => \E k \in seen : \A j \in seen : j <= k
      BY <1>0, FirstDueFinite, Greatest
    <2> QED
      BY <2>1
  <1>2. last \in all \cup {0}
    BY <1>1, FirstDueFinite, SweepType
  <1>3. CASE n < Cardinality(Due(s, keys))
    <2>1. Advanced(s, keys, n) = [s EXCEPT !.cursor = last]
      BY <1>3 DEF Advanced
    <2>2. Advanced(s, keys, n) \in Sweeps(all)
      BY <1>2, <2>1 DEF Sweeps
    <2>3. ASSUME NEW k \in keys \ seen, Covered(s, k) PROVE Covered(Advanced(s, keys, n), k)
      <3>1. s.resweep \/ k > s.cursor
        BY <2>3 DEF Covered
      <3>2. CASE s.resweep
        BY <2>1, <2>3, <3>2 DEF Sweeps, Covered
      <3>3. CASE k > s.cursor
        <4>1. k \in Due(s, keys)
          BY <3>3 DEF Due
        <4>2. k > last
          <5>1. CASE seen = {}
            BY <3>3, <5>1
          <5>2. CASE seen # {}
            <6>1. last < k
              BY <1>0, <1>1, <4>1, <5>2, FirstDueOrder
            <6> QED
              BY <1>0, <1>1, <5>2, <6>1, FirstDueFinite
          <5> QED
            BY <5>1, <5>2
        <4>3. k > Advanced(s, keys, n).cursor
          BY <2>1, <4>2 DEF Sweeps
        <4>4. Advanced(s, keys, n).pending
          BY <2>1, <2>3 DEF Sweeps, Covered
        <4> QED
          BY <4>3, <4>4 DEF Covered
      <3> QED
        BY <3>1, <3>2, <3>3
    <2> QED
      BY <2>2, <2>3
  <1>4. CASE ~(n < Cardinality(Due(s, keys)))
    <2>1. Advanced(s, keys, n) = [s EXCEPT !.cursor = 0, !.pending = s.resweep, !.resweep = FALSE]
      BY <1>4 DEF Advanced
    <2>2. Advanced(s, keys, n) \in Sweeps(all)
      BY <2>1 DEF Sweeps
    <2>3. seen = Due(s, keys)
      <3>1. n >= Cardinality(Due(s, keys))
        BY <1>0, <1>4
      <3> QED
        BY <1>0, <3>1, FirstDueAll
    <2>4. ASSUME NEW k \in keys \ seen, Covered(s, k) PROVE Covered(Advanced(s, keys, n), k)
      <3>1. s.resweep
        BY <2>3, <2>4 DEF Due, Covered
      <3>2. k \in Nat \ {0}
        OBVIOUS
      <3> QED
        BY <2>1, <3>1, <3>2 DEF Sweeps, Covered
    <2> QED
      BY <2>2, <2>4
  <1> QED
    BY <1>3, <1>4

-----------------------------------------------------------------------------
(* What the calls of a drive change *)

LEMMA KeyFacts ==
    /\ Ids \subseteq Nat \ {0} /\ IsFiniteSet(Ids)
    /\ Handles \subseteq Nat \ {0} /\ IsFiniteSet(Handles)
    /\ Closing \in SUBSET Ids /\ IsFiniteSet(Closing)
    /\ Members \in SUBSET Handles /\ IsFiniteSet(Members)
  <1>1. /\ Ids \subseteq Nat \ {0} /\ IsFiniteSet(Ids)
        /\ Handles \subseteq Nat \ {0} /\ IsFiniteSet(Handles)
    BY MaintenanceAssumption DEF MaintenanceAssumption
  <1>2. Closing \in SUBSET Ids /\ Members \in SUBSET Handles
    BY DEF Closing, Members
  <1> QED
    BY <1>1, <1>2, FS_Subset

\* The types of what a sweep changes of the drive.
WorkTypeOK ==
    /\ work \in 0..MaintenanceWork
    /\ ran \subseteq {"cleanup", "scan"}
    /\ cut \in BOOLEAN

SocketTypeOK ==
    /\ sock \in [Ids -> {"none", "queued", "open", "fin", "timeWait", "aborted", "closed"}]
    /\ closeAt \in [Ids -> Times]
    /\ waitAt \in [Ids -> Times]

SweepTypeOK == cleanup \in Sweeps(Ids) /\ scan \in Sweeps(Handles)

LEMMA TimesFacts == Never \in Times /\ 0 \in Times /\ Times \subseteq Nat
  BY MaintenanceAssumption DEF MaintenanceAssumption, Never, Times

\* Sockets are released or reset by a sweep, and nothing else changes.
SocketsShrink ==
    \A i \in Ids :
        \/ /\ sock'[i] = sock[i] /\ waitAt'[i] = waitAt[i]
           /\ sock[i] = "closed" /\ Covered(cleanup, i) => Covered(cleanup, i)'
        \/ i \in Closing /\ sock'[i] \in {"none", "aborted"}

ScanKept == \A h \in Handles : Covered(scan, h) => Covered(scan, h)'

LEMMA ReapSweeps ==
    ASSUME TypeOK, NEW limit \in Nat, work + limit <= MaintenanceWork, ReapClosingTcp(limit)
    PROVE  /\ SocketTypeOK' /\ SweepTypeOK' /\ WorkTypeOK'
           /\ SocketsShrink /\ ScanKept
  <1> USE KeyFacts, TimesFacts
  <1>0. /\ cleanup \in Sweeps(Ids) /\ scan \in Sweeps(Handles)
        /\ work \in Nat /\ MaintenanceWork \in Nat
    BY MaintenanceAssumption DEF TypeOK, MaintenanceAssumption
  <1>1. CASE Closing = {} \/ limit = 0 \/ ~cleanup.pending
    <2>1. /\ cleanup' = IF Closing = {} THEN Cleared(cleanup) ELSE cleanup
          /\ UNCHANGED <<socketVars, scan, work, ran, cut>>
      BY <1>1 DEF ReapClosingTcp
    <2>2. cleanup' \in Sweeps(Ids)
      BY <1>0, <2>1, ClearedType
    <2>3. SocketsShrink
      <3>1. CASE Closing = {}
        BY <2>1, <3>1 DEF SocketsShrink, Closing, socketVars
      <3>2. CASE Closing # {}
        BY <2>1, <3>2 DEF SocketsShrink, Covered, socketVars
      <3> QED
        BY <3>1, <3>2
    <2> QED
      BY <1>0, <2>1, <2>2, <2>3
      DEF TypeOK, SocketTypeOK, SweepTypeOK, WorkTypeOK, ScanKept, Covered, socketVars
  <1>2. CASE ~(Closing = {} \/ limit = 0 \/ ~cleanup.pending)
    <2>1. PICK n \in Visits(cleanup, Closing, limit) :
            LET seen    == FirstDue(cleanup, Closing, n)
                reaped  == {i \in seen : sock[i] = "closed"}
                overdue == {i \in seen : sock[i] # "closed" /\ closeAt[i] = 0}
            IN  /\ sock' = [i \in Ids |-> CASE i \in reaped -> "none"
                                            [] i \in overdue -> "aborted"
                                            [] OTHER -> sock[i]]
                /\ closeAt' = [i \in Ids |->
                                  IF i \in reaped \cup overdue THEN Never ELSE closeAt[i]]
                /\ waitAt' = [i \in Ids |->
                                 IF i \in reaped \cup overdue THEN Never ELSE waitAt[i]]
                /\ cleanup' = IF reaped = Closing THEN Cleared(cleanup)
                              ELSE Advanced(cleanup, Closing, n)
                /\ scan' = IF reaped = {} THEN scan ELSE Requested(scan, Members)
                /\ work' = work + n
                /\ ran' = IF n > 0 THEN ran \cup {"cleanup"} ELSE ran
                /\ cut' = (cut \/ n < Min2(limit, Cardinality(Due(cleanup, Closing))))
      BY <1>2, ZenonT(60) DEF ReapClosingTcp
    <2> DEFINE seen == FirstDue(cleanup, Closing, n)
               reaped == {i \in seen : sock[i] = "closed"}
               overdue == {i \in seen : sock[i] # "closed" /\ closeAt[i] = 0}
    <2>2. n \in 0..limit
      BY VisitsType
    <2>3. seen \subseteq Closing
      BY FirstDueFinite
    <2> HIDE DEF seen
    <2>4. \A i \in Ids : /\ i \in reaped => sock'[i] = "none"
                         /\ i \in overdue => sock'[i] = "aborted"
                         /\ i \notin reaped \cup overdue =>
                                sock'[i] = sock[i] /\ waitAt'[i] = waitAt[i]
      BY <2>1 DEF seen
    <2>5. SocketTypeOK'
      BY <2>1 DEF seen, TypeOK, SocketTypeOK
    <2>6. WorkTypeOK'
      BY <1>0, <2>1, <2>2 DEF TypeOK, WorkTypeOK
    <2>7. /\ Advanced(cleanup, Closing, n) \in Sweeps(Ids)
          /\ \A k \in Closing \ seen :
                 Covered(cleanup, k) => Covered(Advanced(cleanup, Closing, n), k)
      <3>1. n \in Nat
        BY <2>2
      <3> QED
        BY <1>0, <3>1, SweepKeeps DEF seen
    <2>8. cleanup' = IF reaped = Closing THEN Cleared(cleanup) ELSE Advanced(cleanup, Closing, n)
      BY <2>1 DEF seen
    <2>9. SweepTypeOK' /\ ScanKept
      <3>1. scan' \in {scan, Requested(scan, Members)}
        BY <2>1
      <3>2. /\ Requested(scan, Members) \in Sweeps(Handles)
            /\ \A h \in Handles : Covered(scan, h) => Covered(Requested(scan, Members), h)
        BY <1>0, RequestedType
      <3>3. cleanup' \in Sweeps(Ids)
        BY <1>0, <2>7, <2>8, ClearedType
      <3> QED
        BY <1>0, <3>1, <3>2, <3>3 DEF SweepTypeOK, ScanKept, Covered
    <2>10. SocketsShrink
      <3> SUFFICES ASSUME NEW i \in Ids, i \notin reaped \cup overdue,
                          sock[i] = "closed", Covered(cleanup, i)
                   PROVE  Covered(cleanup, i)'
        BY <2>3, <2>4 DEF SocketsShrink
      <3>1. i \in Closing \ seen
        BY DEF Closing
      <3>2. reaped # Closing
        BY <3>1
      <3> QED
        BY <2>7, <2>8, <3>1, <3>2 DEF Covered
    <2> QED
      BY <2>5, <2>6, <2>9, <2>10
  <1> QED
    BY <1>1, <1>2

\* A queue with new children behind it.
LEMMA Joined ==
    ASSUME NEW S, NEW s \in Seq(S), NEW n \in Nat, NEW f \in [1..n -> S]
    PROVE  /\ f \in Seq(S) /\ Len(f) = n
           /\ s \o f \in Seq(S) /\ Len(s \o f) = Len(s) + n
           /\ \A a \in 1..Len(s) + n : (s \o f)[a] = IF a <= Len(s) THEN s[a] ELSE f[a - Len(s)]
  <1>1. f \in Seq(S) /\ Len(f) = n
    <2>1. f \in Seq(S)
      BY DEF Seq
    <2> QED
      BY <2>1
  <1> QED
    BY <1>1

LEMMA HeadTail ==
    ASSUME NEW S, NEW q \in Seq(S), q # <<>>
    PROVE  /\ Head(q) = q[1] /\ Len(q) \in Nat \ {0}
           /\ Tail(q) \in Seq(S) /\ Len(Tail(q)) = Len(q) - 1
           /\ \A a \in 1..Len(q) - 1 : Tail(q)[a] = q[a + 1]
  OBVIOUS

LEMMA LeastOfThree ==
    ASSUME NEW a \in Int, NEW b \in Int, NEW c \in Int
    PROVE  /\ Least({a, b, c}) \in Int
           /\ Least({a, b, c}) <= a /\ Least({a, b, c}) <= b /\ Least({a, b, c}) <= c
  <1>1. \E x \in {a, b, c} : \A y \in {a, b, c} : x <= y
    OBVIOUS
  <1> QED
    BY <1>1 DEF Least

Live == {i \in Ids : sock[i] # "none"}

\* The image of a function on 1..n has at most n elements.
LEMMA ImageCount ==
    ASSUME NEW n \in Nat, NEW S, NEW f \in [1..n -> S]
    PROVE  IsFiniteSet(Range(f)) /\ Cardinality(Range(f)) <= n
  <1>1. f \in Surjection(1..n, Range(f))
    BY DEF Surjection, Range
  <1>2. IsFiniteSet(1..n) /\ Cardinality(1..n) = n
    BY FS_Interval
  <1> QED
    BY <1>1, <1>2, FS_Surjection

\* The number of children a scan makes is within the limits.
LEMMA CapacityBounds ==
    ASSUME TypeOK, NEW ready, IsFiniteSet(ready),
           NEW n, n = IF Capacity < 0 THEN 0 ELSE Min2(Cardinality(ready), Capacity)
    PROVE  /\ n \in Nat
           /\ n > 0 => /\ Len(accepted) + n <= Backlog
                       /\ Cardinality(Live) + Cardinality(Members) + n <= SocketLimit
  <1>1. Live \in SUBSET Ids
    BY DEF Live
  <1>2. Cardinality(Live) \in Nat /\ Cardinality(Members) \in Nat /\ Cardinality(ready) \in Nat
    BY <1>1, KeyFacts, FS_Subset, FS_CardinalityType
  <1>3. Len(accepted) \in Nat /\ Backlog \in Nat /\ SocketLimit \in Nat
    BY MaintenanceAssumption DEF TypeOK, MaintenanceAssumption
  <1>4. Capacity = Least({Backlog - Len(accepted), SocketLimit - 1 - Cardinality(Live),
                          SocketLimit - Cardinality(Members) - Cardinality(Live)})
    BY DEF Capacity, Live
  <1>5. /\ Capacity \in Int
        /\ Capacity <= Backlog - Len(accepted)
        /\ Capacity <= SocketLimit - Cardinality(Members) - Cardinality(Live)
    <2>1. /\ Backlog - Len(accepted) \in Int /\ SocketLimit - 1 - Cardinality(Live) \in Int
          /\ SocketLimit - Cardinality(Members) - Cardinality(Live) \in Int
      BY <1>2, <1>3
    <2> QED
      BY <1>4, <2>1, LeastOfThree, ZenonT(60)
  <1>6. n \in Nat /\ (n > 0 => n <= Capacity)
    BY <1>2, <1>5 DEF Min2
  <1> QED
    BY <1>2, <1>3, <1>5, <1>6

\* What a scan of members does to sockets: new children are queued, and the first of
\* the queue may be accepted.
SocketsQueued ==
    \A i \in Ids : \/ sock'[i] = sock[i]
                   \/ sock[i] \in {"none", "queued"} /\ sock'[i] \in {"queued", "open"}

\* The queue grows at its end, and only its first child leaves, to be open.
QueueGrows ==
    accepted # <<>> => \/ PrefixOf(accepted, accepted')
                       \/ sock'[Head(accepted)] = "open" /\ PrefixOf(Tail(accepted), accepted')

\* n children, `kids', join the queue, and an accept takes the first of it.
Promoted(n, kids, accept) ==
    LET queue == accepted \o kids
        taken == accept /\ queue # <<>>
    IN  /\ IsInjective(kids)
        /\ n > 0 => /\ Len(accepted) + n <= Backlog
                    /\ Cardinality(Live) + Cardinality(Members) + n <= SocketLimit
        /\ accepted' = IF taken THEN Tail(queue) ELSE queue
        /\ sock' = [i \in Ids |-> IF taken /\ i = Head(queue) THEN "open"
                                  ELSE IF i \in Range(kids) THEN "queued"
                                  ELSE sock[i]]
        /\ accepting' = IF accept THEN ~taken ELSE accepting
        /\ ~accept => flagged' = (flagged \/ (n > 0 /\ accepting))

Free == {i \in Ids : sock[i] = "none"}

LEMMA RefreshKids ==
    ASSUME TypeOK, NEW seen \in SUBSET Members, NEW accept \in BOOLEAN,
           RefreshMembers(seen, accept)
    PROVE  \E n \in Nat : \E kids \in [1..n -> Free] : Promoted(n, kids, accept)
  <1> DEFINE ready == {h \in seen : pool[h] = "established"}
             n == IF Capacity < 0 THEN 0 ELSE Min2(Cardinality(ready), Capacity)
  <1>1. ready \in SUBSET Members
    OBVIOUS
  <1>2. IsFiniteSet(ready)
    BY <1>1, KeyFacts, FS_Subset
  <1>3. /\ n \in Nat
        /\ n > 0 => /\ Len(accepted) + n <= Backlog
                    /\ Cardinality(Live) + Cardinality(Members) + n <= SocketLimit
    BY <1>2, CapacityBounds
  <1>4. PICK kids \in {f \in [1..n -> Free] : IsInjective(f)} :
              LET queue == accepted \o kids
                  taken == accept /\ queue # <<>>
              IN  /\ accepted' = IF taken THEN Tail(queue) ELSE queue
                  /\ sock' = [i \in Ids |-> IF taken /\ i = Head(queue) THEN "open"
                                           ELSE IF i \in Range(kids) THEN "queued"
                                           ELSE sock[i]]
                  /\ accepting' = IF accept THEN ~taken ELSE accepting
    BY ZenonT(60) DEF RefreshMembers, Free
  <1>5. ~accept => flagged' = (flagged \/ (n > 0 /\ accepting))
    BY DEF RefreshMembers
  <1> HIDE DEF n
  <1> QED
    BY <1>3, <1>4, <1>5, ZenonT(60) DEF Promoted

\* The queue with its new children: each a socket of its own, queued or new.
LEMMA JoinedQueue ==
    ASSUME TypeOK, QueueInv, NEW n \in Nat, NEW kids \in [1..n -> Free], IsInjective(kids)
    PROVE  LET queue == accepted \o kids
           IN  /\ queue \in Seq(Ids) /\ Len(queue) = Len(accepted) + n
               /\ Len(accepted) \in Nat
               /\ \A a \in 1..Len(queue) :
                      IF a <= Len(accepted) THEN queue[a] = accepted[a] /\ sock[queue[a]] = "queued"
                      ELSE queue[a] \in Range(kids) /\ sock[queue[a]] = "none"
               /\ \A a, b \in 1..Len(queue) : queue[a] = queue[b] => a = b
  <1> DEFINE queue == accepted \o kids
  <1>0. accepted \in Seq(Ids) /\ kids \in [1..n -> Ids] /\ Len(accepted) \in Nat
    BY DEF TypeOK, Free
  <1>1. /\ queue \in Seq(Ids) /\ Len(queue) = Len(accepted) + n
        /\ \A a \in 1..Len(accepted) + n :
               queue[a] = IF a <= Len(accepted) THEN accepted[a] ELSE kids[a - Len(accepted)]
    BY <1>0, Joined
  <1> HIDE DEF queue
  <1>2. \A a \in 1..Len(accepted) : sock[accepted[a]] = "queued"
    BY DEF QueueInv
  <1>3. \A a \in 1..n : sock[kids[a]] = "none" /\ kids[a] \in Range(kids)
    BY DEF Free, Range
  <1>4. \A a \in 1..Len(queue) :
            IF a <= Len(accepted) THEN queue[a] = accepted[a] /\ sock[queue[a]] = "queued"
            ELSE queue[a] \in Range(kids) /\ sock[queue[a]] = "none"
    <2> TAKE a \in 1..Len(queue)
    <2>1. CASE a <= Len(accepted)
      BY <1>0, <1>1, <1>2, <2>1
    <2>2. CASE ~(a <= Len(accepted))
      <3>1. queue[a] = kids[a - Len(accepted)] /\ a - Len(accepted) \in 1..n
        BY <1>0, <1>1, <2>2
      <3> QED
        BY <1>3, <2>2, <3>1
    <2> QED
      BY <2>1, <2>2
  <1>5. ASSUME NEW a \in 1..Len(queue), NEW b \in 1..Len(queue), queue[a] = queue[b]
        PROVE  a = b
    <2>1. CASE a <= Len(accepted) /\ b <= Len(accepted)
      <3>1. accepted[a] = accepted[b] /\ a \in DOMAIN accepted /\ b \in DOMAIN accepted
        BY <1>0, <1>1, <1>5, <2>1
      <3> QED
        BY <3>1 DEF QueueInv, IsInjective
    <2>2. CASE ~(a <= Len(accepted)) /\ ~(b <= Len(accepted))
      <3>1. /\ kids[a - Len(accepted)] = kids[b - Len(accepted)]
            /\ a - Len(accepted) \in 1..n /\ b - Len(accepted) \in 1..n
        BY <1>0, <1>1, <1>5, <2>2
      <3>2. a - Len(accepted) = b - Len(accepted)
        BY <3>1 DEF IsInjective
      <3> QED
        BY <1>0, <1>1, <3>2
    <2>3. CASE a <= Len(accepted) /\ ~(b <= Len(accepted))
      BY <1>4, <1>5, <2>3
    <2>4. CASE ~(a <= Len(accepted)) /\ b <= Len(accepted)
      BY <1>4, <1>5, <2>4
    <2> QED
      BY <2>1, <2>2, <2>3, <2>4
  <1> QED
    BY <1>0, <1>1, <1>4, <1>5 DEF queue

LEMMA PromotedQueue ==
    ASSUME TypeOK, QueueInv, NEW n \in Nat, NEW kids \in [1..n -> Free], NEW accept \in BOOLEAN,
           Promoted(n, kids, accept)
    PROVE  /\ accepted' \in Seq(Ids) /\ accepting' \in BOOLEAN
           /\ sock' \in [Ids -> {"none", "queued", "open", "fin", "timeWait", "aborted", "closed"}]
           /\ QueueInv'
           /\ SocketsQueued
           /\ QueueGrows
           /\ Len(accepted') <= Len(accepted) + n
           /\ Live' \subseteq Live \cup Range(kids)
           /\ ~accept => accepted' = accepted \o kids /\ accepting' = accepting
           /\ accept /\ accepting' => accepted' = <<>>
  <1> DEFINE queue == accepted \o kids
             taken == accept /\ queue # <<>>
  <1>1. /\ queue \in Seq(Ids) /\ Len(queue) = Len(accepted) + n /\ Len(accepted) \in Nat
        /\ \A a \in 1..Len(queue) :
               IF a <= Len(accepted) THEN queue[a] = accepted[a] /\ sock[queue[a]] = "queued"
               ELSE queue[a] \in Range(kids) /\ sock[queue[a]] = "none"
        /\ \A a, b \in 1..Len(queue) : queue[a] = queue[b] => a = b
    <2>1. IsInjective(kids)
      BY DEF Promoted
    <2> QED
      BY <2>1, JoinedQueue
  <1>2. /\ accepted' = IF taken THEN Tail(queue) ELSE queue
        /\ sock' = [i \in Ids |-> IF taken /\ i = Head(queue) THEN "open"
                                  ELSE IF i \in Range(kids) THEN "queued"
                                  ELSE sock[i]]
        /\ accepting' = IF accept THEN ~taken ELSE accepting
    BY DEF Promoted
  <1>3. /\ ~accept => accepted' = accepted \o kids /\ accepting' = accepting
        /\ accept /\ accepting' => accepted' = <<>>
    BY <1>2
  <1> HIDE DEF queue
  <1>4. sock \in [Ids -> {"none", "queued", "open", "fin", "timeWait", "aborted", "closed"}]
    BY DEF TypeOK
  <1>5. \A i \in Range(kids) : i \in Ids /\ sock[i] = "none"
    BY DEF Range, Free
  <1>6. \A a \in 1..Len(queue) : queue[a] \in Ids
    BY <1>1
  <1>7. CASE taken
    <2>1. /\ Head(queue) = queue[1] /\ Len(queue) \in Nat \ {0}
          /\ Tail(queue) \in Seq(Ids) /\ Len(Tail(queue)) = Len(queue) - 1
          /\ \A a \in 1..Len(queue) - 1 : Tail(queue)[a] = queue[a + 1]
      BY <1>1, <1>7, HeadTail
    <2>2. accepted' \in Seq(Ids) /\ Len(accepted') = Len(queue) - 1
      BY <1>2, <1>7, <2>1
    <2>3. \A a \in 1..Len(accepted') : /\ accepted'[a] = queue[a + 1]
                                       /\ a + 1 \in 1..Len(queue) /\ a + 1 # 1
      BY <1>2, <1>7, <2>1, <2>2
    <2>4. 1 \in 1..Len(queue) /\ sock[queue[1]] \in {"none", "queued"} /\ queue[1] \in Ids
      BY <1>1, <1>6, <2>1
    <2>5. \A i \in Ids : sock'[i] = IF i = queue[1] THEN "open"
                                    ELSE IF i \in Range(kids) THEN "queued" ELSE sock[i]
      BY <1>2, <1>7, <2>1
    <2>6. QueueInv'
      <3>1. \A a, b \in DOMAIN accepted' : accepted'[a] = accepted'[b] => a = b
        <4> SUFFICES ASSUME NEW a \in DOMAIN accepted', NEW b \in DOMAIN accepted',
                            accepted'[a] = accepted'[b]
                     PROVE  a = b
          OBVIOUS
        <4>1. a \in 1..Len(accepted') /\ b \in 1..Len(accepted')
          BY <2>2
        <4>2. a + 1 = b + 1
          BY <1>1, <2>3, <4>1
        <4> QED
          BY <4>1, <4>2
      <3>2. ASSUME NEW a \in 1..Len(accepted') PROVE sock'[accepted'[a]] = "queued"
        <4>1. /\ accepted'[a] = queue[a + 1] /\ queue[a + 1] # queue[1]
              /\ queue[a + 1] \in Ids /\ a + 1 \in 1..Len(queue)
          BY <1>1, <1>6, <2>3, <2>4
        <4>2. queue[a + 1] \in Range(kids) \/ sock[queue[a + 1]] = "queued"
          BY <1>1, <4>1
        <4> QED
          BY <2>5, <4>1, <4>2
      <3> QED
        BY <3>1, <3>2 DEF QueueInv, IsInjective
    <2>7. SocketsQueued
      BY <1>5, <2>4, <2>5 DEF SocketsQueued
    <2>8. QueueGrows
      <3> SUFFICES ASSUME accepted # <<>>
                   PROVE  sock'[Head(accepted)] = "open" /\ PrefixOf(Tail(accepted), accepted')
        BY DEF QueueGrows
      <3>1. /\ accepted \in Seq(Ids) /\ Head(accepted) = accepted[1] /\ Len(accepted) \in Nat \ {0}
            /\ Tail(accepted) \in Seq(Ids) /\ Len(Tail(accepted)) = Len(accepted) - 1
            /\ \A a \in 1..Len(accepted) - 1 : Tail(accepted)[a] = accepted[a + 1]
        <4>1. accepted \in Seq(Ids)
          BY DEF TypeOK
        <4> QED
          BY <4>1, HeadTail
      <3>2. Head(accepted) = queue[1]
        BY <1>1, <2>4, <3>1
      <3>3. Len(Tail(accepted)) <= Len(accepted')
        BY <1>1, <2>2, <3>1
      <3>4. \A a \in 1..Len(Tail(accepted)) : accepted'[a] = Tail(accepted)[a]
        <4> TAKE a \in 1..Len(Tail(accepted))
        <4>1. a \in 1..Len(accepted') /\ a + 1 <= Len(accepted) /\ a + 1 \in 1..Len(queue)
          BY <1>1, <2>2, <3>1
        <4> QED
          BY <1>1, <2>3, <3>1, <4>1
      <3> QED
        BY <2>4, <2>5, <3>2, <3>3, <3>4 DEF PrefixOf
    <2>9. Live' \subseteq Live \cup Range(kids)
      <3>1. queue[1] \in Live \cup Range(kids)
        BY <1>1, <1>6, <2>4 DEF Live
      <3> QED
        BY <2>5, <3>1 DEF Live
    <2>10. sock' \in [Ids -> {"none", "queued", "open", "fin", "timeWait", "aborted", "closed"}]
      BY <1>2, <1>4
    <2>11. accepting' \in BOOLEAN /\ Len(accepted') <= Len(accepted) + n
      <3>1. accepting' = FALSE
        BY <1>2, <1>7
      <3>2. Len(accepted') <= Len(accepted) + n
        BY <1>1, <2>2
      <3> QED
        BY <3>1, <3>2
    <2> QED
      BY <1>3, <2>2, <2>6, <2>7, <2>8, <2>9, <2>10, <2>11
  <1>8. CASE ~taken
    <2>1. accepted' = queue
      BY <1>2, <1>8
    <2>2. \A i \in Ids : sock'[i] = IF i \in Range(kids) THEN "queued" ELSE sock[i]
      BY <1>2, <1>8
    <2>3. QueueInv'
      <3>1. \A a, b \in DOMAIN accepted' : accepted'[a] = accepted'[b] => a = b
        BY <1>1, <2>1
      <3>2. ASSUME NEW a \in 1..Len(accepted') PROVE sock'[accepted'[a]] = "queued"
        <4>1. queue[a] \in Range(kids) \/ sock[queue[a]] = "queued"
          BY <1>1, <2>1
        <4> QED
          BY <1>6, <2>1, <2>2, <4>1
      <3> QED
        BY <3>1, <3>2 DEF QueueInv, IsInjective
    <2>4. SocketsQueued
      BY <1>5, <2>2 DEF SocketsQueued
    <2>5. QueueGrows
      <3>1. accepted \in Seq(Ids) /\ Len(accepted) <= Len(queue)
        BY <1>1 DEF TypeOK
      <3>2. \A a \in 1..Len(accepted) : queue[a] = accepted[a]
        BY <1>1
      <3>3. PrefixOf(accepted, queue)
        BY <3>1, <3>2 DEF PrefixOf
      <3> QED
        BY <2>1, <3>3 DEF QueueGrows
    <2>6. Live' \subseteq Live \cup Range(kids)
      BY <2>2 DEF Live
    <2>7. sock' \in [Ids -> {"none", "queued", "open", "fin", "timeWait", "aborted", "closed"}]
      BY <1>2, <1>4
    <2>8. accepting' \in BOOLEAN /\ Len(accepted') <= Len(accepted) + n
      BY <1>1, <1>2, <2>1 DEF TypeOK
    <2> QED
      BY <1>1, <1>3, <2>1, <2>3, <2>4, <2>5, <2>6, <2>7, <2>8
  <1> QED
    BY <1>7, <1>8

ListenerTypeOK ==
    /\ pool \in [Handles -> {"none", "listen", "half", "established", "dead"}]
    /\ accepted \in Seq(Ids)
    /\ accepting \in BOOLEAN
    /\ flagged \in BOOLEAN

LEMMA LiveFacts ==
    /\ Live \subseteq Ids /\ IsFiniteSet(Live) /\ Cardinality(Live) \in Nat
    /\ Cardinality(Members) \in Nat
    /\ Backlog \in Nat /\ SocketLimit \in Nat /\ MaintenanceWork \in Nat \ {0}
  <1>1. Live \in SUBSET Ids
    BY DEF Live
  <1>2. Backlog \in Nat /\ SocketLimit \in Nat /\ MaintenanceWork \in Nat \ {0}
    BY MaintenanceAssumption DEF MaintenanceAssumption
  <1> QED
    BY <1>1, <1>2, KeyFacts, FS_Subset, FS_CardinalityType

\* New children leave the limits in place: there are at most n, and room for them.
LEMMA PromotedLimits ==
    ASSUME TypeOK, QueueInv, WithinLimits, NEW n \in Nat, NEW kids \in [1..n -> Free],
           NEW accept \in BOOLEAN, Promoted(n, kids, accept), Members' = Members
    PROVE  WithinLimits'
  <1>1. /\ accepted' \in Seq(Ids) /\ Len(accepted') <= Len(accepted) + n
        /\ Live' \subseteq Live \cup Range(kids)
    BY PromotedQueue
  <1>2. /\ Len(accepted') \in Nat /\ Len(accepted) \in Nat
    BY <1>1 DEF TypeOK
  <1>3. n > 0 => /\ Len(accepted) + n <= Backlog
                 /\ Cardinality(Live) + Cardinality(Members) + n <= SocketLimit
    BY DEF Promoted
  <1>4. Len(accepted) <= Backlog /\ Cardinality(Live) + Cardinality(Members) <= SocketLimit
    BY DEF WithinLimits, Live
  <1>5. IsFiniteSet(Range(kids)) /\ Cardinality(Range(kids)) <= n /\ Cardinality(Range(kids)) \in Nat
    BY ImageCount, FS_CardinalityType
  <1>6. /\ IsFiniteSet(Live \cup Range(kids))
        /\ Cardinality(Live \cup Range(kids)) \in Nat
        /\ Cardinality(Live \cup Range(kids)) <= Cardinality(Live) + Cardinality(Range(kids))
    <2>1. Live \cap Range(kids) \in SUBSET Live
      OBVIOUS
    <2>2. Cardinality(Live \cap Range(kids)) \in Nat
      BY <2>1, LiveFacts, FS_Subset, FS_CardinalityType
    <2>3. /\ IsFiniteSet(Live \cup Range(kids))
          /\ Cardinality(Live \cup Range(kids))
                 = Cardinality(Live) + Cardinality(Range(kids)) - Cardinality(Live \cap Range(kids))
      BY <1>5, LiveFacts, FS_Union
    <2>4. Cardinality(Live \cup Range(kids)) \in Nat
      BY <2>3, FS_CardinalityType
    <2> QED
      BY <1>5, <2>2, <2>3, <2>4, LiveFacts
  <1>7. Cardinality(Live') \in Nat /\ Cardinality(Live') <= Cardinality(Live \cup Range(kids))
    BY <1>1, <1>6, FS_Subset, FS_CardinalityType
  <1>8. Len(accepted') <= Backlog
    BY <1>1, <1>2, <1>3, <1>4, LiveFacts
  <1>9. Cardinality(Live') + Cardinality(Members) <= SocketLimit
    BY <1>3, <1>4, <1>5, <1>6, <1>7, LiveFacts
  <1> QED
    BY <1>8, <1>9 DEF WithinLimits, Live

\* refresh_listener_member: no member that is established or dead is left of those it
\* looked at, and the listener keeps its promises.
LEMMA RefreshFacts ==
    ASSUME TypeOK, QueueInv, WithinLimits, ChildWakesAccept,
           NEW seen \in SUBSET Members, NEW accept \in BOOLEAN, RefreshMembers(seen, accept)
    PROVE  /\ SocketTypeOK' /\ ListenerTypeOK'
           /\ QueueInv' /\ WithinLimits' /\ ChildWakesAccept'
           /\ SocketsQueued /\ QueueGrows
           /\ UNCHANGED <<closeAt, waitAt>>
           /\ Members' = Members
           /\ \A h \in Handles : pool'[h] \in {"established", "dead"} =>
                                     pool'[h] = pool[h] /\ h \notin seen
  <1>0. PICK n \in Nat : \E kids \in [1..n -> Free] : Promoted(n, kids, accept)
    BY RefreshKids
  <1>1. PICK kids \in [1..n -> Free] : Promoted(n, kids, accept)
    BY <1>0
  <1>2. /\ accepted' \in Seq(Ids) /\ accepting' \in BOOLEAN
        /\ sock' \in [Ids -> {"none", "queued", "open", "fin", "timeWait", "aborted", "closed"}]
        /\ QueueInv' /\ SocketsQueued /\ QueueGrows
        /\ ~accept => accepted' = accepted \o kids /\ accepting' = accepting
        /\ accept /\ accepting' => accepted' = <<>>
    BY <1>1, PromotedQueue
  <1>3. pool' = [h \in Handles |->
                    IF h \in seen /\ pool[h] \in {"established", "dead"} THEN "listen" ELSE pool[h]]
    BY DEF RefreshMembers
  <1>4. UNCHANGED <<closeAt, waitAt>>
    BY DEF RefreshMembers
  <1>5. pool' \in [Handles -> {"none", "listen", "half", "established", "dead"}]
    BY <1>3 DEF TypeOK
  <1>6. Members' = Members
    BY <1>3 DEF Members
  <1>7. \A h \in Handles : pool'[h] \in {"established", "dead"} =>
                               pool'[h] = pool[h] /\ h \notin seen
    BY <1>3
  <1>8. flagged' \in BOOLEAN
    BY <1>2 DEF RefreshMembers, TypeOK
  <1>9. WithinLimits'
    BY <1>1, <1>6, PromotedLimits
  <1>10. ChildWakesAccept'
    <2>1. CASE accept
      BY <1>2, <2>1 DEF ChildWakesAccept
    <2>2. CASE ~accept
      <3> SUFFICES ASSUME accepting', accepted' # <<>> PROVE flagged'
        BY DEF ChildWakesAccept
      <3>1. accepting /\ accepted' = accepted \o kids /\ flagged' = (flagged \/ (n > 0 /\ accepting))
        BY <1>1, <1>2, <2>2 DEF Promoted
      <3>2. CASE n > 0
        BY <3>1, <3>2
      <3>3. CASE n = 0
        <4>1. accepted \in Seq(Ids) /\ kids \in [1..n -> Ids]
          BY DEF TypeOK, Free
        <4>2. Len(accepted') = Len(accepted) + 0
          BY <3>1, <3>3, <4>1, Joined
        <4>3. accepted # <<>>
          BY <1>2, <4>1, <4>2
        <4> QED
          BY <3>1, <4>3 DEF ChildWakesAccept
      <3> QED
        BY <3>2, <3>3
    <2> QED
      BY <2>1, <2>2
  <1> QED
    BY <1>2, <1>4, <1>5, <1>6, <1>7, <1>8, <1>9, <1>10 DEF SocketTypeOK, ListenerTypeOK, TypeOK

\* refresh_listeners: the members it did not get to are still ahead of a scan.
LEMMA RefreshScans ==
    ASSUME TypeOK, ScanInv, QueueInv, WithinLimits, ChildWakesAccept,
           NEW limit \in Nat, work + limit <= MaintenanceWork, RefreshListeners(limit)
    PROVE  /\ SocketTypeOK' /\ ListenerTypeOK' /\ WorkTypeOK' /\ scan' \in Sweeps(Handles)
           /\ ScanInv' /\ QueueInv' /\ WithinLimits' /\ ChildWakesAccept'
           /\ SocketsQueued /\ QueueGrows
           /\ UNCHANGED <<closeAt, waitAt>>
  <1> USE KeyFacts
  <1>0. scan \in Sweeps(Handles) /\ work \in Nat /\ MaintenanceWork \in Nat
    BY LiveFacts DEF TypeOK
  <1>1. CASE ~Listening \/ limit = 0 \/ ~scan.pending
    <2>1. /\ scan' = IF ~Listening THEN Cleared(scan) ELSE scan
          /\ UNCHANGED <<socketVars, listenerVars, work, ran, cut>>
      BY <1>1 DEF RefreshListeners
    <2>2. scan' \in Sweeps(Handles)
      BY <1>0, <2>1, ClearedType
    <2>3. ScanInv'
      <3>1. CASE Listening
        BY <2>1, <3>1 DEF ScanInv, Covered, listenerVars
      <3>2. CASE ~Listening
        <4>1. \A h \in Handles : pool'[h] = "none"
          BY <2>1, <3>2 DEF Listening, Members, listenerVars
        <4> QED
          BY <4>1 DEF ScanInv
      <3> QED
        BY <3>1, <3>2
    <2>4. SocketTypeOK' /\ ListenerTypeOK' /\ WorkTypeOK'
      BY <2>1 DEF TypeOK, SocketTypeOK, ListenerTypeOK, WorkTypeOK, socketVars, listenerVars
    <2>5. QueueInv' /\ ChildWakesAccept' /\ SocketsQueued /\ UNCHANGED <<closeAt, waitAt>>
      BY <2>1 DEF QueueInv, ChildWakesAccept, SocketsQueued, socketVars, listenerVars
    <2>6. WithinLimits'
      BY <2>1 DEF WithinLimits, Members, socketVars, listenerVars
    <2>7. QueueGrows
      BY <2>1 DEF QueueGrows, PrefixOf, TypeOK, listenerVars
    <2> QED
      BY <2>2, <2>3, <2>4, <2>5, <2>6, <2>7
  <1>2. CASE ~(~Listening \/ limit = 0 \/ ~scan.pending)
    <2>1. PICK n \in Visits(scan, Members, limit) :
              /\ RefreshMembers(FirstDue(scan, Members, n), FALSE)
              /\ scan' = Advanced(scan, Members, n)
              /\ work' = work + n
              /\ ran' = IF n > 0 THEN ran \cup {"scan"} ELSE ran
              /\ cut' = (cut \/ n < Min2(limit, Cardinality(Due(scan, Members))))
      BY <1>2, ZenonT(60) DEF RefreshListeners
    <2>2. n \in 0..limit
      BY VisitsType
    <2>3. FirstDue(scan, Members, n) \in SUBSET Members
      BY FirstDueFinite
    <2>4. /\ SocketTypeOK' /\ ListenerTypeOK'
          /\ QueueInv' /\ WithinLimits' /\ ChildWakesAccept'
          /\ SocketsQueued /\ QueueGrows
          /\ UNCHANGED <<closeAt, waitAt>>
          /\ Members' = Members
          /\ \A h \in Handles : pool'[h] \in {"established", "dead"} =>
                                    pool'[h] = pool[h] /\ h \notin FirstDue(scan, Members, n)
      BY <2>1, <2>3, RefreshFacts
    <2>5. /\ Advanced(scan, Members, n) \in Sweeps(Handles)
          /\ \A h \in Members \ FirstDue(scan, Members, n) :
                 Covered(scan, h) => Covered(Advanced(scan, Members, n), h)
      <3>1. n \in Nat
        BY <2>2
      <3> QED
        BY <1>0, <3>1, SweepKeeps
    <2>6. ScanInv'
      BY <2>1, <2>4, <2>5 DEF ScanInv, Members, Covered
    <2>7. WorkTypeOK'
      <3>1. work' \in 0..MaintenanceWork
        BY <1>0, <2>1, <2>2
      <3> QED
        BY <2>1, <3>1 DEF TypeOK, WorkTypeOK
    <2> QED
      BY <2>1, <2>4, <2>5, <2>6, <2>7
  <1> QED
    BY <1>1, <1>2

-----------------------------------------------------------------------------
(* What the listener promises, when no child comes or goes *)

\* A socket that changes is neither free nor in the queue.
SocketsKept == \A i \in Ids : sock[i] \in {"none", "queued"} => sock'[i] = sock[i]

LEMMA QueueKept ==
    ASSUME TypeOK, QueueInv, ChildWakesAccept, WithinLimits, SocketsKept,
           accepted' = accepted, accepting' = accepting, accepting /\ flagged => flagged',
           Members' = Members
    PROVE  QueueInv' /\ ChildWakesAccept' /\ WithinLimits' /\ QueueGrows
  <1>0. accepted \in Seq(Ids)
    BY DEF TypeOK
  <1>1. QueueInv'
    <2>1. \A a \in 1..Len(accepted) : accepted[a] \in Ids
      BY <1>0
    <2> QED
      BY <2>1 DEF QueueInv, SocketsKept
  <1>2. ChildWakesAccept'
    BY DEF ChildWakesAccept
  <1>3. Live' \in SUBSET Live
    BY DEF Live, SocketsKept
  <1>4. Cardinality(Live') \in Nat /\ Cardinality(Live') <= Cardinality(Live)
    BY <1>3, LiveFacts, FS_Subset, FS_CardinalityType
  <1>5. Len(accepted) <= Backlog /\ Cardinality(Live) + Cardinality(Members) <= SocketLimit
    BY DEF WithinLimits, Live
  <1>6. Cardinality(Live') + Cardinality(Members') <= SocketLimit
    BY <1>4, <1>5, LiveFacts
  <1>7. WithinLimits'
    BY <1>5, <1>6 DEF WithinLimits, Live
  <1>8. QueueGrows
    BY <1>0 DEF QueueGrows, PrefixOf
  <1> QED
    BY <1>1, <1>2, <1>7, <1>8

-----------------------------------------------------------------------------
(* The calls that drive *)

\* A drive begins with all its work to do.
FreshInv == phase = "cleanup" => work = 0

ListenerInv ==
    TypeOK /\ FreshInv /\ ScanInv /\ QueueInv /\ ChildWakesAccept /\ WithinLimits

SweptInv == CleanupInv /\ DueInv

DriveTypeOK ==
    /\ unsent \in BOOLEAN
    /\ room \in BOOLEAN
    /\ scheduled \in Times
    /\ more \in BOOLEAN
    /\ phase \in {"idle", "cleanup", "scan", "egress", "reap", "refresh", "end"}
    /\ WorkTypeOK
    /\ tried \in BOOLEAN
    /\ remain \in BOOLEAN
    /\ deferred \in BOOLEAN
    /\ reached \in BOOLEAN

LEMMA TypeParts ==
    TypeOK <=> SocketTypeOK /\ ListenerTypeOK /\ SweepTypeOK /\ DriveTypeOK
  BY DEF TypeOK, SocketTypeOK, ListenerTypeOK, SweepTypeOK, DriveTypeOK, WorkTypeOK

LEMMA TypePartsNext ==
    TypeOK' <=> SocketTypeOK' /\ ListenerTypeOK' /\ SweepTypeOK' /\ DriveTypeOK'
  BY DEF TypeOK, SocketTypeOK, ListenerTypeOK, SweepTypeOK, DriveTypeOK, WorkTypeOK

\* A drive begins with a sweep that covers what s covers.
LEMMA BeginDriveFacts ==
    ASSUME TypeOK, NEW c, NEW at, NEW s \in Sweeps(Ids), NEW l \in Sweeps(Handles),
           NEW credit \in BOOLEAN, BeginDrive(c, at, s, l, credit), unsent' \in BOOLEAN
    PROVE  /\ SweepTypeOK' /\ DriveTypeOK' /\ FreshInv'
           /\ scan' = l
           /\ \A i \in Ids : Covered(s, i) => Covered(cleanup, i)'
  <1>1. cleanup' \in {s, Requested(s, c)}
    BY DEF BeginDrive
  <1>2. /\ Requested(s, c) \in Sweeps(Ids)
        /\ \A i \in Ids : Covered(s, i) => Covered(Requested(s, c), i)
    BY KeyFacts, RequestedType
  <1>3. cleanup' \in Sweeps(Ids) /\ \A i \in Ids : Covered(s, i) => Covered(cleanup, i)'
    BY <1>1, <1>2 DEF Covered
  <1>4. scan' = l /\ FreshInv'
    BY DEF BeginDrive, FreshInv
  <1>5. room' \in BOOLEAN /\ reached' \in BOOLEAN /\ tried' \in BOOLEAN /\ remain' \in BOOLEAN
    BY DEF BeginDrive
  <1>6. cut' \in BOOLEAN /\ deferred' \in BOOLEAN
    BY MaintenanceAssumption DEF BeginDrive, MaintenanceAssumption
  <1>7. work' \in 0..MaintenanceWork /\ ran' \subseteq {"cleanup", "scan"}
    BY LiveFacts DEF BeginDrive
  <1>8. scheduled' \in Times /\ more' \in BOOLEAN /\ phase' = "cleanup"
    BY DEF BeginDrive, TypeOK, pollVars
  <1> QED
    BY <1>3, <1>4, <1>5, <1>6, <1>7, <1>8 DEF SweepTypeOK, DriveTypeOK, WorkTypeOK

\* Every socket whose TIME-WAIT is over is known to the drive that begins.
LEMMA BeginDriveDue ==
    ASSUME TypeOK, DueInv, Idle, NEW c, Closing \subseteq c, NEW at, NEW s, NEW l, NEW credit,
           BeginDrive(c, at, s, l, credit), Expired' \subseteq Expired
    PROVE  DueInv'
  <1>1. phase' = "cleanup" /\ ~tried' /\ reached' = (c # {} /\ scheduled = 0) /\ scheduled' = scheduled
    BY DEF BeginDrive, pollVars
  <1>2. Expired' # {} => c # {} /\ scheduled = 0
    BY DEF DueInv, Idle, Expired, Closing
  <1> QED
    BY <1>1, <1>2 DEF DueInv, Idle

LEMMA PollFrame ==
    ASSUME ListenerInv, NEW credit \in BOOLEAN,
           BeginDrive(Closing, closeAt, cleanup, scan, credit),
           UNCHANGED <<socketVars, listenerVars>>, unsent' \in BOOLEAN
    PROVE  /\ ListenerInv' /\ QueueGrows
           /\ Idle /\ SweptInv => SweptInv'
  <1>0. TypeOK /\ cleanup \in Sweeps(Ids) /\ scan \in Sweeps(Handles)
    BY DEF ListenerInv, TypeOK
  <1>1. /\ SweepTypeOK' /\ DriveTypeOK' /\ FreshInv' /\ scan' = scan
        /\ \A i \in Ids : Covered(cleanup, i) => Covered(cleanup, i)'
    BY <1>0, BeginDriveFacts
  <1>2. TypeOK'
    <2>1. SocketTypeOK' /\ ListenerTypeOK'
      BY <1>0, TypeParts DEF SocketTypeOK, ListenerTypeOK, socketVars, listenerVars
    <2> QED
      BY <1>1, <2>1, TypePartsNext
  <1>3. ScanInv'
    BY <1>1 DEF ListenerInv, ScanInv, Covered, listenerVars
  <1>4. QueueInv' /\ ChildWakesAccept' /\ WithinLimits' /\ QueueGrows
    <2>1. SocketsKept /\ Members' = Members
      BY DEF SocketsKept, Members, socketVars, listenerVars
    <2> QED
      BY <1>0, <2>1, QueueKept DEF ListenerInv, listenerVars
  <1>5. ASSUME Idle, SweptInv PROVE SweptInv'
    <2>1. CleanupInv'
      BY <1>1, <1>5 DEF SweptInv, CleanupInv, socketVars
    <2>2. Expired' = Expired
      BY DEF Expired, socketVars
    <2> QED
      BY <1>0, <1>5, <2>1, <2>2, BeginDriveDue DEF SweptInv
  <1> QED
    BY <1>1, <1>2, <1>3, <1>4, <1>5 DEF ListenerInv

\* A packet moves one closing socket on, at most, and one member.
LEMMA PacketMoves ==
    ASSUME TypeOK, Packet
    PROVE  /\ SocketTypeOK' /\ ListenerTypeOK'
           /\ Members' = Members
           /\ accepting /\ flagged => flagged'
           /\ \A i \in Ids : \/ sock'[i] = sock[i] /\ waitAt'[i] = waitAt[i]
                             \/ i \in Closing /\ sock'[i] \in {"timeWait", "closed"} /\ waitAt'[i] # 0
  <1>0. Wait \in Times \ {0} /\ Never \in Times \ {0}
    BY SMTT(30), MaintenanceAssumption DEF MaintenanceAssumption, Times, Never
  <1>1. UNCHANGED <<closeAt, accepted, accepting, unsent>>
    BY DEF Packet
  <1>2. CASE UNCHANGED <<sock, waitAt, pool, flagged>>
    BY <1>1, <1>2 DEF TypeOK, SocketTypeOK, ListenerTypeOK, Members
  <1>3. CASE \E i \in Closing, at \in {Wait, Never} :
                /\ sock[i] \in {"fin", "timeWait"}
                /\ sock' = [sock EXCEPT ![i] = IF at = Wait THEN "timeWait" ELSE "closed"]
                /\ waitAt' = [waitAt EXCEPT ![i] = at]
                /\ UNCHANGED <<pool, flagged>>
    <2>1. PICK i \in Closing, at \in {Wait, Never} :
                /\ sock[i] \in {"fin", "timeWait"}
                /\ sock' = [sock EXCEPT ![i] = IF at = Wait THEN "timeWait" ELSE "closed"]
                /\ waitAt' = [waitAt EXCEPT ![i] = at]
                /\ UNCHANGED <<pool, flagged>>
      BY <1>3
    <2>2. i \in Ids /\ at \in Times /\ at # 0
      BY <1>0 DEF Closing
    <2>3. SocketTypeOK' /\ ListenerTypeOK' /\ Members' = Members
      BY <1>1, <2>1, <2>2 DEF TypeOK, SocketTypeOK, ListenerTypeOK, Members
    <2>4. \A j \in Ids : j # i => sock'[j] = sock[j] /\ waitAt'[j] = waitAt[j]
      BY <2>1, <2>2 DEF TypeOK
    <2>5. sock'[i] \in {"timeWait", "closed"} /\ waitAt'[i] = at
      BY <2>1, <2>2 DEF TypeOK
    <2> QED
      BY <2>1, <2>2, <2>3, <2>4, <2>5
  <1>4. CASE \E h \in Handles, m \in MemberSteps :
                /\ pool[h] = m[1]
                /\ pool' = [pool EXCEPT ![h] = m[2]]
                /\ flagged' \in {flagged, accepting}
                /\ UNCHANGED <<sock, waitAt>>
    <2>1. PICK h \in Handles, m \in MemberSteps :
                /\ pool[h] = m[1]
                /\ pool' = [pool EXCEPT ![h] = m[2]]
                /\ flagged' \in {flagged, accepting}
                /\ UNCHANGED <<sock, waitAt>>
      BY <1>4
    <2>2. /\ m[1] \in {"listen", "half", "established", "dead"}
          /\ m[2] \in {"listen", "half", "established", "dead"}
      BY SMTT(30) DEF MemberSteps
    <2>3. pool' \in [Handles -> {"none", "listen", "half", "established", "dead"}]
      BY <2>1, <2>2 DEF TypeOK
    <2>4. Members' = Members
      BY <2>1, <2>2 DEF TypeOK, Members
    <2>5. flagged' \in BOOLEAN /\ (accepting /\ flagged => flagged')
      BY <2>1 DEF TypeOK
    <2> QED
      BY <1>1, <2>1, <2>3, <2>4, <2>5 DEF TypeOK, SocketTypeOK, ListenerTypeOK
  <1> QED
    BY <1>2, <1>3, <1>4, ZenonT(60) DEF Packet

LEMMA PacketStep ==
    ASSUME ListenerInv, Packet
    PROVE  /\ ListenerInv' /\ QueueGrows
           /\ SweptInv => SweptInv'
  <1> DEFINE s == Requested(cleanup, Closing)
             l == Requested(scan, Members)
  <1>0. TypeOK /\ cleanup \in Sweeps(Ids) /\ scan \in Sweeps(Handles) /\ room \in BOOLEAN
    BY DEF ListenerInv, TypeOK
  <1>1. /\ Closing # {} => \A i \in Ids : Covered(s, i)
        /\ Members # {} => \A h \in Handles : Covered(l, h)
    BY <1>0, KeyFacts, RequestedType, RequestedCovers
  <1>2. s \in Sweeps(Ids) /\ l \in Sweeps(Handles)
    BY <1>0, KeyFacts, RequestedType
  <1>3. /\ Idle /\ BeginDrive(Closing, closeAt, s, l, room)
        /\ accepted' = accepted /\ accepting' = accepting /\ unsent' = unsent
    BY DEF Packet
  <1>4. /\ SocketTypeOK' /\ ListenerTypeOK' /\ Members' = Members
        /\ accepting /\ flagged => flagged'
        /\ \A i \in Ids : \/ sock'[i] = sock[i] /\ waitAt'[i] = waitAt[i]
                          \/ i \in Closing /\ sock'[i] \in {"timeWait", "closed"} /\ waitAt'[i] # 0
    BY <1>0, PacketMoves
  <1> HIDE DEF s, l
  <1>5. /\ SweepTypeOK' /\ DriveTypeOK' /\ FreshInv' /\ scan' = l
        /\ \A i \in Ids : Covered(s, i) => Covered(cleanup, i)'
    <2>1. unsent' \in BOOLEAN
      BY <1>0, <1>3 DEF TypeOK
    <2> QED
      BY <1>0, <1>2, <1>3, <2>1, BeginDriveFacts
  <1>6. TypeOK'
    BY <1>4, <1>5, TypePartsNext
  <1>7. ScanInv'
    <2>1. \A h \in Handles : pool'[h] \in {"established", "dead"} => Members # {}
      BY <1>4 DEF Members
    <2> QED
      BY <1>1, <1>5, <2>1 DEF ScanInv, Covered
  <1>8. QueueInv' /\ ChildWakesAccept' /\ WithinLimits' /\ QueueGrows
    <2>1. SocketsKept
      BY <1>4 DEF SocketsKept, Closing
    <2> QED
      BY <1>0, <1>3, <1>4, <2>1, QueueKept DEF ListenerInv
  <1>9. ASSUME SweptInv PROVE SweptInv'
    <2>1. CleanupInv'
      <3>1. \A i \in Ids : sock'[i] = "closed" => Closing # {}
        BY <1>4 DEF Closing
      <3> QED
        BY <1>1, <1>5, <3>1 DEF CleanupInv
    <2>2. Expired' \subseteq Expired
      BY <1>4 DEF Expired
    <2> QED
      BY <1>0, <1>3, <1>9, <2>1, <2>2, BeginDriveDue DEF SweptInv
  <1> QED
    BY <1>5, <1>6, <1>7, <1>8, <1>9 DEF ListenerInv

LEMMA CloseStep ==
    ASSUME ListenerInv, NEW i \in Ids, CloseCall(i)
    PROVE  /\ ListenerInv' /\ QueueGrows
           /\ SweptInv => SweptInv'
  <1> DEFINE r == [cleanup EXCEPT !.cursor = 0, !.turn = FALSE]
             s == Requested(r, {i})
  <1>0. TypeOK /\ cleanup \in Sweeps(Ids) /\ scan \in Sweeps(Handles) /\ room \in BOOLEAN
    BY DEF ListenerInv, TypeOK
  <1>1. r \in Sweeps(Ids)
    BY <1>0 DEF Sweeps
  <1> HIDE DEF r
  <1>2. s \in Sweeps(Ids) /\ \A j \in Ids : Covered(s, j)
    BY <1>1, KeyFacts, RequestedCovers
  <1>3. /\ Idle /\ sock[i] = "open"
        /\ sock' = [sock EXCEPT ![i] = "fin"]
        /\ closeAt' = [closeAt EXCEPT ![i] = Linger]
        /\ unsent' = TRUE
        /\ BeginDrive(Closing \cup {i}, closeAt', s, scan, room)
        /\ UNCHANGED <<waitAt, listenerVars>>
    BY DEF CloseCall, r
  <1> HIDE DEF s
  <1>4. /\ SweepTypeOK' /\ DriveTypeOK' /\ FreshInv' /\ scan' = scan
        /\ \A j \in Ids : Covered(s, j) => Covered(cleanup, j)'
    BY <1>0, <1>2, <1>3, BeginDriveFacts
  <1>5. TypeOK'
    <2>1. Linger \in Times
      BY SMTT(30), MaintenanceAssumption DEF MaintenanceAssumption, Times, Never
    <2>2. SocketTypeOK'
      BY <1>0, <1>3, <2>1 DEF TypeOK, SocketTypeOK
    <2>3. ListenerTypeOK'
      BY <1>0, <1>3 DEF TypeOK, ListenerTypeOK, listenerVars
    <2> QED
      BY <1>4, <2>2, <2>3, TypePartsNext
  <1>6. ScanInv'
    BY <1>3, <1>4 DEF ListenerInv, ScanInv, Covered, listenerVars
  <1>7. QueueInv' /\ ChildWakesAccept' /\ WithinLimits' /\ QueueGrows
    <2>1. SocketsKept
      BY <1>0, <1>3 DEF SocketsKept, TypeOK
    <2>2. Members' = Members
      BY <1>3 DEF Members, listenerVars
    <2> QED
      BY <1>0, <1>3, <2>1, <2>2, QueueKept DEF ListenerInv, listenerVars
  <1>8. ASSUME SweptInv PROVE SweptInv'
    <2>1. CleanupInv'
      BY <1>2, <1>4 DEF CleanupInv
    <2>2. Expired' \subseteq Expired
      BY <1>0, <1>3 DEF Expired, TypeOK
    <2>3. Closing \subseteq Closing \cup {i}
      OBVIOUS
    <2> QED
      BY <1>0, <1>3, <1>8, <2>1, <2>2, <2>3, BeginDriveDue DEF SweptInv
  <1> QED
    BY <1>4, <1>5, <1>6, <1>7, <1>8 DEF ListenerInv

LEMMA SameQueue ==
    ASSUME TypeOK, accepted' = accepted
    PROVE  QueueGrows
  <1>1. Len(accepted) \in Nat
    BY DEF TypeOK
  <1> QED
    BY <1>1 DEF QueueGrows, PrefixOf

LEMMA ListenStep ==
    ASSUME ListenerInv, ListenCall
    PROVE  /\ ListenerInv' /\ QueueGrows
           /\ SweptInv => SweptInv'
  <1> DEFINE l == Requested(scan, Handles)
  <1>0. TypeOK /\ cleanup \in Sweeps(Ids) /\ scan \in Sweeps(Handles) /\ room \in BOOLEAN
    BY DEF ListenerInv, TypeOK
  <1>1. l \in Sweeps(Handles)
    BY <1>0, KeyFacts, RequestedType
  <1>2. /\ Idle /\ BeginDrive(Closing, closeAt, cleanup, l, room)
        /\ Cardinality(Live) + Cardinality(Handles) <= SocketLimit
        /\ pool' = [h \in Handles |-> "listen"]
        /\ UNCHANGED <<socketVars, accepted, accepting, flagged, unsent>>
    BY DEF ListenCall, Live
  <1> HIDE DEF l
  <1>3. /\ SweepTypeOK' /\ DriveTypeOK' /\ FreshInv' /\ scan' = l
        /\ \A i \in Ids : Covered(cleanup, i) => Covered(cleanup, i)'
    <2>1. unsent' \in BOOLEAN
      BY <1>0, <1>2 DEF TypeOK
    <2> QED
      BY <1>0, <1>1, <1>2, <2>1, BeginDriveFacts
  <1>4. TypeOK'
    <2>1. SocketTypeOK' /\ ListenerTypeOK'
      BY <1>0, <1>2 DEF TypeOK, SocketTypeOK, ListenerTypeOK, socketVars
    <2> QED
      BY <1>3, <2>1, TypePartsNext
  <1>5. ScanInv'
    BY <1>2 DEF ScanInv
  <1>6. WithinLimits'
    <2>1. Members' = Handles /\ Live' = Live
      BY <1>2 DEF Members, Live, socketVars
    <2> QED
      BY <1>2, <2>1 DEF ListenerInv, WithinLimits, Live
  <1>7. QueueInv' /\ ChildWakesAccept' /\ QueueGrows
    BY <1>0, <1>2, SameQueue DEF ListenerInv, QueueInv, ChildWakesAccept, socketVars
  <1>8. ASSUME SweptInv PROVE SweptInv'
    <2>1. CleanupInv' /\ Expired' = Expired
      BY <1>2, <1>3, <1>8 DEF SweptInv, CleanupInv, Expired, socketVars
    <2> QED
      BY <1>0, <1>2, <1>8, <2>1, BeginDriveDue DEF SweptInv
  <1> QED
    BY <1>3, <1>4, <1>5, <1>6, <1>7, <1>8 DEF ListenerInv

LEMMA ListenerCloseStep ==
    ASSUME ListenerInv, ListenerClose
    PROVE  /\ ListenerInv' /\ pool' = [h \in Handles |-> "none"]
           /\ SweptInv => SweptInv'
  <1> DEFINE l == Cleared(scan)
  <1>0. TypeOK /\ cleanup \in Sweeps(Ids) /\ scan \in Sweeps(Handles) /\ room \in BOOLEAN
    BY DEF ListenerInv, TypeOK
  <1>1. l \in Sweeps(Handles)
    BY <1>0, ClearedType
  <1>2. /\ Idle /\ BeginDrive(Closing, closeAt, cleanup, l, room)
        /\ pool' = [h \in Handles |-> "none"]
        /\ sock' = [i \in Ids |-> IF sock[i] = "queued" THEN "none" ELSE sock[i]]
        /\ accepted' = <<>> /\ accepting' = FALSE /\ flagged' = FALSE
        /\ UNCHANGED <<closeAt, waitAt, unsent>>
    BY DEF ListenerClose
  <1> HIDE DEF l
  <1>3. /\ SweepTypeOK' /\ DriveTypeOK' /\ FreshInv'
        /\ \A i \in Ids : Covered(cleanup, i) => Covered(cleanup, i)'
    <2>1. unsent' \in BOOLEAN
      BY <1>0, <1>2 DEF TypeOK
    <2> QED
      BY <1>0, <1>1, <1>2, <2>1, BeginDriveFacts
  <1>4. TypeOK'
    <2>1. SocketTypeOK'
      BY <1>0, <1>2 DEF TypeOK, SocketTypeOK
    <2>2. <<>> \in Seq(Ids)
      OBVIOUS
    <2>3. ListenerTypeOK'
      BY <1>2, <2>2 DEF ListenerTypeOK
    <2> QED
      BY <1>3, <2>1, <2>3, TypePartsNext
  <1>5. ScanInv'
    BY <1>2 DEF ScanInv
  <1>6. WithinLimits'
    <2>1. Members' \subseteq Members /\ Live' \subseteq Live
      BY <1>2 DEF Members, Live
    <2>2. /\ Cardinality(Members') \in Nat /\ Cardinality(Members') <= Cardinality(Members)
          /\ Cardinality(Live') \in Nat /\ Cardinality(Live') <= Cardinality(Live)
      BY <2>1, LiveFacts, KeyFacts, FS_Subset, FS_CardinalityType
    <2>3. Cardinality(Live) + Cardinality(Members) <= SocketLimit
      BY DEF ListenerInv, WithinLimits, Live
    <2>4. Cardinality(Live') + Cardinality(Members') <= SocketLimit
      BY <2>2, <2>3, LiveFacts
    <2>5. Len(accepted') <= Backlog
      BY <1>2, LiveFacts
    <2> QED
      BY <2>4, <2>5 DEF WithinLimits, Live
  <1>7. QueueInv' /\ ChildWakesAccept'
    BY <1>2, SMTT(30) DEF QueueInv, ChildWakesAccept, IsInjective
  <1>8. ASSUME SweptInv PROVE SweptInv'
    <2>1. CleanupInv' /\ Expired' \subseteq Expired
      BY <1>2, <1>3, <1>8 DEF SweptInv, CleanupInv, Expired
    <2> QED
      BY <1>0, <1>2, <1>8, <2>1, BeginDriveDue DEF SweptInv
  <1> QED
    BY <1>2, <1>3, <1>4, <1>5, <1>6, <1>7, <1>8 DEF ListenerInv

\* The calls that drive.
LEMMA CallStep ==
    ASSUME ListenerInv, DrivingCalls
    PROVE  /\ ListenerInv'
           /\ QueueGrows \/ pool' = [h \in Handles |-> "none"]
           /\ SweptInv => SweptInv'
  <1>0. room \in BOOLEAN /\ unsent \in BOOLEAN
    BY DEF ListenerInv, TypeOK
  <1>1. CASE Poll
    <2>1. /\ Idle /\ BeginDrive(Closing, closeAt, cleanup, scan, room)
          /\ UNCHANGED <<socketVars, listenerVars>> /\ unsent' \in BOOLEAN
      BY <1>0, <1>1 DEF Poll
    <2> QED
      BY <1>0, <2>1, PollFrame
  <1>2. CASE Packet
    BY <1>2, PacketStep
  <1>3. CASE SendCall
    <2>1. /\ Idle /\ BeginDrive(Closing, closeAt, cleanup, scan, room)
          /\ UNCHANGED <<socketVars, listenerVars>> /\ unsent' \in BOOLEAN
      BY <1>3 DEF SendCall
    <2> QED
      BY <1>0, <2>1, PollFrame
  <1>4. CASE GrantCall
    <2>1. /\ Idle /\ BeginDrive(Closing, closeAt, cleanup, scan, TRUE)
          /\ UNCHANGED <<socketVars, listenerVars>> /\ unsent' \in BOOLEAN
      BY <1>0, <1>4 DEF GrantCall
    <2> QED
      BY <2>1, PollFrame
  <1>5. CASE \E i \in Ids : CloseCall(i)
    BY <1>5, CloseStep
  <1>6. CASE ListenCall
    BY <1>6, ListenStep
  <1>7. CASE ListenerClose
    BY <1>7, ListenerCloseStep
  <1> QED
    BY <1>1, <1>2, <1>3, <1>4, <1>5, <1>6, <1>7 DEF DrivingCalls

-----------------------------------------------------------------------------
(* The steps of a drive *)

\* A step that may reap, with what is left of the work.
LEMMA ReapFrame ==
    ASSUME ListenerInv, NEW limit \in Nat, work + limit <= MaintenanceWork,
           ReapClosingTcp(limit) \/ UNCHANGED <<socketVars, cleanup, scan, work, ran, cut>>,
           phase' \in {"scan", "refresh"},
           UNCHANGED <<listenerVars, deviceVars, pollVars, tried, remain, deferred, reached>>
    PROVE  /\ ListenerInv' /\ QueueGrows
           /\ CleanupInv => CleanupInv'
           /\ Expired' \subseteq Expired
  <1>0. TypeOK /\ SocketTypeOK /\ ListenerTypeOK /\ SweepTypeOK /\ DriveTypeOK
    BY TypeParts DEF ListenerInv
  <1>1. SocketTypeOK' /\ SweepTypeOK' /\ WorkTypeOK' /\ SocketsShrink /\ ScanKept
    <2>1. CASE ReapClosingTcp(limit)
      BY <1>0, <2>1, ReapSweeps
    <2>2. CASE UNCHANGED <<socketVars, cleanup, scan, work, ran, cut>>
      BY <1>0, <2>2 DEF SocketTypeOK, SweepTypeOK, WorkTypeOK, DriveTypeOK, SocketsShrink,
                        ScanKept, socketVars, Covered
    <2> QED
      BY <2>1, <2>2
  <1>2. TypeOK' /\ FreshInv'
    <2>1. ListenerTypeOK' /\ DriveTypeOK' /\ FreshInv'
      BY <1>0, <1>1 DEF ListenerTypeOK, DriveTypeOK, FreshInv, listenerVars, deviceVars, pollVars
    <2> QED
      BY <1>1, <2>1, TypePartsNext
  <1>3. ScanInv'
    BY <1>1 DEF ListenerInv, ScanInv, ScanKept, listenerVars
  <1>4. QueueInv' /\ ChildWakesAccept' /\ WithinLimits' /\ QueueGrows
    <2>1. SocketsKept /\ Members' = Members
      BY <1>1 DEF SocketsKept, SocketsShrink, Closing, Members, listenerVars
    <2> QED
      BY <1>0, <2>1, QueueKept DEF ListenerInv, listenerVars
  <1>5. CleanupInv => CleanupInv'
    BY <1>1 DEF CleanupInv, SocketsShrink
  <1>6. Expired' \subseteq Expired
    BY <1>1 DEF Expired, SocketsShrink
  <1> QED
    BY <1>2, <1>3, <1>4, <1>5, <1>6 DEF ListenerInv

\* A step that may scan, with what is left of the work.
LEMMA ScanFrame ==
    ASSUME ListenerInv, NEW limit \in Nat, work + limit <= MaintenanceWork,
           RefreshListeners(limit) \/ UNCHANGED <<socketVars, listenerVars, scan, work, ran, cut>>,
           phase' \in {"egress", "end"},
           UNCHANGED <<cleanup, deviceVars, pollVars, tried, remain, deferred, reached>>
    PROVE  /\ ListenerInv' /\ QueueGrows
           /\ CleanupInv => CleanupInv'
           /\ Expired' \subseteq Expired
  <1>0. TypeOK /\ SocketTypeOK /\ ListenerTypeOK /\ SweepTypeOK /\ DriveTypeOK
    BY TypeParts DEF ListenerInv
  <1>1. /\ SocketTypeOK' /\ ListenerTypeOK' /\ WorkTypeOK' /\ scan' \in Sweeps(Handles)
        /\ ScanInv' /\ QueueInv' /\ WithinLimits' /\ ChildWakesAccept'
        /\ SocketsQueued /\ QueueGrows
        /\ waitAt' = waitAt
    <2>1. CASE RefreshListeners(limit)
      BY <1>0, <2>1, RefreshScans DEF ListenerInv
    <2>2. CASE UNCHANGED <<socketVars, listenerVars, scan, work, ran, cut>>
      <3>1. /\ SocketTypeOK' /\ ListenerTypeOK' /\ WorkTypeOK' /\ scan' \in Sweeps(Handles)
            /\ SocketsQueued /\ waitAt' = waitAt
        BY <1>0, <2>2 DEF SocketTypeOK, SweepTypeOK, ListenerTypeOK, WorkTypeOK, DriveTypeOK,
                          SocketsQueued, socketVars, listenerVars
      <3>2. SocketsKept /\ Members' = Members
        BY <2>2 DEF SocketsKept, Members, listenerVars, socketVars
      <3>3. QueueInv' /\ ChildWakesAccept' /\ WithinLimits' /\ QueueGrows
        BY <1>0, <2>2, <3>2, QueueKept DEF ListenerInv, listenerVars
      <3>4. ScanInv'
        BY <2>2 DEF ListenerInv, ScanInv, Covered, listenerVars
      <3> QED
        BY <3>1, <3>3, <3>4
    <2> QED
      BY <2>1, <2>2
  <1>2. TypeOK' /\ FreshInv'
    <2>1. SweepTypeOK' /\ DriveTypeOK' /\ FreshInv'
      BY <1>0, <1>1 DEF SweepTypeOK, DriveTypeOK, FreshInv, deviceVars, pollVars
    <2> QED
      BY <1>1, <2>1, TypePartsNext
  <1>3. CleanupInv => CleanupInv'
    BY <1>1 DEF CleanupInv, SocketsQueued, Covered
  <1>4. Expired' \subseteq Expired
    BY <1>1 DEF Expired, SocketsQueued
  <1> QED
    BY <1>1, <1>2, <1>3, <1>4 DEF ListenerInv

LEMMA CleanupTurnStep ==
    ASSUME ListenerInv, CleanupTurn
    PROVE  /\ ListenerInv' /\ QueueGrows
           /\ SweptInv => SweptInv'
  <1>1. /\ phase = "cleanup" /\ phase' = "scan"
        /\ ReapClosingTcp(1) \/ UNCHANGED <<socketVars, cleanup, scan, work, ran, cut>>
        /\ UNCHANGED <<listenerVars, deviceVars, pollVars, tried, remain, deferred, reached>>
    BY DEF CleanupTurn
  <1>2. 1 \in Nat /\ work + 1 <= MaintenanceWork
    <2>1. work = 0
      BY <1>1 DEF ListenerInv, FreshInv
    <2> QED
      BY <2>1, LiveFacts, SMTT(30)
  <1>3. /\ ListenerInv' /\ QueueGrows
        /\ CleanupInv => CleanupInv'
        /\ Expired' \subseteq Expired
    BY <1>1, <1>2, ReapFrame
  <1>4. DueInv => DueInv'
    BY <1>1, <1>3 DEF DueInv, Idle, pollVars
  <1> QED
    BY <1>3, <1>4 DEF SweptInv

LEMMA LateCleanupStep ==
    ASSUME ListenerInv, LateCleanup
    PROVE  /\ ListenerInv' /\ QueueGrows
           /\ SweptInv => SweptInv'
  <1>1. /\ phase = "reap" /\ phase' = "refresh"
        /\ \/ ReapClosingTcp(MaintenanceWork - work)
           \/ UNCHANGED <<socketVars, cleanup, scan, work, ran, cut>>
        /\ UNCHANGED <<listenerVars, deviceVars, pollVars, tried, remain, deferred, reached>>
    BY DEF LateCleanup
  <1>2. MaintenanceWork - work \in Nat /\ work + (MaintenanceWork - work) <= MaintenanceWork
    <2>1. work \in 0..MaintenanceWork
      BY DEF ListenerInv, TypeOK
    <2> QED
      BY <2>1, LiveFacts, SMTT(30)
  <1>3. /\ ListenerInv' /\ QueueGrows
        /\ CleanupInv => CleanupInv'
        /\ Expired' \subseteq Expired
    BY <1>1, <1>2, ReapFrame
  <1>4. DueInv => DueInv'
    BY <1>1, <1>3 DEF DueInv, Idle, pollVars
  <1> QED
    BY <1>3, <1>4 DEF SweptInv

LEMMA ScanTurnStep ==
    ASSUME ListenerInv, ScanTurn
    PROVE  /\ ListenerInv' /\ QueueGrows
           /\ SweptInv => SweptInv'
  <1> DEFINE left == MaintenanceWork - work
             limit == IF left = 1 THEN 1 ELSE left \div 2
  <1>1. /\ phase = "scan" /\ phase' = "egress"
        /\ \/ RefreshListeners(limit)
           \/ UNCHANGED <<socketVars, listenerVars, scan, work, ran, cut>>
        /\ UNCHANGED <<cleanup, deviceVars, pollVars, tried, remain, deferred, reached>>
    BY DEF ScanTurn
  <1>2. limit \in Nat /\ work + limit <= MaintenanceWork
    <2>1. work \in 0..MaintenanceWork
      BY DEF ListenerInv, TypeOK
    <2> QED
      BY <2>1, LiveFacts, SMTT(30)
  <1> HIDE DEF limit
  <1>3. /\ ListenerInv' /\ QueueGrows
        /\ CleanupInv => CleanupInv'
        /\ Expired' \subseteq Expired
    BY <1>1, <1>2, ScanFrame
  <1>4. DueInv => DueInv'
    BY <1>1, <1>3 DEF DueInv, Idle, pollVars
  <1> QED
    BY <1>3, <1>4 DEF SweptInv

LEMMA LateScanStep ==
    ASSUME ListenerInv, LateScan
    PROVE  /\ ListenerInv' /\ QueueGrows
           /\ SweptInv => SweptInv'
  <1>1. /\ phase = "refresh" /\ phase' = "end"
        /\ \/ RefreshListeners(MaintenanceWork - work)
           \/ UNCHANGED <<socketVars, listenerVars, scan, work, ran, cut>>
        /\ UNCHANGED <<cleanup, deviceVars, pollVars, tried, remain, deferred, reached>>
    BY DEF LateScan
  <1>2. MaintenanceWork - work \in Nat /\ work + (MaintenanceWork - work) <= MaintenanceWork
    <2>1. work \in 0..MaintenanceWork
      BY DEF ListenerInv, TypeOK
    <2> QED
      BY <2>1, LiveFacts, SMTT(30)
  <1>3. /\ ListenerInv' /\ QueueGrows
        /\ CleanupInv => CleanupInv'
        /\ Expired' \subseteq Expired
    BY <1>1, <1>2, ScanFrame
  <1>4. DueInv => DueInv'
    BY <1>1, <1>3 DEF DueInv, Idle, pollVars
  <1> QED
    BY <1>3, <1>4 DEF SweptInv

\* What poll_egress does to the sockets it visits.
LEMMA DispatchedFacts ==
    ASSUME TypeOK, NEW over \in SUBSET Expired, NEW reset \in SUBSET Aborted,
           NEW dead \in SUBSET {h \in Handles : pool[h] = "half"}, Dispatched(over, reset, dead)
    PROVE  /\ SocketTypeOK' /\ ListenerTypeOK' /\ SocketsKept /\ Members' = Members
           /\ accepted' = accepted /\ accepting' = accepting /\ flagged' = flagged
           /\ \A i \in Ids : sock'[i] = "closed" => sock[i] = "closed" \/ i \in over \cup reset
           /\ over \cup reset \subseteq Closing
           /\ Expired' \subseteq Expired \ over
           /\ \A h \in Handles : pool'[h] = pool[h] \/ h \in dead
  <1>0. /\ over \subseteq Ids /\ \A i \in over : sock[i] = "timeWait"
        /\ reset \subseteq Ids /\ \A i \in reset : sock[i] = "aborted"
        /\ \A h \in dead : h \in Handles /\ pool[h] = "half"
    BY DEF Expired, Aborted
  <1>1. /\ sock' = [i \in Ids |-> IF i \in over \cup reset THEN "closed" ELSE sock[i]]
        /\ waitAt' = [i \in Ids |-> IF i \in over THEN Never ELSE waitAt[i]]
        /\ pool' = [h \in Handles |-> IF h \in dead THEN "dead" ELSE pool[h]]
        /\ UNCHANGED <<closeAt, accepted, accepting, flagged>>
    BY DEF Dispatched
  <1>2. SocketTypeOK'
    BY <1>1, TimesFacts DEF TypeOK, SocketTypeOK
  <1>3. ListenerTypeOK'
    BY <1>1 DEF TypeOK, ListenerTypeOK
  <1>4. SocketsKept
    BY <1>0, <1>1 DEF SocketsKept
  <1>5. Members' = Members
    BY <1>0, <1>1 DEF Members
  <1>6. over \cup reset \subseteq Closing
    BY <1>0 DEF Closing
  <1>7. Expired' \subseteq Expired \ over
    BY <1>1 DEF Expired
  <1> QED
    BY <1>1, <1>2, <1>3, <1>4, <1>5, <1>6, <1>7

LEMMA EgressSendsStep ==
    ASSUME ListenerInv, EgressSends
    PROVE  /\ ListenerInv' /\ QueueGrows
           /\ SweptInv => SweptInv'
  <1>0. TypeOK /\ SocketTypeOK /\ ListenerTypeOK /\ SweepTypeOK /\ DriveTypeOK
    BY TypeParts DEF ListenerInv
  <1>1. /\ phase = "egress" /\ work < MaintenanceWork /\ room' \in BOOLEAN
        /\ cleanup' = Requested(cleanup, Closing)
        /\ scan' = Requested(scan, Members)
        /\ work' = work + 1 /\ tried' = TRUE /\ remain' = TRUE
        /\ UNCHANGED <<pollVars, phase, ran, deferred, reached, cut>>
    BY DEF EgressSends, EgressGoes
  <1>2. PICK over \in SUBSET Expired, reset \in SUBSET Aborted,
             dead \in SUBSET {h \in Handles : pool[h] = "half"}, data \in {FALSE, unsent} :
          /\ data \/ reset # {} \/ dead # {}
          /\ room' => over = Expired /\ reset = Aborted /\ data = unsent
          /\ Dispatched(over, reset, dead)
          /\ unsent' \in IF data THEN BOOLEAN ELSE {unsent}
    BY DEF EgressSends
  <1>3. /\ SocketTypeOK' /\ ListenerTypeOK' /\ SocketsKept /\ Members' = Members
        /\ accepted' = accepted /\ accepting' = accepting /\ flagged' = flagged
        /\ \A i \in Ids : sock'[i] = "closed" => sock[i] = "closed" \/ i \in over \cup reset
        /\ over \cup reset \subseteq Closing
        /\ Expired' \subseteq Expired \ over
        /\ \A h \in Handles : pool'[h] = pool[h] \/ h \in dead
    BY <1>0, <1>2, DispatchedFacts
  <1>4. /\ SweepTypeOK'
        /\ Closing # {} => \A i \in Ids : Covered(cleanup, i)'
        /\ Members # {} => \A h \in Handles : Covered(scan, h)'
    BY <1>0, <1>1, KeyFacts, RequestedType, RequestedCovers DEF SweepTypeOK, Covered
  <1>5. TypeOK' /\ FreshInv'
    <2>1. unsent' \in BOOLEAN
      BY <1>0, <1>2 DEF DriveTypeOK
    <2>2. work' \in 0..MaintenanceWork
      BY <1>0, <1>1, LiveFacts, SMTT(30) DEF DriveTypeOK, WorkTypeOK
    <2>3. DriveTypeOK' /\ FreshInv'
      BY <1>0, <1>1, <2>1, <2>2 DEF DriveTypeOK, WorkTypeOK, FreshInv, pollVars
    <2> QED
      BY <1>3, <1>4, <2>3, TypePartsNext
  <1>6. ScanInv'
    <2>1. \A h \in Handles : pool'[h] \in {"established", "dead"} => Members # {}
      BY <1>3 DEF Members
    <2> QED
      BY <1>4, <2>1 DEF ScanInv
  <1>7. QueueInv' /\ ChildWakesAccept' /\ WithinLimits' /\ QueueGrows
    BY <1>0, <1>3, QueueKept DEF ListenerInv
  <1>8. ASSUME SweptInv PROVE SweptInv'
    <2>1. CleanupInv'
      <3>1. \A i \in Ids : sock'[i] = "closed" => Closing # {}
        BY <1>3 DEF Closing
      <3> QED
        BY <1>4, <3>1 DEF CleanupInv
    <2>2. DueInv'
      BY <1>1, <1>3, <1>8 DEF SweptInv, DueInv, Idle, pollVars
    <2> QED
      BY <2>1, <2>2 DEF SweptInv
  <1> QED
    BY <1>5, <1>6, <1>7, <1>8 DEF ListenerInv

LEMMA EgressFindsNoneStep ==
    ASSUME ListenerInv, EgressFindsNone
    PROVE  /\ ListenerInv' /\ QueueGrows
           /\ SweptInv => SweptInv'
  <1>0. TypeOK /\ SocketTypeOK /\ ListenerTypeOK /\ SweepTypeOK /\ DriveTypeOK
    BY TypeParts DEF ListenerInv
  <1>1. /\ phase = "egress" /\ work < MaintenanceWork /\ work' = work + 1
        /\ cleanup' = IF reached THEN Requested(cleanup, Closing) ELSE cleanup
        /\ scheduled' = IF reached THEN Never ELSE scheduled
        /\ remain' = FALSE /\ reached' = FALSE /\ tried' = FALSE /\ phase' = "reap"
        /\ UNCHANGED <<scan, deviceVars, more, ran, deferred, cut>>
    BY DEF EgressFindsNone, EgressGoes, EgressEnds
  <1>2. /\ SocketTypeOK' /\ ListenerTypeOK' /\ SocketsKept /\ Members' = Members
        /\ accepted' = accepted /\ accepting' = accepting /\ flagged' = flagged
        /\ \A i \in Ids : sock'[i] = "closed" => sock[i] = "closed" \/ i \in Expired
        /\ Expired \subseteq Closing
        /\ Expired' = {}
        /\ \A h \in Handles : pool'[h] = pool[h]
    <2> DEFINE none == {}
    <2>1. /\ Expired \in SUBSET Expired /\ none \in SUBSET Aborted
          /\ none \in SUBSET {h \in Handles : pool[h] = "half"}
          /\ Dispatched(Expired, none, none)
      BY DEF EgressFindsNone
    <2> HIDE DEF none
    <2>2. /\ SocketTypeOK' /\ ListenerTypeOK' /\ SocketsKept /\ Members' = Members
          /\ accepted' = accepted /\ accepting' = accepting /\ flagged' = flagged
          /\ \A i \in Ids : sock'[i] = "closed" => sock[i] = "closed" \/ i \in Expired \cup none
          /\ Expired \cup none \subseteq Closing
          /\ Expired' \subseteq Expired \ Expired
          /\ \A h \in Handles : pool'[h] = pool[h] \/ h \in none
      BY <1>0, <2>1, DispatchedFacts
    <2> QED
      BY <2>2 DEF none
  <1>3. /\ SweepTypeOK'
        /\ reached /\ Closing # {} => \A i \in Ids : Covered(cleanup, i)'
        /\ \A i \in Ids : Covered(cleanup, i) => Covered(cleanup, i)'
    BY <1>0, <1>1, KeyFacts, RequestedType, RequestedCovers DEF SweepTypeOK, Covered
  <1>4. TypeOK' /\ FreshInv'
    <2>1. work' \in 0..MaintenanceWork
      BY <1>0, <1>1, LiveFacts, SMTT(30) DEF DriveTypeOK, WorkTypeOK
    <2>2. scheduled' \in Times
      BY <1>0, <1>1, TimesFacts DEF DriveTypeOK
    <2>3. DriveTypeOK' /\ FreshInv'
      BY <1>0, <1>1, <2>1, <2>2 DEF DriveTypeOK, WorkTypeOK, FreshInv, deviceVars
    <2> QED
      BY <1>2, <1>3, <2>3, TypePartsNext
  <1>5. ScanInv'
    BY <1>1, <1>2 DEF ListenerInv, ScanInv, Covered
  <1>6. QueueInv' /\ ChildWakesAccept' /\ WithinLimits' /\ QueueGrows
    BY <1>0, <1>2, QueueKept DEF ListenerInv
  <1>7. ASSUME SweptInv PROVE SweptInv'
    <2>1. \A i \in Expired : reached /\ Closing # {}
      BY <1>1, <1>2, <1>7 DEF SweptInv, DueInv
    <2>2. CleanupInv'
      BY <1>2, <1>3, <1>7, <2>1 DEF SweptInv, CleanupInv
    <2>3. DueInv'
      BY <1>1, <1>2 DEF DueInv, Idle
    <2> QED
      BY <2>2, <2>3 DEF SweptInv
  <1> QED
    BY <1>4, <1>5, <1>6, <1>7 DEF ListenerInv

LEMMA EgressStopsStep ==
    ASSUME ListenerInv, EgressStops
    PROVE  /\ ListenerInv' /\ QueueGrows
           /\ SweptInv => SweptInv'
  <1>0. TypeOK /\ SocketTypeOK /\ ListenerTypeOK /\ SweepTypeOK /\ DriveTypeOK
    BY TypeParts DEF ListenerInv
  <1> DEFINE left == remain \/ (~tried /\ work = MaintenanceWork)
  <1>1. /\ phase = "egress" /\ phase' = "reap"
        /\ cleanup' = IF reached /\ tried THEN Requested(cleanup, Closing) ELSE cleanup
        /\ scheduled' = IF reached /\ tried /\ ~left THEN Never ELSE scheduled
        /\ remain' = left /\ reached' = FALSE /\ tried' = FALSE
        /\ cut' = (cut \/ EgressGoes) /\ deferred' = (deferred \/ EgressGoes)
        /\ UNCHANGED <<scan, deviceVars, more, ran, socketVars, listenerVars, work>>
    BY DEF EgressStops, EgressEnds
  <1>2. /\ SweepTypeOK'
        /\ \A i \in Ids : Covered(cleanup, i) => Covered(cleanup, i)'
    BY <1>0, <1>1, KeyFacts, RequestedType DEF SweepTypeOK, Covered
  <1>3. TypeOK' /\ FreshInv'
    <2>1. left \in BOOLEAN /\ EgressGoes \in BOOLEAN
      BY <1>0 DEF EgressGoes, DriveTypeOK
    <2>2. cut' \in BOOLEAN /\ deferred' \in BOOLEAN /\ remain' \in BOOLEAN
      BY <1>0, <1>1, <2>1 DEF DriveTypeOK, WorkTypeOK
    <2>3. scheduled' \in Times
      BY <1>0, <1>1, TimesFacts DEF DriveTypeOK
    <2>4. DriveTypeOK' /\ FreshInv'
      BY <1>0, <1>1, <2>2, <2>3 DEF DriveTypeOK, WorkTypeOK, FreshInv, deviceVars
    <2>5. SocketTypeOK' /\ ListenerTypeOK'
      BY <1>0, <1>1 DEF SocketTypeOK, ListenerTypeOK, socketVars, listenerVars
    <2> QED
      BY <1>2, <2>4, <2>5, TypePartsNext
  <1>4. ScanInv'
    BY <1>1 DEF ListenerInv, ScanInv, Covered, listenerVars
  <1>5. QueueInv' /\ ChildWakesAccept' /\ WithinLimits' /\ QueueGrows
    <2>1. SocketsKept /\ Members' = Members
      BY <1>1 DEF SocketsKept, Members, socketVars, listenerVars
    <2> QED
      BY <1>0, <1>1, <2>1, QueueKept DEF ListenerInv, listenerVars
  <1>6. ASSUME SweptInv PROVE SweptInv'
    <2>1. CleanupInv'
      BY <1>1, <1>2, <1>6 DEF SweptInv, CleanupInv, socketVars
    <2>2. tried => left
      BY <1>6 DEF SweptInv, DueInv
    <2>3. scheduled' = scheduled /\ Expired' = Expired
      BY <1>1, <2>2 DEF Expired, socketVars
    <2>4. DueInv'
      BY <1>1, <1>6, <2>3 DEF SweptInv, DueInv, Idle
    <2> QED
      BY <2>1, <2>4 DEF SweptInv
  <1> QED
    BY <1>3, <1>4, <1>5, <1>6 DEF ListenerInv

\* The poll of a set of times, and the one a call publishes.
LEMMA LeastOf ==
    ASSUME NEW T, T \subseteq Nat, T # {}
    PROVE  Least(T) \in T /\ \A n \in T : Least(T) <= n
  <1>1. \E m \in T : \A n \in T : m <= n
    BY LeastNatural
  <1> QED
    BY <1>1, ZenonT(60) DEF Least

LEMMA SmoltcpPollAtFacts ==
    ASSUME TypeOK
    PROVE  /\ SmoltcpPollAt \in Times
           /\ \A i \in Ids : SmoltcpPollAt <= waitAt[i]
  <1> DEFINE T == {waitAt[i] : i \in Ids} \cup {Never}
  <1>1. \A i \in Ids : waitAt[i] \in Times
    BY DEF TypeOK
  <1>2. T \subseteq Times /\ Never \in T /\ \A i \in Ids : waitAt[i] \in T
    BY <1>1, TimesFacts
  <1>3. T \subseteq Nat /\ T # {}
    BY <1>2, TimesFacts
  <1>4. SmoltcpPollAt = 0 \/ SmoltcpPollAt = Least(T)
    BY DEF SmoltcpPollAt
  <1> HIDE DEF T
  <1>5. Least(T) \in T /\ \A n \in T : Least(T) <= n
    BY <1>3, LeastOf
  <1>6. CASE SmoltcpPollAt = 0
    <2>1. \A i \in Ids : waitAt[i] \in Nat
      BY <1>1, TimesFacts
    <2> QED
      BY <1>6, <2>1, TimesFacts, SMTT(30)
  <1>7. CASE SmoltcpPollAt = Least(T)
    BY <1>2, <1>5, <1>7
  <1> QED
    BY <1>4, <1>6, <1>7

LEMMA PollAtFacts ==
    ASSUME TypeOK
    PROVE  /\ PollAt \in Times
           /\ ~Limited => \A i \in Ids : PollAt <= waitAt[i]
  <1> DEFINE first == IF EgressOpen \/ SmoltcpPollAt > 0 THEN SmoltcpPollAt ELSE Never
             T == {first} \cup {closeAt[i] : i \in Ids}
  <1>1. \A i \in Ids : waitAt[i] \in Times /\ closeAt[i] \in Times
    BY DEF TypeOK
  <1>2. SmoltcpPollAt \in Times /\ \A i \in Ids : SmoltcpPollAt <= waitAt[i]
    BY SmoltcpPollAtFacts
  <1>3. first \in Times /\ (~Limited => first = SmoltcpPollAt)
    BY <1>2, TimesFacts DEF EgressOpen
  <1>4. PollAt = Least(T)
    BY DEF PollAt
  <1> HIDE DEF first
  <1>5. T \subseteq Times /\ first \in T
    BY <1>1, <1>3
  <1>6. T \subseteq Nat /\ T # {}
    BY <1>5, TimesFacts
  <1> HIDE DEF T
  <1>7. Least(T) \in T /\ \A n \in T : Least(T) <= n
    BY <1>6, LeastOf
  <1>8. PollAt \in Times /\ PollAt <= first
    BY <1>4, <1>5, <1>7
  <1>9. ASSUME ~Limited, NEW i \in Ids PROVE PollAt <= waitAt[i]
    <2>1. first <= waitAt[i]
      BY <1>2, <1>3, <1>9
    <2>2. PollAt \in Nat /\ first \in Nat /\ waitAt[i] \in Nat
      BY <1>1, <1>3, <1>8, TimesFacts
    <2> QED
      BY <1>8, <2>1, <2>2, SMTT(30)
  <1> QED
    BY <1>8, <1>9

LEMMA PublishDue ==
    ASSUME TypeOK, DueInv, phase \in {"idle", "end"}, phase' = "idle",
           NEW m \in BOOLEAN, NEW at \in Times, \A i \in Ids : at <= waitAt[i],
           Publish(m, at), UNCHANGED <<waitAt, reached, tried>>, Expired' \subseteq Expired
    PROVE  DueInv'
  <1>0. scheduled \in Times /\ \A i \in Ids : waitAt[i] \in Times
    BY DEF TypeOK
  <1>1. more' = m /\ scheduled' = IF ~m /\ at # Never THEN at ELSE scheduled
    BY DEF Publish
  <1>2. ASSUME ~m, NEW i \in Ids PROVE scheduled' <= waitAt[i]
    <2>1. CASE at = Never
      BY <1>0, <1>1, <2>1, SMTT(30), MaintenanceAssumption DEF MaintenanceAssumption, Times, Never
    <2>2. CASE at # Never
      BY <1>1, <1>2, <2>2
    <2> QED
      BY <2>1, <2>2
  <1>3. ASSUME Expired' # {} PROVE scheduled' = 0
    <2>1. PICK i \in Ids : i \in Expired
      BY <1>3 DEF Expired
    <2>2. waitAt[i] = 0 /\ scheduled = 0
      BY <2>1 DEF DueInv, Expired
    <2>3. at = 0
      BY <2>2, TimesFacts, SMTT(30)
    <2> QED
      BY <1>1, <2>2, <2>3
  <1>4. ~reached' /\ ~tried'
    BY DEF DueInv
  <1> QED
    BY <1>1, <1>2, <1>3, <1>4 DEF DueInv, Idle

LEMMA EndDriveStep ==
    ASSUME ListenerInv, EndDrive
    PROVE  /\ ListenerInv' /\ QueueGrows
           /\ ~Limited /\ SweptInv => SweptInv'
  <1>0. TypeOK /\ SocketTypeOK /\ ListenerTypeOK /\ SweepTypeOK /\ DriveTypeOK
    BY TypeParts DEF ListenerInv
  <1> DEFINE m == (remain /\ EgressOpen) \/ cleanup.pending \/ scan.pending \/ deferred
  <1>1. /\ phase = "end" /\ phase' = "idle"
        /\ cleanup' = [cleanup EXCEPT !.turn = "cleanup" \notin ran /\ cleanup.pending]
        /\ scan' = [scan EXCEPT !.turn = "scan" \notin ran /\ scan.pending]
        /\ Publish(m, PollAt)
        /\ work' = 0 /\ ran' = {} /\ remain' = FALSE /\ deferred' = FALSE /\ cut' = FALSE
        /\ room' = EgressOpen
        /\ UNCHANGED <<socketVars, listenerVars, unsent, tried, reached>>
    BY DEF EndDrive
  <1>2. cleanup.pending \in BOOLEAN /\ scan.pending \in BOOLEAN
    BY <1>0, SweepType DEF SweepTypeOK
  <1>3. /\ SweepTypeOK'
        /\ \A i \in Ids : Covered(cleanup, i) => Covered(cleanup, i)'
        /\ \A h \in Handles : Covered(scan, h) => Covered(scan, h)'
    <2>1. cleanup' \in Sweeps(Ids) /\ scan' \in Sweeps(Handles)
      BY <1>0, <1>1, <1>2 DEF SweepTypeOK, Sweeps
    <2>2. /\ cleanup'.pending = cleanup.pending /\ cleanup'.resweep = cleanup.resweep
          /\ cleanup'.cursor = cleanup.cursor
          /\ scan'.pending = scan.pending /\ scan'.resweep = scan.resweep
          /\ scan'.cursor = scan.cursor
      BY <1>0, <1>1 DEF SweepTypeOK, Sweeps
    <2> QED
      BY <2>1, <2>2 DEF SweepTypeOK, Covered
  <1>4. m \in BOOLEAN /\ EgressOpen \in BOOLEAN
    BY <1>2 DEF EgressOpen
  <1>5. PollAt \in Times /\ (~Limited => \A i \in Ids : PollAt <= waitAt[i])
    BY <1>0, PollAtFacts
  <1> HIDE DEF m
  <1>6. TypeOK' /\ FreshInv'
    <2>1. SocketTypeOK' /\ ListenerTypeOK'
      BY <1>0, <1>1 DEF SocketTypeOK, ListenerTypeOK, socketVars, listenerVars
    <2>2. scheduled' \in Times /\ more' \in BOOLEAN
      BY <1>0, <1>1, <1>4, <1>5 DEF Publish, DriveTypeOK
    <2>3. work' \in 0..MaintenanceWork
      BY <1>1, LiveFacts, SMTT(30)
    <2>4. DriveTypeOK' /\ FreshInv'
      BY <1>0, <1>1, <1>4, <2>2, <2>3 DEF DriveTypeOK, WorkTypeOK, FreshInv
    <2> QED
      BY <1>3, <2>1, <2>4, TypePartsNext
  <1>7. ScanInv'
    BY <1>1, <1>3 DEF ListenerInv, ScanInv, listenerVars
  <1>8. QueueInv' /\ ChildWakesAccept' /\ WithinLimits' /\ QueueGrows
    <2>1. SocketsKept /\ Members' = Members
      BY <1>1 DEF SocketsKept, Members, socketVars, listenerVars
    <2> QED
      BY <1>0, <1>1, <2>1, QueueKept DEF ListenerInv, listenerVars
  <1>9. ASSUME ~Limited, SweptInv PROVE SweptInv'
    <2>1. CleanupInv'
      BY <1>1, <1>3, <1>9 DEF SweptInv, CleanupInv, socketVars
    <2>2. Expired' \subseteq Expired /\ UNCHANGED <<waitAt, reached, tried>>
      BY <1>1 DEF Expired, socketVars
    <2>3. DueInv'
      BY <1>0, <1>1, <1>4, <1>5, <1>9, <2>2, PublishDue DEF SweptInv
    <2> QED
      BY <2>1, <2>3 DEF SweptInv
  <1> QED
    BY <1>6, <1>7, <1>8, <1>9 DEF ListenerInv

-----------------------------------------------------------------------------
(* The calls that do not drive, and time *)

LEMMA AcceptStep ==
    ASSUME ListenerInv, AcceptCall
    PROVE  /\ ListenerInv' /\ QueueGrows
           /\ SweptInv => SweptInv'
  <1> DEFINE s == Requested(scan, Members)
  <1>0. TypeOK /\ SocketTypeOK /\ ListenerTypeOK /\ SweepTypeOK /\ DriveTypeOK
    BY TypeParts DEF ListenerInv
  <1>1. PICK n \in Visits(s, Members, MaintenanceWork) :
            /\ RefreshMembers(FirstDue(s, Members, n), TRUE)
            /\ scan' = Advanced(s, Members, n)
    BY DEF AcceptCall
  <1>2. /\ Idle /\ Members # {}
        /\ Publish(scan'.pending, SmoltcpPollAt)
        /\ UNCHANGED <<cleanup, deviceVars, phase, driveVars>>
    BY DEF AcceptCall, Listening
  <1>3. s \in Sweeps(Handles) /\ \A h \in Handles : Covered(s, h)
    BY <1>0, <1>2, KeyFacts, RequestedCovers DEF SweepTypeOK
  <1> HIDE DEF s
  <1> DEFINE seen == FirstDue(s, Members, n)
  <1>4. n \in Nat
    <2>1. MaintenanceWork \in Nat
      BY LiveFacts
    <2>2. n \in 0..MaintenanceWork
      BY <2>1, KeyFacts, VisitsType
    <2> QED
      BY <2>2
  <1>5. seen \in SUBSET Members
    BY KeyFacts, FirstDueFinite
  <1>6. /\ scan' \in Sweeps(Handles)
        /\ \A h \in Members \ seen : Covered(s, h) => Covered(Advanced(s, Members, n), h)
    BY <1>1, <1>3, <1>4, KeyFacts, SweepKeeps
  <1> HIDE DEF seen
  <1>7. /\ SocketTypeOK' /\ ListenerTypeOK'
        /\ QueueInv' /\ WithinLimits' /\ ChildWakesAccept'
        /\ SocketsQueued /\ QueueGrows
        /\ UNCHANGED <<closeAt, waitAt>>
        /\ \A h \in Handles : pool'[h] \in {"established", "dead"} =>
                                  pool'[h] = pool[h] /\ h \notin seen
    <2>1. RefreshMembers(seen, TRUE)
      BY <1>1 DEF seen
    <2> QED
      BY <1>0, <1>5, <2>1, RefreshFacts DEF ListenerInv
  <1>8. ScanInv'
    <2>1. \A h \in Handles : pool'[h] \in {"established", "dead"} => h \in Members \ seen
      BY <1>7 DEF Members
    <2> QED
      BY <1>1, <1>3, <1>6, <2>1 DEF ScanInv, Covered
  <1>9. scan'.pending \in BOOLEAN
    BY <1>6, SweepType
  <1>10. SmoltcpPollAt \in Times /\ \A i \in Ids : SmoltcpPollAt <= waitAt[i]
    BY <1>0, SmoltcpPollAtFacts
  <1>11. TypeOK' /\ FreshInv'
    <2>1. SweepTypeOK'
      BY <1>0, <1>2, <1>6 DEF SweepTypeOK
    <2>2. scheduled' \in Times /\ more' \in BOOLEAN
      BY <1>0, <1>2, <1>9, <1>10 DEF Publish, DriveTypeOK
    <2>3. DriveTypeOK' /\ FreshInv'
      BY <1>0, <1>2, <2>2 DEF DriveTypeOK, WorkTypeOK, FreshInv, Idle, deviceVars, driveVars
    <2> QED
      BY <1>7, <2>1, <2>3, TypePartsNext
  <1>12. ASSUME SweptInv PROVE SweptInv'
    <2>1. CleanupInv'
      BY <1>2, <1>7, <1>12 DEF SweptInv, CleanupInv, SocketsQueued, Covered
    <2>2. Expired' \subseteq Expired
      BY <1>7 DEF Expired, SocketsQueued
    <2>3. phase \in {"idle", "end"} /\ phase' = "idle" /\ UNCHANGED <<waitAt, reached, tried>>
      BY <1>2, <1>7 DEF Idle, driveVars
    <2>4. DueInv'
      BY <1>0, <1>2, <1>9, <1>10, <1>12, <2>2, <2>3, PublishDue DEF SweptInv
    <2> QED
      BY <2>1, <2>4 DEF SweptInv
  <1> QED
    BY <1>7, <1>8, <1>11, <1>12 DEF ListenerInv

LEMMA AcceptEndsStep ==
    ASSUME ListenerInv, AcceptEnds
    PROVE  /\ ListenerInv' /\ QueueGrows
           /\ SweptInv => SweptInv'
  <1>0. TypeOK /\ SocketTypeOK /\ ListenerTypeOK /\ SweepTypeOK /\ DriveTypeOK
    BY TypeParts DEF ListenerInv
  <1>1. /\ accepting' = FALSE /\ flagged' = FALSE
        /\ UNCHANGED <<sock, closeAt, waitAt, pool, accepted, cleanup, scan, unsent, room,
                       scheduled, more, phase, driveVars>>
    BY DEF AcceptEnds, socketVars, deviceVars, pollVars
  <1>2. TypeOK'
    <2>1. SocketTypeOK' /\ SweepTypeOK'
      BY <1>0, <1>1 DEF SocketTypeOK, SweepTypeOK
    <2>2. ListenerTypeOK'
      BY <1>0, <1>1 DEF ListenerTypeOK
    <2>3. DriveTypeOK'
      BY <1>0, <1>1 DEF DriveTypeOK, WorkTypeOK, driveVars
    <2> QED
      BY <2>1, <2>2, <2>3, TypePartsNext
  <1>3. FreshInv' /\ ScanInv' /\ QueueInv' /\ ChildWakesAccept' /\ WithinLimits'
    BY <1>1 DEF ListenerInv, FreshInv, ScanInv, Covered, QueueInv, ChildWakesAccept,
                WithinLimits, Members, driveVars
  <1>4. QueueGrows
    BY <1>0, <1>1, SameQueue
  <1>5. SweptInv => SweptInv'
    BY <1>1 DEF SweptInv, CleanupInv, Covered, DueInv, Idle, Expired, driveVars
  <1> QED
    BY <1>2, <1>3, <1>4, <1>5 DEF ListenerInv

\* Time passes alike for all deadlines.
LEMMA PassFacts ==
    ASSUME NEW a \in Times, NEW b \in Times
    PROVE  /\ Pass(a) \in Times
           /\ a <= b => Pass(a) <= Pass(b)
           /\ Pass(b) = 0 => b \in {0, 1}
           /\ a <= 1 => Pass(a) = 0
  BY SMTT(30), MaintenanceAssumption DEF MaintenanceAssumption, Times, Never, Pass

LEMMA TickStep ==
    ASSUME ListenerInv, Tick
    PROVE  /\ ListenerInv' /\ QueueGrows
           /\ SweptInv => SweptInv'
  <1>0. TypeOK /\ SocketTypeOK /\ ListenerTypeOK /\ SweepTypeOK /\ DriveTypeOK
    BY TypeParts DEF ListenerInv
  <1>1. /\ Idle
        /\ more => \A i \in Ids : waitAt[i] # 1
        /\ closeAt' = [i \in Ids |-> Pass(closeAt[i])]
        /\ waitAt' = [i \in Ids |-> Pass(waitAt[i])]
        /\ scheduled' = Pass(scheduled)
        /\ UNCHANGED <<sock, listenerVars, cleanup, scan, unsent, room, more, phase, driveVars>>
    BY DEF Tick, deviceVars
  <1>2. scheduled \in Times /\ \A i \in Ids : closeAt[i] \in Times /\ waitAt[i] \in Times
    BY <1>0 DEF TypeOK
  <1>3. TypeOK'
    <2>1. scheduled' \in Times /\ \A i \in Ids : Pass(closeAt[i]) \in Times /\ Pass(waitAt[i]) \in Times
      BY <1>1, <1>2, PassFacts
    <2>2. SocketTypeOK'
      BY <1>0, <1>1, <2>1 DEF SocketTypeOK
    <2>3. ListenerTypeOK' /\ SweepTypeOK' /\ DriveTypeOK'
      BY <1>0, <1>1, <2>1 DEF ListenerTypeOK, SweepTypeOK, DriveTypeOK, WorkTypeOK, listenerVars,
                              driveVars
    <2> QED
      BY <2>2, <2>3, TypePartsNext
  <1>4. FreshInv' /\ ScanInv' /\ QueueInv' /\ ChildWakesAccept' /\ WithinLimits'
    BY <1>1 DEF ListenerInv, FreshInv, ScanInv, Covered, QueueInv, ChildWakesAccept,
                WithinLimits, Members, listenerVars, driveVars
  <1>5. QueueGrows
    BY <1>0, <1>1, SameQueue DEF listenerVars
  <1>6. ASSUME SweptInv PROVE SweptInv'
    <2>1. CleanupInv'
      BY <1>1, <1>6 DEF SweptInv, CleanupInv, Covered
    <2>2. ASSUME ~more, NEW i \in Ids PROVE scheduled' <= waitAt'[i]
      <3>1. scheduled <= waitAt[i]
        BY <1>1, <1>6, <2>2 DEF SweptInv, DueInv
      <3> QED
        BY <1>1, <1>2, <3>1, PassFacts
    <2>3. ASSUME NEW i \in Ids, i \in Expired' PROVE scheduled' = 0
      <3>1. sock[i] = "timeWait" /\ Pass(waitAt[i]) = 0
        BY <1>1, <2>3 DEF Expired
      <3>2. waitAt[i] \in {0, 1}
        BY <1>2, <3>1, PassFacts
      <3>3. scheduled <= 1
        <4>1. CASE waitAt[i] = 0
          <5>1. scheduled = 0
            BY <1>1, <1>6, <3>1, <4>1 DEF SweptInv, DueInv, Expired, Idle
          <5> QED
            BY <5>1, SMTT(30)
        <4>2. CASE waitAt[i] = 1
          BY <1>1, <1>6, <4>2 DEF SweptInv, DueInv
        <4> QED
          BY <3>2, <4>1, <4>2
      <3> QED
        BY <1>1, <1>2, <3>3, PassFacts
    <2>4. ~reached' /\ ~tried' /\ phase' = "idle" /\ more' = more
      BY <1>1, <1>6 DEF SweptInv, DueInv, Idle, driveVars
    <2>5. Expired' # {} => scheduled' = 0
      BY <2>3 DEF Expired
    <2>6. DueInv'
      BY <2>2, <2>4, <2>5 DEF DueInv, Idle
    <2> QED
      BY <2>1, <2>6 DEF SweptInv
  <1> QED
    BY <1>3, <1>4, <1>5, <1>6 DEF ListenerInv

-----------------------------------------------------------------------------
(* The theorems *)

LEMMA InitHolds ==
    ASSUME Init
    PROVE  ListenerInv /\ SweptInv
  <1>1. NoSweep \in Sweeps(Ids) /\ NoSweep \in Sweeps(Handles)
    BY DEF NoSweep, Sweeps
  <1>2. SocketTypeOK
    BY TimesFacts DEF Init, SocketTypeOK
  <1>3. accepted \in Seq(Ids) /\ Len(accepted) = 0
    BY SMTT(30) DEF Init
  <1>4. ListenerTypeOK
    BY <1>3 DEF Init, ListenerTypeOK
  <1>5. work \in 0..MaintenanceWork
    BY SMTT(30), LiveFacts DEF Init
  <1>6. DriveTypeOK
    BY <1>5, TimesFacts DEF Init, DriveTypeOK, WorkTypeOK
  <1>7. TypeOK
    BY <1>1, <1>2, <1>4, <1>6, TypeParts DEF Init, SweepTypeOK
  <1>8. FreshInv /\ ScanInv /\ ChildWakesAccept /\ CleanupInv
    BY DEF Init, FreshInv, ScanInv, ChildWakesAccept, CleanupInv
  <1>9. QueueInv
    BY SMTT(30) DEF Init, QueueInv, IsInjective
  <1>10. WithinLimits
    <2>1. Members = {}
      BY DEF Init, Members
    <2>2. Cardinality(Members) = 0
      BY <2>1, FS_EmptySet
    <2>3. Cardinality(Live) <= SocketLimit
      BY DEF Init, Live
    <2>4. Cardinality(Live) + Cardinality(Members) <= SocketLimit
      BY <2>2, <2>3, LiveFacts, SMTT(30)
    <2>5. Len(accepted) <= Backlog
      BY <1>3, LiveFacts, SMTT(30)
    <2> QED
      BY <2>4, <2>5 DEF WithinLimits, Live
  <1>11. DueInv
    <2>1. \A i \in Ids : waitAt[i] = Never /\ scheduled = Never
      BY DEF Init
    <2>2. Never <= Never /\ Never # 0
      BY SMTT(30), MaintenanceAssumption DEF MaintenanceAssumption, Never
    <2>3. Expired = {}
      BY <2>1, <2>2 DEF Expired
    <2>4. ~reached /\ ~tried
      BY DEF Init
    <2> QED
      BY <2>1, <2>2, <2>3, <2>4 DEF DueInv
  <1> QED
    BY <1>7, <1>8, <1>9, <1>10, <1>11 DEF ListenerInv, SweptInv

LEMMA NextStep ==
    ASSUME ListenerInv, Next
    PROVE  /\ ListenerInv'
           /\ QueueGrows \/ pool' = [h \in Handles |-> "none"]
           /\ ~Limited /\ SweptInv => SweptInv'
  <1>1. CASE DriveStep
    BY <1>1, CleanupTurnStep, ScanTurnStep, EgressSendsStep, EgressFindsNoneStep,
       EgressStopsStep, LateCleanupStep, LateScanStep, EndDriveStep DEF DriveStep
  <1>2. CASE DrivingCalls
    BY <1>2, CallStep
  <1>3. CASE AcceptCall
    BY <1>3, AcceptStep
  <1>4. CASE AcceptEnds
    BY <1>4, AcceptEndsStep
  <1>5. CASE Tick
    BY <1>5, TickStep
  <1> QED
    BY <1>1, <1>2, <1>3, <1>4, <1>5 DEF Next

LEMMA Stutter ==
    ASSUME UNCHANGED vars
    PROVE  /\ ListenerInv => ListenerInv'
           /\ SweptInv => SweptInv'
  <1>1. UNCHANGED <<sock, closeAt, waitAt, pool, accepted, accepting, flagged, cleanup, scan,
                    unsent, room, scheduled, more, phase, work, ran, tried, remain, deferred,
                    reached, cut>>
    BY DEF vars, socketVars, listenerVars, deviceVars, pollVars, driveVars
  <1>2. TypeOK => TypeOK'
    BY <1>1 DEF TypeOK
  <1>3. /\ FreshInv => FreshInv'
        /\ ScanInv => ScanInv'
        /\ QueueInv => QueueInv'
        /\ ChildWakesAccept => ChildWakesAccept'
        /\ WithinLimits => WithinLimits'
    BY <1>1 DEF FreshInv, ScanInv, Covered, QueueInv, ChildWakesAccept, WithinLimits, Members
  <1>4. SweptInv => SweptInv'
    BY <1>1 DEF SweptInv, CleanupInv, Covered, DueInv, Idle, Expired
  <1> QED
    BY <1>2, <1>3, <1>4 DEF ListenerInv

\* The inductive invariant of the listener, with any credit and any budget.
THEOREM ListenerInvariant == Spec => []ListenerInv
  <1>1. Init => ListenerInv
    BY InitHolds
  <1>2. ListenerInv /\ [Next]_vars => ListenerInv'
    BY NextStep, Stutter
  <1> QED
    BY <1>1, <1>2, PTL DEF Spec

\* The state of a drive and of the sweeps has its type in every step.
THEOREM TypeCorrect == Spec => []TypeOK
  <1>1. ListenerInv => TypeOK
    BY DEF ListenerInv
  <1> QED
    BY <1>1, ListenerInvariant, PTL

\* Between calls, a member of the pool that is established or dead is ahead of a scan of
\* refresh_listeners that is pending, or of the next: whatever a drive's work limit and
\* the calls' budgets are.
THEOREM MembersScanned == Spec => []MemberIsScanned
  <1>1. ListenerInv => MemberIsScanned
    BY DEF ListenerInv, ScanInv, MemberIsScanned
  <1> QED
    BY <1>1, ListenerInvariant, PTL

\* No accept sleeps with a child in the queue: mark_listener_ready has flagged it.
THEOREM ChildrenWakeAccept == Spec => []ChildWakesAccept
  <1>1. ListenerInv => ChildWakesAccept
    BY DEF ListenerInv
  <1> QED
    BY <1>1, ListenerInvariant, PTL

\* The queue stays within the backlog and the native sockets within limits.sockets: the
\* capacity checks of refresh_listener_member suffice for every pool, backlog and limit.
THEOREM LimitsKept == Spec => []WithinLimits
  <1>1. ListenerInv => WithinLimits
    BY DEF ListenerInv
  <1> QED
    BY <1>1, ListenerInvariant, PTL

\* Children leave the queue from its front, for an accept, and join it at its end.
THEOREM ChildrenInOrder == Spec => QueueIsFifo
  <1>1. ListenerInv /\ [Next]_vars =>
          [pool' # [h \in Handles |-> "none"] /\ accepted # <<>>
             => \/ PrefixOf(accepted, accepted')
                \/ sock'[Head(accepted)] = "open" /\ PrefixOf(Tail(accepted), accepted')]_vars
    BY NextStep DEF QueueGrows
  <1> QED
    BY <1>1, ListenerInvariant, PTL DEF Spec, QueueIsFifo

\* Where egress needs no credit, a closing socket that is done is ahead of a sweep
\* between calls.  A TIME-WAIT that ends, which no segment tells of, is why the drive
\* compares the time with scheduled_poll_at: the poll it published is never later than
\* the end of a TIME-WAIT.
THEOREM DoneSwept ==
    ASSUME ~Limited
    PROVE  Spec => []DoneIsSwept
  <1>1. Init => ListenerInv /\ SweptInv
    BY InitHolds
  <1>2. (ListenerInv /\ SweptInv) /\ [Next]_vars => (ListenerInv /\ SweptInv)'
    BY NextStep, Stutter
  <1>3. SweptInv => DoneIsSwept
    BY DEF SweptInv, CleanupInv, DoneIsSwept
  <1> QED
    BY <1>1, <1>2, <1>3, PTL DEF Spec

=============================================================================

----------------------------- MODULE UdpProofs ------------------------------
(***************************************************************************)
(* Proofs about Udp, for any sizes of the rings and of datagrams, any      *)
(* number of members and any limits: the packet rings stay sound, the      *)
(* credit is kept, no waiter is stranded, what can be sent is polled for,  *)
(* and the members take turns.                                             *)
(*                                                                         *)
(* The argument: a ring is sound because padding goes in only to fill the  *)
(* payload ring to its end (PaddingAtEnd), so that what follows starts at  *)
(* the first byte, and no padding follows another.  SoundInv says so in    *)
(* every step of a call, with the counts of the device; the other          *)
(* properties are inductive beside it, the turns with what a scan has      *)
(* passed over (ScanInv), the writer with the size of paddings.            *)
(***************************************************************************)
EXTENDS Udp, NaturalsInduction, WellFoundedInduction, TLAPS

\* Most leaves are first-order and short: Zenon is asked first, then the SMT solver.
USE ZenonT(3), SMTT(20), ZenonT(30)

-----------------------------------------------------------------------------
(* The inductive invariant. *)

Entries == [size : Nat, src : Sources \cup {None, Padding}]
Rings == [meta : Seq(Entries), at : 0..Bytes - 1, length : 0..Bytes]
DevicePackets == [size : Nat, reply : BOOLEAN]
Credits == [packets : 0..MaxPackets, bytes : 0..MaxBytes]
Devices == [tx : Seq(DevicePackets), bytes : Nat, credit : Credits]

Drives == [work : Nat, remain : BOOLEAN, packets : 0..OutputPackets, bytes : 0..BytesCopied]
Scans == [offset : Member, inspected : 0..Slots - 1]

\* The values of the variables.  The queues of the stack are bounded: what was received by
\* the limit on input packets, what is to be transmitted by the limit on output packets.
SocketOK ==
    /\ phase \in {"open", "bound", "closed"} /\ peer \in Sources \cup {None}
    /\ cursor \in Member
RingsOK == rx \in [Member -> Rings] /\ tx \in Rings
WakeOK ==
    /\ waits \subseteq {Read, Write} /\ flags \subseteq {Read, Write}
    /\ wakers \subseteq Member \cup {Sender}
QueueOK == queue \in Seq(Packets) /\ Len(queue) <= InputPackets
DriveOK ==
    /\ dev \in Devices /\ Len(dev.tx) <= OutputPackets
    /\ drive \in Drives /\ scan \in Scans
    /\ step \in {"idle", "scan", "ingress", "egress"} /\ polled \in BOOLEAN
TypeOK == SocketOK /\ RingsOK /\ WakeOK /\ QueueOK /\ DriveOK

\* A ring whose last entry is padding is filled to its end, so that what comes next starts
\* at its first byte.
FreeAt(r) == (r.at + r.length) % Bytes
LastIsPadding(r) == r.meta # <<>> /\ r.meta[Len(r.meta)].src = Padding
PaddingAtEnd(r) == LastIsPadding(r) => FreeAt(r) = 0

RingInv(r) == r \in Rings /\ RingSound(r) /\ PaddingAtEnd(r)
RingsInv == RingInv(tx) /\ \A i \in Member : RingInv(rx[i])

\* A padding was put in for a datagram that is larger.
SmallPadding ==
    \A i \in DOMAIN tx.meta :
        tx.meta[i].src = Padding => \E n \in SendSizes : tx.meta[i].size < n

\* What the scan of recvfrom has passed over is empty.
ScanInv ==
    /\ step # "scan" => scan = NoScan
    /\ \A k \in 0..scan.offset - 1 : rx[(cursor + k) % Members].meta = <<>>

-----------------------------------------------------------------------------
(* Induction and remainders *)

\* The least-number principle.
LEMMA LeastNatural ==
    ASSUME NEW T, T \subseteq Nat, T # {}
    PROVE  \E m \in T : \A n \in T : m <= n
  <1> DEFINE R == OpToRel(<, Nat)
  <1>1. IsWellFoundedOn(R, Nat)
    BY NatLessThanWellFounded
  <1> HIDE DEF R
  <1>2. PICK x \in T : \A y \in T : ~(<<y, x>> \in R)
    BY <1>1, WFMin
  <1>3. \A y \in T : ~(y < x)
    BY <1>2 DEF R, OpToRel
  <1>4. \A y \in T : x \in Nat /\ y \in Nat
    OBVIOUS
  <1> QED
    BY <1>3, <1>4

\* Induction up to a bound, with a set in the place of a predicate.
LEMMA BoundedInduction ==
    ASSUME NEW m \in Nat, NEW P, 0 \in P, \A n \in 1..m : n - 1 \in P => n \in P
    PROVE  \A n \in 0..m : n \in P
  <1> SUFFICES ASSUME NEW x \in 0..m, x \notin P PROVE FALSE
    OBVIOUS
  <1> DEFINE T == {n \in 0..m : n \notin P}
  <1>1. T \subseteq Nat /\ x \in T
    OBVIOUS
  <1>2. PICK n \in T : \A y \in T : n <= y
    BY <1>1, LeastNatural
  <1>3. n \in 1..m /\ n - 1 \in 0..m
    BY <1>2
  <1>4. n - 1 \in P
    BY <1>2, <1>3
  <1> QED
    BY <1>2, <1>3, <1>4

\* The remainder of a number below twice the divisor.
LEMMA Remainder ==
    ASSUME NEW b \in Nat \ {0}, NEW x \in 0..2 * b - 1
    PROVE  x % b = IF x < b THEN x ELSE x - b
  <1>1. CASE x \in 0..b - 1
    BY <1>1, SMTT(20)
  <1>2. CASE x \in b..2 * b - 1
    BY <1>2, SMTT(20)
  <1> QED
    BY <1>1, <1>2

\* What ends at the end of a ring of b bytes is followed by its first byte.
LEMMA FilledToEnd ==
    ASSUME NEW b \in Nat \ {0}, NEW at \in Nat, NEW length \in Nat, NEW size \in Nat,
           at <= b - 1, length + size <= b, ((at + length) % b) + size = b
    PROVE  (at + (length + size)) % b = 0
  <1>1. PICK x \in Nat : x = at + length
    OBVIOUS
  <1>2. x \in 0..2 * b - 1
    BY <1>1
  <1>3. x % b = IF x < b THEN x ELSE x - b
    BY <1>2, Remainder
  <1>4. at + (length + size) = b
    BY <1>1, <1>3
  <1>5. b % b = 0
    BY SMTT(20)
  <1> QED
    BY <1>4, <1>5

\* Bytes of a ring of b bytes, counted from its first entry or from the next.
LEMMA RemainderShift ==
    ASSUME NEW b \in Nat \ {0}, NEW at \in Nat, NEW n \in Nat, NEW m \in Nat,
           at <= b - 1, n + m <= b
    PROVE  /\ (at + n) % b \in 0..b - 1
           /\ (((at + n) % b) + m) % b = (at + (n + m)) % b
  <1>1. PICK x \in Nat : x = at + n
    OBVIOUS
  <1>2. PICK y \in Nat : y = x + m
    OBVIOUS
  <1>3. x \in 0..2 * b - 1 /\ y \in 0..2 * b - 1 /\ at + (n + m) = y
    BY <1>1, <1>2
  <1>4. /\ x % b = IF x < b THEN x ELSE x - b
        /\ y % b = IF y < b THEN y ELSE y - b
    BY <1>3, Remainder
  <1>5. CASE x < b
    BY <1>1, <1>2, <1>3, <1>4, <1>5
  <1>6. CASE x >= b
    <2>1. PICK z \in Nat : z = x - b + m
      BY <1>6
    <2>2. z \in 0..2 * b - 1 /\ z < b /\ z = y - b /\ y >= b
      BY <1>1, <1>2, <1>3, <1>6, <2>1
    <2>3. z % b = IF z < b THEN z ELSE z - b
      BY <2>2, Remainder
    <2>4. z % b = y % b
      BY <1>4, <2>2, <2>3
    <2>5. x % b = x - b /\ x - b \in 0..b - 1
      BY <1>3, <1>4, <1>6
    <2> QED
      BY <1>1, <1>3, <2>1, <2>4, <2>5
  <1> QED
    BY <1>5, <1>6

\* The same, as a relation between the numbers.
Shifts(b, at, n, m) == (((at + n) % b) + m) % b = (at + (n + m)) % b
LEMMA RemainderShifts ==
    ASSUME NEW b \in Nat \ {0}, NEW at \in Nat, NEW n \in Nat, NEW m \in Nat,
           at <= b - 1, n + m <= b
    PROVE  Shifts(b, at, n, m)
  BY RemainderShift DEF Shifts

-----------------------------------------------------------------------------
(* The bytes of a queue *)

\* A queue whose elements have sizes.
Sized(s) == Len(s) \in Nat /\ \A i \in 1..Len(s) : s[i].size \in Nat

\* f has the bytes of the first entries of s, up to n.
IsSizes(f, s, n) ==
    /\ f \in [0..n -> Nat]
    /\ f[0] = 0
    /\ \A i \in 1..n : f[i] = f[i - 1] + s[i].size

\* The recursion of Sizes has a solution.
LEMMA SizesExist ==
    ASSUME NEW s, Sized(s)
    PROVE  \E f : IsSizes(f, s, Len(s))
  <1> DEFINE P == {n \in 0..Len(s) : \E f : IsSizes(f, s, n)}
  <1>1. Len(s) \in Nat
    BY DEF Sized
  <1>2. 0 \in P
    <2>1. IsSizes([i \in 0..0 |-> 0], s, 0)
      BY DEF IsSizes
    <2> QED
      BY <1>1, <2>1
  <1>3. ASSUME NEW n \in 1..Len(s), n - 1 \in P PROVE n \in P
    <2>1. PICK f : IsSizes(f, s, n - 1)
      BY <1>3
    <2> DEFINE g == [i \in 0..n |-> IF i = n THEN f[n - 1] + s[n].size ELSE f[i]]
    <2>2. s[n].size \in Nat /\ f[n - 1] \in Nat
      BY <1>1, <2>1 DEF Sized, IsSizes
    <2>3. \A i \in 0..n : g[i] \in Nat
      <3>1. \A i \in 0..n : i # n => i \in 0..n - 1
        BY <1>1
      <3> QED
        BY <2>1, <2>2, <3>1 DEF IsSizes
    <2>4. g[0] = 0
      BY <1>1, <2>1 DEF IsSizes
    <2>5. ASSUME NEW i \in 1..n PROVE g[i] = g[i - 1] + s[i].size
      <3>1. i \in 0..n /\ i - 1 \in 0..n /\ i - 1 # n /\ (i # n => i \in 1..n - 1)
        BY <1>1
      <3>2. g[i - 1] = f[i - 1]
        BY <3>1
      <3> QED
        BY <2>1, <3>1, <3>2 DEF IsSizes
    <2>6. IsSizes(g, s, n)
      <3> HIDE DEF g
      <3>1. g \in [0..n -> Nat]
        <4>1. g = [i \in 0..n |-> g[i]]
          BY DEF g
        <4> QED
          BY <2>3, <4>1
      <3> QED
        BY <2>4, <2>5, <3>1 DEF IsSizes
    <2>7. n \in 0..Len(s)
      BY <1>1
    <2> QED
      BY <2>6, <2>7
  <1> HIDE DEF P
  <1>4. \A n \in 0..Len(s) : n \in P
    BY <1>1, <1>2, <1>3, BoundedInduction
  <1>5. Len(s) \in P
    BY <1>1, <1>4
  <1> QED
    BY <1>5 DEF P

\* What Sizes computes.
LEMMA SizesDef ==
    ASSUME NEW s, Sized(s)
    PROVE  IsSizes(Sizes(s), s, Len(s))
  <1> DEFINE Is(f) == f = [n \in 0..Len(s) |-> IF n = 0 THEN 0 ELSE f[n - 1] + s[n].size]
  <1>1. PICK f : IsSizes(f, s, Len(s))
    BY SizesExist
  <1>2. Len(s) \in Nat
    BY DEF Sized
  <1>3. Is(f)
    <2>1. f = [n \in 0..Len(s) |-> f[n]]
      BY <1>1 DEF IsSizes
    <2>2. \A n \in 0..Len(s) : f[n] = IF n = 0 THEN 0 ELSE f[n - 1] + s[n].size
      BY <1>1, <1>2 DEF IsSizes
    <2> QED
      BY <2>1, <2>2
  <1>4. Sizes(s) = CHOOSE g : Is(g)
    BY DEF Sizes
  <1>5. Is(Sizes(s))
    <2> HIDE DEF Is
    <2> QED
      BY <1>3, <1>4
  <1> DEFINE g == Sizes(s)
  <1>6. g[0] = 0 /\ \A n \in 1..Len(s) : g[n] = g[n - 1] + s[n].size
    <2> HIDE DEF g
    <2>1. Is(g)
      BY <1>5 DEF g
    <2>2. \A n \in 0..Len(s) : g[n] = IF n = 0 THEN 0 ELSE g[n - 1] + s[n].size
      BY <2>1
    <2> QED
      BY <1>2, <2>2
  <1>7. \A n \in 0..Len(s) : g[n] = f[n]
    <2> DEFINE P == {n \in 0..Len(s) : g[n] = f[n]}
    <2> HIDE DEF g
    <2>1. 0 \in P
      BY <1>1, <1>2, <1>6 DEF IsSizes
    <2>2. ASSUME NEW n \in 1..Len(s), n - 1 \in P PROVE n \in P
      BY <1>1, <1>2, <1>6, <2>2 DEF IsSizes
    <2> HIDE DEF P
    <2>3. \A n \in 0..Len(s) : n \in P
      BY <1>2, <2>1, <2>2, BoundedInduction
    <2> QED
      BY <2>3 DEF P
  <1>8. g \in [0..Len(s) -> Nat]
    <2> HIDE DEF g
    <2>1. g = [n \in 0..Len(s) |-> g[n]]
      <3>1. Is(g)
        BY <1>5 DEF g
      <3> QED
        BY <3>1
    <2> QED
      BY <1>1, <1>7, <2>1 DEF IsSizes
  <1> QED
    BY <1>6, <1>8 DEF IsSizes

\* The values of Sizes.
LEMMA SizesNat ==
    ASSUME NEW s, Sized(s)
    PROVE  \A n \in 0..Len(s) : Sizes(s)[n] \in Nat
  BY SizesDef DEF IsSizes

\* Longer parts have more bytes.
LEMMA SizesMonotonic ==
    ASSUME NEW s, Sized(s), NEW m \in 0..Len(s), NEW n \in m..Len(s)
    PROVE  Sizes(s)[m] <= Sizes(s)[n]
  <1> DEFINE f == Sizes(s)
             P == {k \in 0..Len(s) - m : f[m] <= f[m + k]}
  <1>1. Len(s) \in Nat /\ Len(s) - m \in Nat /\ m \in Nat
    BY DEF Sized
  <1>2. IsSizes(f, s, Len(s))
    BY SizesDef
  <1> HIDE DEF f
  <1>3. 0 \in P
    BY <1>1, <1>2 DEF IsSizes
  <1>4. ASSUME NEW k \in 1..Len(s) - m, k - 1 \in P PROVE k \in P
    <2>1. m + k \in 1..Len(s) /\ m + (k - 1) = (m + k) - 1 /\ k \in 0..Len(s) - m
      BY <1>1
    <2>2. f[m + k] = f[m + (k - 1)] + s[m + k].size
      BY <1>2, <2>1 DEF IsSizes
    <2>3. s[m + k].size \in Nat
      BY <2>1 DEF Sized
    <2>4. (m + k) - 1 \in 0..Len(s) /\ m \in 0..Len(s)
      BY <1>1, <2>1
    <2>5. f[m + (k - 1)] \in Nat /\ f[m] \in Nat
      BY <1>2, <2>1, <2>4 DEF IsSizes
    <2> QED
      BY <1>4, <2>1, <2>2, <2>3, <2>5
  <1> HIDE DEF P
  <1>5. \A k \in 0..Len(s) - m : k \in P
    BY <1>1, <1>3, <1>4, BoundedInduction
  <1>6. n - m \in P /\ m + (n - m) = n
    BY <1>1, <1>5
  <1> QED
    BY <1>6 DEF P, f

\* t is s without its first k, and its sizes are those of s but for the bytes of these k.
IsRest(t, s, k) == Len(t) = Len(s) - k /\ \A i \in 1..Len(t) : t[i] = s[k + i]
SizesOfRest(t, s, k) == \A n \in 0..Len(t) : Sizes(t)[n] = Sizes(s)[k + n] - Sizes(s)[k]

\* The bytes of what is left of s without its first k entries.
LEMMA SizesRest ==
    ASSUME NEW s, Sized(s), NEW t, NEW k \in 0..Len(s), IsRest(t, s, k)
    PROVE  Sized(t) /\ SizesOfRest(t, s, k)
  <1>0. Len(t) = Len(s) - k /\ \A i \in 1..Len(t) : t[i] = s[k + i]
    BY DEF IsRest
  <1>1. Len(s) \in Nat /\ Len(t) \in Nat /\ k \in Nat
    BY <1>0 DEF Sized
  <1>2. Sized(t)
    <2>1. \A i \in 1..Len(t) : k + i \in 1..Len(s)
      BY <1>0, <1>1
    <2> QED
      BY <1>0, <1>1, <2>1 DEF Sized
  <1> DEFINE f == Sizes(s)
             g == Sizes(t)
             P == {n \in 0..Len(t) : g[n] = f[k + n] - f[k]}
  <1>3. IsSizes(f, s, Len(s)) /\ IsSizes(g, t, Len(t))
    BY <1>2, SizesDef
  <1> HIDE DEF f, g
  <1>4. 0 \in P
    BY <1>1, <1>3 DEF IsSizes
  <1>5. ASSUME NEW n \in 1..Len(t), n - 1 \in P PROVE n \in P
    <2>1. /\ k + n \in 1..Len(s) /\ k + (n - 1) = (k + n) - 1
          /\ n \in 0..Len(t) /\ k + (n - 1) \in 0..Len(s)
      BY <1>0, <1>1
    <2>2. f[k + n] = f[k + (n - 1)] + s[k + n].size
      BY <1>3, <2>1 DEF IsSizes
    <2>3. g[n] = g[n - 1] + s[k + n].size
      BY <1>0, <1>3 DEF IsSizes
    <2>4. s[k + n].size \in Nat
      BY <2>1 DEF Sized
    <2>5. f[k + (n - 1)] \in Nat /\ f[k] \in Nat
      BY <1>3, <2>1 DEF IsSizes
    <2> QED
      BY <1>5, <2>1, <2>2, <2>3, <2>4, <2>5
  <1> HIDE DEF P
  <1>6. \A n \in 0..Len(t) : n \in P
    BY <1>1, <1>4, <1>5, BoundedInduction
  <1> QED
    BY <1>2, <1>6 DEF P, f, g, SizesOfRest

\* One more entry at the end.
LEMMA SizesAppend ==
    ASSUME NEW S, NEW s \in Seq(S), Sized(s), NEW e \in S, e.size \in Nat
    PROVE  /\ Sized(Append(s, e))
           /\ \A n \in 0..Len(s) : Sizes(Append(s, e))[n] = Sizes(s)[n]
           /\ TotalSize(Append(s, e)) = TotalSize(s) + e.size
  <1> DEFINE t == Append(s, e)
  <1>1. Len(s) \in Nat /\ Len(t) = Len(s) + 1 /\ t[Len(t)] = e
        /\ \A i \in 1..Len(s) : t[i] = s[i]
    OBVIOUS
  <1> HIDE DEF t
  <1>2. Sized(t)
    <2>1. ASSUME NEW i \in 1..Len(t) PROVE t[i].size \in Nat
      <3>1. i = Len(t) \/ i \in 1..Len(s)
        BY <1>1
      <3> QED
        BY <1>1, <3>1 DEF Sized
    <2> QED
      BY <1>1, <2>1 DEF Sized
  <1> DEFINE f == Sizes(s)
             g == Sizes(t)
             P == {n \in 0..Len(s) : g[n] = f[n]}
  <1>3. IsSizes(f, s, Len(s)) /\ IsSizes(g, t, Len(t))
    BY <1>2, SizesDef
  <1> HIDE DEF f, g
  <1>4. 0 \in P
    BY <1>1, <1>3 DEF IsSizes
  <1>5. ASSUME NEW n \in 1..Len(s), n - 1 \in P PROVE n \in P
    <2>1. n \in 1..Len(t) /\ n \in 0..Len(s)
      BY <1>1
    <2>2. f[n] = f[n - 1] + s[n].size /\ g[n] = g[n - 1] + t[n].size
      BY <1>3, <2>1 DEF IsSizes
    <2> QED
      BY <1>1, <1>5, <2>1, <2>2
  <1> HIDE DEF P
  <1>6. \A n \in 0..Len(s) : n \in P
    BY <1>1, <1>4, <1>5, BoundedInduction
  <1>7. g[Len(t)] = g[Len(t) - 1] + e.size
    BY <1>1, <1>3 DEF IsSizes
  <1>8. Len(t) - 1 = Len(s) /\ Len(s) \in P
    BY <1>1, <1>6
  <1>9. g[Len(t)] = f[Len(s)] + e.size
    BY <1>7, <1>8 DEF P
  <1>10. TotalSize(t) = g[Len(t)] /\ TotalSize(s) = f[Len(s)]
    BY DEF TotalSize, f, g
  <1>11. \A n \in 0..Len(s) : g[n] = f[n]
    BY <1>6 DEF P
  <1>12. TotalSize(t) = TotalSize(s) + e.size
    BY <1>9, <1>10
  <1> QED
    BY <1>2, <1>11, <1>12 DEF t, f, g

-----------------------------------------------------------------------------
(* The packet ring *)

\* Entries have sizes.
LEMMA EntriesSized ==
    ASSUME NEW s \in Seq(Entries)
    PROVE  Sized(s)
  <1>1. \A e \in Entries : e.size \in Nat
    BY DEF Entries
  <1> QED
    BY <1>1 DEF Sized

\* The fields of a ring.
LEMMA RingFields ==
    ASSUME NEW r \in Rings
    PROVE  /\ r.meta \in Seq(Entries) /\ r.at \in 0..Bytes - 1 /\ r.length \in 0..Bytes
           /\ r.at \in Nat /\ r.length \in Nat /\ Len(r.meta) \in Nat
           /\ Bytes \in Nat \ {0} /\ Slots \in Nat \ {0}
           /\ r.at + r.length \in 0..2 * Bytes - 1
           /\ r = [meta |-> r.meta, at |-> r.at, length |-> r.length]
           /\ Sized(r.meta)
  <1>1. r.meta \in Seq(Entries) /\ r.at \in 0..Bytes - 1 /\ r.length \in 0..Bytes
    BY DEF Rings
  <1>2. r = [meta |-> r.meta, at |-> r.at, length |-> r.length]
    BY DEF Rings
  <1>3. Sized(r.meta)
    BY <1>1, EntriesSized
  <1>4. Bytes \in Nat \ {0} /\ Slots \in Nat \ {0}
    BY RingAssumption
  <1>5. r.at \in Nat /\ r.length \in Nat /\ r.at + r.length \in 0..2 * Bytes - 1
    BY <1>1, <1>4
  <1>6. Len(r.meta) \in Nat
    BY <1>1
  <1> QED
    BY <1>1, <1>2, <1>3, <1>4, <1>5, <1>6

\* A new entry, of bytes that are free and contiguous, at the end.
LEMMA PushSound ==
    ASSUME NEW r, RingInv(r), r.length = 0 => r.at = 0,
           NEW e \in Entries, Len(r.meta) < Slots, r.length + e.size <= Bytes,
           FreeAt(r) + e.size <= Bytes,
           e.src = Padding => FreeAt(r) + e.size = Bytes /\ ~LastIsPadding(r)
    PROVE  /\ RingInv(Push(r, e))
           /\ Push(r, e).meta = Append(r.meta, e) /\ Push(r, e).at = r.at
           /\ Push(r, e).length = r.length + e.size
  <1> DEFINE q == Push(r, e)
             n == Len(r.meta)
  <1>0. r \in Rings
    BY DEF RingInv
  <1>1. e.size \in Nat
    BY DEF Entries
  <1>2. q.meta = Append(r.meta, e) /\ q.at = r.at /\ q.length = r.length + e.size
        /\ q = [meta |-> Append(r.meta, e), at |-> r.at, length |-> r.length + e.size]
    BY DEF Push
  <1> HIDE DEF q
  <1>3. q \in Rings
    <2>1. Append(r.meta, e) \in Seq(Entries)
      BY <1>0, RingFields
    <2>2. r.length + e.size \in 0..Bytes
      BY <1>0, <1>1, RingFields
    <2>3. r.at \in 0..Bytes - 1
      BY <1>0, RingFields
    <2> QED
      BY <1>2, <2>1, <2>2, <2>3 DEF Rings
  <1>4. /\ \A k \in 0..n : Sizes(q.meta)[k] = Sizes(r.meta)[k]
        /\ TotalSize(q.meta) = TotalSize(r.meta) + e.size
    BY <1>0, <1>1, <1>2, RingFields, SizesAppend
  <1>5. Len(q.meta) = n + 1 /\ DOMAIN q.meta = 1..n + 1 /\ n \in Nat
        /\ q.meta[n + 1] = e /\ \A i \in 1..n : q.meta[i] = r.meta[i]
    BY <1>0, <1>2, RingFields
  <1>6. DOMAIN r.meta = 1..n
    BY <1>0, RingFields
  <1>7. r.length = TotalSize(r.meta)
    BY DEF RingInv, RingSound
  <1>8. Len(q.meta) <= Slots /\ q.length = TotalSize(q.meta) /\ q.length <= Bytes
    <2>1. Slots \in Nat
      BY <1>0, RingFields
    <2> QED
      BY <1>2, <1>4, <1>5, <1>7, <2>1
  <1>9. ASSUME NEW i \in 1..n + 1
        PROVE  ((q.at + Sizes(q.meta)[i - 1]) % Bytes) + q.meta[i].size <= Bytes
    <2>1. CASE i \in 1..n
      <3>1. ((r.at + Sizes(r.meta)[i - 1]) % Bytes) + r.meta[i].size <= Bytes
        BY <1>6, <2>1 DEF RingInv, RingSound
      <3>2. i - 1 \in 0..n
        BY <1>5
      <3> QED
        BY <1>2, <1>4, <1>5, <2>1, <3>1, <3>2
    <2>2. CASE i = n + 1
      <3>1. i - 1 = n /\ n \in 0..n
        BY <1>5, <2>2
      <3>2. Sizes(q.meta)[i - 1] = r.length
        BY <1>4, <1>7, <3>1 DEF TotalSize
      <3> QED
        BY <1>2, <1>5, <2>2, <3>2 DEF FreeAt
    <2> QED
      BY <1>5, <2>1, <2>2
  <1>10. ASSUME NEW i \in 1..n + 1, q.meta[i].src = Padding, i < n + 1
         PROVE  q.meta[i + 1].src # Padding
    <2>1. i \in 1..n /\ i + 1 \in 1..n + 1
      BY <1>5, <1>10
    <2>2. r.meta[i].src = Padding
      BY <1>5, <1>10, <2>1
    <2>3. CASE i < n
      <3>1. r.meta[i + 1].src # Padding
        BY <1>6, <2>1, <2>2, <2>3 DEF RingInv, RingSound
      <3>2. i + 1 \in 1..n
        BY <1>5, <2>1, <2>3
      <3> QED
        BY <1>5, <3>1, <3>2
    <2>4. CASE i = n
      <3>1. r.meta # <<>>
        BY <1>0, <2>1, <2>4, RingFields
      <3>2. LastIsPadding(r)
        BY <2>2, <2>4, <3>1 DEF LastIsPadding
      <3> QED
        BY <1>5, <2>4, <3>2
    <2> QED
      BY <1>5, <2>1, <2>3, <2>4
  <1>11. RingSound(q)
    BY <1>5, <1>8, <1>9, <1>10 DEF RingSound
  <1>12. PaddingAtEnd(q)
    <2> SUFFICES ASSUME e.src = Padding PROVE FreeAt(q) = 0
      BY <1>5 DEF PaddingAtEnd, LastIsPadding
    <2>1. PICK b \in Nat \ {0}, at \in Nat, length \in Nat, size \in Nat :
            b = Bytes /\ at = r.at /\ length = r.length /\ size = e.size
      BY <1>0, <1>1, RingFields
    <2>2. at <= b - 1 /\ length + size <= b
      BY <1>0, <2>1, RingFields
    <2>3. ((at + length) % b) + size = b
      BY <2>1 DEF FreeAt
    <2>4. (at + (length + size)) % b = 0
      BY <2>2, <2>3, FilledToEnd
    <2> QED
      BY <1>2, <2>1, <2>4 DEF FreeAt
  <1> QED
    BY <1>2, <1>3, <1>11, <1>12 DEF RingInv, q

\* The first entry leaves; what is behind it stays where it is.
LEMMA PopSound ==
    ASSUME NEW r, RingInv(r), r.meta # <<>>
    PROVE  RingInv(Pop(r)) /\ Pop(r).meta = Tail(r.meta)
  <1> DEFINE q == Pop(r)
             n == r.meta[1].size
             f == Sizes(r.meta)
  <1>0. r \in Rings
    BY DEF RingInv
  <1>1. q = [meta |-> Tail(r.meta), at |-> (r.at + n) % Bytes, length |-> r.length - n]
    <2>1. Head(r.meta) = r.meta[1]
      BY <1>0, RingFields
    <2> QED
      BY <2>1 DEF Pop
  <1>2. q.meta = Tail(r.meta) /\ q.at = (r.at + n) % Bytes /\ q.length = r.length - n
    BY <1>1
  <1>3. PICK len \in Nat : len = Len(r.meta) /\ len >= 1
    BY <1>0, RingFields
  <1>4. /\ Len(q.meta) = len - 1 /\ DOMAIN q.meta = 1..len - 1 /\ DOMAIN r.meta = 1..len
        /\ q.meta \in Seq(Entries)
        /\ \A i \in 1..len - 1 : q.meta[i] = r.meta[1 + i]
    BY <1>0, <1>2, <1>3, RingFields
  <1>5. IsSizes(f, r.meta, len)
    BY <1>0, <1>3, RingFields, SizesDef
  <1>6. f[1] = n /\ n \in Nat
    <2>1. f[1] = f[0] + r.meta[1].size /\ f[0] = 0 /\ f[1] \in Nat
      <3>1. 1 \in 1..len /\ 1 - 1 = 0 /\ 1 \in 0..len
        BY <1>3
      <3> QED
        BY <1>5, <3>1 DEF IsSizes
    <2>2. r.meta[1].size \in Nat
      BY <1>0, <1>3, RingFields DEF Sized
    <2> QED
      BY <2>1, <2>2
  <1>7. /\ r.length = f[len] /\ r.length <= Bytes /\ len <= Slots
        /\ \A i \in 1..len :
             /\ ((r.at + f[i - 1]) % Bytes) + r.meta[i].size <= Bytes
             /\ r.meta[i].src = Padding /\ i < len => r.meta[i + 1].src # Padding
    BY <1>3, <1>4 DEF RingInv, RingSound, TotalSize
  <1>8. \A i \in 1..len : f[1] <= f[i] /\ f[i] <= f[len] /\ f[i] \in Nat
    <2>1. Sized(r.meta)
      BY <1>0, RingFields
    <2>2. ASSUME NEW i \in 1..len PROVE f[1] <= f[i] /\ f[i] <= f[len]
      <3>1. 1 \in 0..len /\ i \in 1..len /\ i \in 0..len /\ len \in i..len
        BY <1>3
      <3> QED
        BY <1>3, <2>1, <3>1, SizesMonotonic
    <2>3. \A i \in 1..len : i \in 0..len
      BY <1>3
    <2> QED
      BY <1>5, <2>2, <2>3 DEF IsSizes
  <1>9. \A k \in 0..len - 1 : Sizes(q.meta)[k] = f[1 + k] - n
    <2>1. Sized(r.meta)
      BY <1>0, RingFields
    <2>2. 1 \in 0..Len(r.meta)
      BY <1>3
    <2>3. \A k \in 0..Len(q.meta) : Sizes(q.meta)[k] = Sizes(r.meta)[1 + k] - Sizes(r.meta)[1]
      <3>1. PICK s, t, one : s = r.meta /\ t = q.meta /\ one = 1
        OBVIOUS
      <3>2. Sized(s) /\ one \in 0..Len(s)
        BY <2>1, <2>2, <3>1
      <3>3. IsRest(t, s, one)
        BY <1>3, <1>4, <3>1 DEF IsRest
      <3>4. SizesOfRest(t, s, one)
        BY <3>2, <3>3, SizesRest
      <3> QED
        BY <3>1, <3>4 DEF SizesOfRest
    <2> QED
      BY <1>4, <1>6, <2>3
  <1> HIDE DEF q, n, f
  <1>10. /\ n <= r.length /\ r.length \in Nat /\ r.length - n \in Nat
         /\ r.at \in Nat /\ r.at <= Bytes - 1 /\ Bytes \in Nat \ {0}
    <2>1. f[1] <= f[len]
      BY <1>3, <1>8
    <2>2. r.length \in Nat /\ r.at \in Nat /\ r.at <= Bytes - 1 /\ Bytes \in Nat \ {0}
      BY <1>0, RingFields
    <2> QED
      BY <1>6, <1>7, <2>1, <2>2
  <1>11. q \in Rings
    <2>1. (r.at + n) % Bytes \in 0..Bytes - 1
      <3>1. 0 \in Nat /\ n + 0 <= Bytes
        BY <1>6, <1>7, <1>10
      <3> QED
        BY <1>6, <1>10, <3>1, RemainderShift
    <2>2. r.length - n \in 0..Bytes
      BY <1>6, <1>7, <1>10
    <2> QED
      BY <1>1, <1>2, <1>4, <2>1, <2>2 DEF Rings
  <1>12. ASSUME NEW i \in 1..len - 1
         PROVE  ((q.at + Sizes(q.meta)[i - 1]) % Bytes) + q.meta[i].size <= Bytes
    <2>1. /\ 1 + i \in 1..len /\ (1 + i) - 1 = i
          /\ i - 1 \in 0..len - 1 /\ 1 + (i - 1) = i /\ i \in 1..len
      BY <1>3
    <2>2. PICK m \in Nat : m = f[i] - n /\ n + m = f[i] /\ n + m <= Bytes
      <3>1. PICK x \in Nat, l \in Nat, b \in Nat :
              x = f[i] /\ l = r.length /\ b = Bytes /\ n <= x /\ x <= l /\ l <= b
        BY <1>6, <1>7, <1>8, <1>10, <2>1
      <3>2. x - n \in Nat /\ n + (x - n) = x /\ x <= b
        BY <1>6, <3>1
      <3> QED
        BY <3>1, <3>2
    <2>3. Sizes(q.meta)[i - 1] = m
      BY <1>9, <2>1, <2>2
    <2>4. (((r.at + n) % Bytes) + m) % Bytes = (r.at + (n + m)) % Bytes
      <3>1. Bytes \in Nat \ {0} /\ r.at \in Nat /\ r.at <= Bytes - 1 /\ n + m <= Bytes
        BY <1>10, <2>2
      <3>2. Shifts(Bytes, r.at, n, m)
        BY <1>6, <3>1, RemainderShifts
      <3> QED
        BY <3>2 DEF Shifts
    <2>5. ((r.at + f[i]) % Bytes) + r.meta[1 + i].size <= Bytes
      BY <1>7, <2>1
    <2>6. (q.at + m) % Bytes = (r.at + f[i]) % Bytes
      BY <1>2, <2>2, <2>4
    <2> QED
      BY <1>4, <2>3, <2>5, <2>6
  <1>13. ASSUME NEW i \in 1..len - 1, q.meta[i].src = Padding, i < len - 1
         PROVE  q.meta[i + 1].src # Padding
    <2>1. 1 + i \in 1..len /\ 1 + i < len /\ i + 1 \in 1..len - 1 /\ (1 + i) + 1 = 1 + (i + 1)
      BY <1>3, <1>13
    <2> QED
      BY <1>4, <1>7, <1>13, <2>1
  <1>14. q.length = TotalSize(q.meta) /\ q.length <= Bytes /\ Len(q.meta) <= Slots
    <2>1. len - 1 \in 0..len - 1 /\ 1 + (len - 1) = len /\ len - 1 <= Slots
      <3>1. Slots \in Nat
        BY RingAssumption
      <3> QED
        BY <1>3, <1>7, <3>1
    <2>2. Sizes(q.meta)[len - 1] = f[len] - n
      BY <1>9, <2>1
    <2>3. r.length - n <= Bytes
      BY <1>6, <1>7, <1>10
    <2> QED
      BY <1>2, <1>4, <1>7, <2>1, <2>2, <2>3 DEF TotalSize
  <1>15. RingSound(q)
    BY <1>4, <1>12, <1>13, <1>14 DEF RingSound
  <1>16. PaddingAtEnd(q)
    <2> SUFFICES ASSUME LastIsPadding(q) PROVE FreeAt(q) = 0
      BY DEF PaddingAtEnd
    <2>1. Len(q.meta) \in 1..len - 1 /\ 1 + Len(q.meta) = len
      BY <1>3, <1>4 DEF LastIsPadding
    <2>2. LastIsPadding(r)
      BY <1>3, <1>4, <2>1 DEF LastIsPadding
    <2>3. FreeAt(r) = 0
      BY <2>2 DEF RingInv, PaddingAtEnd
    <2>4. PICK m \in Nat : m = r.length - n /\ n + m = r.length /\ n + m <= Bytes
      BY <1>6, <1>7, <1>10
    <2>5. (((r.at + n) % Bytes) + m) % Bytes = (r.at + (n + m)) % Bytes
      <3>1. Bytes \in Nat \ {0} /\ r.at \in Nat /\ r.at <= Bytes - 1 /\ n + m <= Bytes
        BY <1>10, <2>4
      <3>2. Shifts(Bytes, r.at, n, m)
        BY <1>6, <3>1, RemainderShifts
      <3> QED
        BY <3>2 DEF Shifts
    <2> QED
      BY <1>2, <2>3, <2>4, <2>5 DEF FreeAt
  <1> QED
    BY <1>2, <1>11, <1>15, <1>16 DEF RingInv, q

\* What enqueue works on: an empty payload ring starts over, and padding fills it to its end.
Clear(r) == IF r.length = 0 THEN [r EXCEPT !.at = 0] ELSE r
Pad(r) == Entry(ContiguousWindow(Clear(r)), Padding)

\* An empty payload ring may start over at its first byte.
LEMMA ClearSound ==
    ASSUME NEW r, RingInv(r)
    PROVE  /\ RingInv(Clear(r)) /\ Clear(r).meta = r.meta /\ Clear(r).length = r.length
           /\ Clear(r).length = 0 => Clear(r).at = 0
  <1>0. r \in Rings
    BY DEF RingInv
  <1>1. CASE r.length # 0
    BY <1>1 DEF Clear
  <1>2. CASE r.length = 0
    <2> DEFINE q == Clear(r)
               f == Sizes(r.meta)
    <2>1. q = [meta |-> r.meta, at |-> 0, length |-> 0]
      <3>1. r = [meta |-> r.meta, at |-> r.at, length |-> r.length]
        BY <1>0, RingFields
      <3> QED
        BY <1>2, <3>1 DEF Clear
    <2>2. q.meta = r.meta /\ q.at = 0 /\ q.length = 0
      BY <2>1
    <2>3. q \in Rings
      <3>1. 0 \in 0..Bytes - 1 /\ 0 \in 0..Bytes
        BY RingAssumption
      <3> QED
        BY <1>0, <2>1, <3>1, RingFields DEF Rings
    <2>4. PICK len \in Nat : len = Len(r.meta)
      BY <1>0, RingFields
    <2>5. DOMAIN r.meta = 1..len
      BY <1>0, <2>4, RingFields
    <2>6. /\ f[len] = 0 /\ len <= Slots
          /\ \A i \in 1..len : r.meta[i].src = Padding /\ i < len => r.meta[i + 1].src # Padding
      BY <1>2, <2>4, <2>5 DEF RingInv, RingSound, TotalSize
    <2>7. IsSizes(f, r.meta, len) /\ Sized(r.meta)
      BY <1>0, <2>4, RingFields, SizesDef
    <2>8. \A i \in 0..len : f[i] = 0
      <3> SUFFICES ASSUME NEW i \in 0..len PROVE f[i] = 0
        OBVIOUS
      <3>1. len \in i..len
        BY <2>4
      <3>2. f[i] <= f[len]
        BY <2>4, <2>7, <3>1, SizesMonotonic
      <3>3. f[i] \in Nat
        BY <2>7 DEF IsSizes
      <3> HIDE DEF f
      <3> QED
        BY <2>6, <3>2, <3>3
    <2> HIDE DEF q, f
    <2>9. 0 % Bytes = 0 /\ Bytes \in Nat
      BY RingAssumption, Remainder
    <2>10. ASSUME NEW i \in 1..len PROVE ((0 + f[i - 1]) % Bytes) + r.meta[i].size <= Bytes
      <3>1. i - 1 \in 0..len /\ i \in 0..len
        BY <2>4
      <3>2. f[i - 1] = 0 /\ f[i] = 0 /\ f[i] = f[i - 1] + r.meta[i].size
        BY <2>7, <2>8, <3>1 DEF IsSizes
      <3>3. r.meta[i].size \in Nat
        BY <2>4, <2>7 DEF Sized
      <3>4. r.meta[i].size = 0
        BY <3>2, <3>3
      <3> QED
        BY <2>9, <3>2, <3>4
    <2>11. RingSound(q)
      <3>1. TotalSize(q.meta) = 0
        BY <2>2, <2>4, <2>6 DEF TotalSize, f
      <3>2. \A i \in 1..len : ((q.at + Sizes(q.meta)[i - 1]) % Bytes) + q.meta[i].size <= Bytes
        BY <2>2, <2>10 DEF f
      <3>3. q.length <= Bytes
        BY <2>2, <2>9
      <3> QED
        BY <2>2, <2>4, <2>5, <2>6, <3>1, <3>2, <3>3 DEF RingSound
    <2>12. PaddingAtEnd(q)
      BY <2>2, <2>9 DEF PaddingAtEnd, FreeAt
    <2> QED
      BY <1>2, <2>2, <2>3, <2>11, <2>12 DEF RingInv, q
  <1> QED
    BY <1>1, <1>2

\* The ways enqueue ends.  The padding fills the ring to its end, and is smaller than the
\* datagram.
LEMMA EnqueueCases ==
    ASSUME NEW r, NEW e
    PROVE  \/ Enqueue(r, e) = Full(r) /\ (e.size > Bytes \/ Len(r.meta) = Slots)
           \/ /\ ~(e.size > Bytes) /\ Len(r.meta) # Slots
              /\ \/ /\ Enqueue(r, e) = Full(Clear(r))
                    /\ \/ Window(r) < e.size
                       \/ Pad(r).size < e.size /\ Window(r) - Pad(r).size < e.size
                 \/ /\ ~(Window(r) < e.size) /\ ~(Pad(r).size < e.size)
                    /\ Enqueue(r, e) = IF Len(Clear(r).meta) = Slots THEN Full(Clear(r))
                                       ELSE [ok |-> TRUE, ring |-> Push(Clear(r), e)]
                 \/ /\ ~(Window(r) < e.size) /\ Pad(r).size < e.size
                    /\ ~(Window(r) - Pad(r).size < e.size)
                    /\ Enqueue(r, e) =
                         LET padded == Push(Clear(r), Pad(r))
                         IN IF Len(padded.meta) = Slots THEN Full(padded)
                            ELSE [ok |-> TRUE, ring |-> Push(padded, e)]
  <1>1. Pad(r).size = ContiguousWindow(Clear(r))
    BY DEF Pad, Entry
  <1> DEFINE c == Clear(r)
             w == ContiguousWindow(c)
             padded == IF w < e.size THEN Push(c, Pad(r)) ELSE c
  <1>2. Enqueue(r, e) =
          IF e.size > Bytes \/ Len(r.meta) = Slots THEN Full(r)
          ELSE IF Window(r) < e.size THEN Full(c)
          ELSE IF w < e.size /\ Window(r) - w < e.size THEN Full(c)
          ELSE IF Len(padded.meta) = Slots THEN Full(padded)
          ELSE [ok |-> TRUE, ring |-> Push(padded, e)]
    BY DEF Enqueue, Clear, Pad
  <1> HIDE DEF c, w
  <1>3. Pad(r).size = w
    BY <1>1 DEF w, c
  <1>4. CASE w < e.size
    <2>1. padded = Push(c, Pad(r))
      BY <1>4
    <2> HIDE DEF padded
    <2> QED
      BY <1>2, <1>3, <1>4, <2>1 DEF c
  <1>5. CASE ~(w < e.size)
    <2>1. padded = c
      BY <1>5
    <2> HIDE DEF padded
    <2> QED
      BY <1>2, <1>3, <1>5, <2>1 DEF c
  <1> QED
    BY <1>4, <1>5

\* The padding reaches to the end of the payload ring, or of its room.
LEMMA PadSize ==
    ASSUME NEW r, RingInv(r)
    PROVE  /\ FreeAt(Clear(r)) \in Nat /\ FreeAt(Clear(r)) <= Bytes - 1
           /\ Window(r) \in Nat /\ Bytes \in Nat \ {0}
           /\ Pad(r).src = Padding
           /\ Pad(r).size = Least(Window(r), Bytes - FreeAt(Clear(r)))
           /\ Pad(r) \in Entries
  <1> DEFINE c == Clear(r)
  <1>1. RingInv(c) /\ c.length = r.length
    BY ClearSound
  <1> HIDE DEF c
  <1>2. c \in Rings
    BY <1>1 DEF RingInv
  <1>3. FreeAt(c) \in 0..Bytes - 1
    <2>1. PICK x \in Nat : x = c.at + c.length /\ x \in 0..2 * Bytes - 1
      BY <1>2, RingFields
    <2>2. Bytes \in Nat \ {0}
      BY RingAssumption
    <2>3. x % Bytes = IF x < Bytes THEN x ELSE x - Bytes
      BY <2>1, <2>2, Remainder
    <2>4. x % Bytes \in 0..Bytes - 1
      BY <2>1, <2>2, <2>3
    <2> QED
      BY <2>1, <2>4 DEF FreeAt
  <1>4. c.length \in 0..Bytes /\ Bytes \in Nat \ {0}
    BY <1>2, RingFields
  <1>5. Window(r) \in Nat /\ Window(c) = Window(r)
    BY <1>1, <1>4 DEF Window
  <1>6. ContiguousWindow(c) = Least(Window(r), Bytes - FreeAt(c))
    BY <1>5 DEF ContiguousWindow, FreeAt
  <1>7. Pad(r).size = ContiguousWindow(c) /\ Pad(r).src = Padding
        /\ Pad(r) = [size |-> ContiguousWindow(c), src |-> Padding]
    BY DEF Pad, Entry, c
  <1>8. FreeAt(c) \in Nat /\ FreeAt(c) <= Bytes - 1
    BY <1>3, <1>4
  <1>9. Least(Window(r), Bytes - FreeAt(c)) \in Nat
    BY <1>4, <1>5, <1>8 DEF Least
  <1>10. Pad(r) \in Entries
    BY <1>6, <1>7, <1>9 DEF Entries
  <1> QED
    BY <1>4, <1>5, <1>6, <1>7, <1>8, <1>10 DEF c

\* A datagram that fits before the end of the ring.
LEMMA PushWhole ==
    ASSUME NEW r, RingInv(r), NEW e \in Entries, e.src # Padding, Len(r.meta) < Slots,
           ~(Window(r) < e.size), ~(Pad(r).size < e.size)
    PROVE  RingInv(Push(Clear(r), e)) /\ Push(Clear(r), e).meta = Append(r.meta, e)
  <1> DEFINE c == Clear(r)
  <1>1. RingInv(c) /\ c.length = r.length /\ c.meta = r.meta /\ (c.length = 0 => c.at = 0)
    BY ClearSound
  <1>2. /\ FreeAt(c) \in Nat /\ FreeAt(c) <= Bytes - 1 /\ Window(r) \in Nat /\ Bytes \in Nat \ {0}
        /\ Pad(r).size = Least(Window(r), Bytes - FreeAt(c))
    BY PadSize
  <1>3. e.size \in Nat
    BY DEF Entries
  <1> HIDE DEF c
  <1>4. r.length \in Nat
    BY RingFields DEF RingInv
  <1>5. e.size <= Window(r)
    BY <1>2, <1>3
  <1>6. e.size <= Bytes - FreeAt(c)
    BY <1>2, <1>3 DEF Least
  <1>7. c.length + e.size <= Bytes
    BY <1>1, <1>2, <1>3, <1>4, <1>5 DEF Window
  <1>8. FreeAt(c) + e.size <= Bytes
    BY <1>2, <1>3, <1>6
  <1>9. RingInv(Push(c, e)) /\ Push(c, e).meta = Append(c.meta, e)
    BY <1>1, <1>7, <1>8, PushSound
  <1> QED
    BY <1>1, <1>9 DEF c

\* Padding goes in before a datagram that is larger, and never behind other padding.
LEMMA PushPad ==
    ASSUME NEW r, RingInv(r), NEW e \in Entries, Len(r.meta) < Slots,
           ~(Window(r) < e.size), Pad(r).size < e.size
    PROVE  LET padded == Push(Clear(r), Pad(r))
           IN /\ RingInv(padded) /\ padded.meta = Append(r.meta, Pad(r))
              /\ padded.length = r.length + Pad(r).size /\ padded.length # 0
              /\ FreeAt(padded) = 0
              /\ ~LastIsPadding(r) /\ r.meta # <<>>
  <1> DEFINE c == Clear(r)
             padded == Push(c, Pad(r))
  <1>1. RingInv(c) /\ c.length = r.length /\ c.meta = r.meta /\ (c.length = 0 => c.at = 0)
    BY ClearSound
  <1>2. /\ FreeAt(c) \in Nat /\ FreeAt(c) <= Bytes - 1 /\ Window(r) \in Nat /\ Bytes \in Nat \ {0}
        /\ Pad(r).size = Least(Window(r), Bytes - FreeAt(c))
        /\ Pad(r).src = Padding /\ Pad(r) \in Entries
    BY PadSize
  <1>3. e.size \in Nat
    BY DEF Entries
  <1> HIDE DEF c
  <1>4. r.length \in Nat
    BY RingFields DEF RingInv
  <1>5. PICK size \in Nat : size = Pad(r).size
    BY <1>2 DEF Entries
  <1>6. size = Bytes - FreeAt(c) /\ size < Window(r) /\ size >= 1
    <2>1. size < Window(r)
      BY <1>2, <1>3, <1>5
    <2>2. size = Bytes - FreeAt(c)
      BY <1>2, <1>5, <2>1 DEF Least
    <2>3. size >= 1
      BY <1>2, <1>5, <2>2
    <2> QED
      BY <2>1, <2>2, <2>3
  <1>7. FreeAt(c) + size = Bytes
    BY <1>2, <1>5, <1>6
  <1>8. c.length + size <= Bytes
    BY <1>1, <1>2, <1>4, <1>5, <1>6 DEF Window
  <1>9. FreeAt(c) # 0
    <2> SUFFICES ASSUME FreeAt(c) = 0 PROVE FALSE
      OBVIOUS
    <2>1. size = Bytes /\ Window(r) <= Bytes
      BY <1>2, <1>4, <1>6 DEF Window
    <2> QED
      BY <1>2, <1>5, <1>6, <2>1
  <1>10. ~LastIsPadding(c)
    BY <1>1, <1>9 DEF RingInv, PaddingAtEnd
  <1>11. RingInv(padded) /\ padded.meta = Append(c.meta, Pad(r)) /\ padded.length = c.length + size
    BY <1>1, <1>2, <1>5, <1>7, <1>8, <1>10, PushSound
  <1> HIDE DEF padded
  <1>12. padded.length # 0
    BY <1>1, <1>4, <1>5, <1>6, <1>11
  <1>13. LastIsPadding(padded)
    <2>1. r.meta \in Seq(Entries)
      BY RingFields DEF RingInv
    <2>2. PICK m \in Seq(Entries) : m = r.meta
      BY <2>1
    <2>3. PICK p \in Entries : p = Pad(r)
      BY <1>2
    <2>4. Append(m, p) # <<>> /\ Append(m, p)[Len(Append(m, p))] = p
      OBVIOUS
    <2> QED
      BY <1>1, <1>2, <1>11, <2>2, <2>3, <2>4 DEF LastIsPadding
  <1>14. FreeAt(padded) = 0
    BY <1>11, <1>13 DEF RingInv, PaddingAtEnd
  <1>15. r.meta # <<>>
    <2> SUFFICES ASSUME r.meta = <<>> PROVE FALSE
      OBVIOUS
    <2>1. Sizes(<<>>)[0] = 0
      <3>1. Sized(<<>>) /\ Len(<<>>) = 0
        BY DEF Sized
      <3> QED
        BY <3>1, SizesDef DEF IsSizes
    <2>2. r.length = 0
      BY <2>1 DEF RingInv, RingSound, TotalSize
    <2>3. c.at = 0 /\ c.length = 0
      BY <1>1, <2>2
    <2>4. 0 % Bytes = 0
      BY RingAssumption, Remainder
    <2> QED
      BY <1>9, <2>3, <2>4 DEF FreeAt
  <1>16. ~LastIsPadding(r)
    BY <1>1, <1>10 DEF LastIsPadding
  <1> QED
    BY <1>1, <1>5, <1>11, <1>12, <1>14, <1>15, <1>16 DEF c, padded

\* Enqueue keeps a ring sound and adds to its end.
LEMMA EnqueueSound ==
    ASSUME NEW r, RingInv(r), NEW e \in Entries, e.src # Padding
    PROVE  LET q == Enqueue(r, e).ring
           IN /\ RingInv(q)
              /\ \/ q.meta = r.meta
                 \/ q.meta = Append(r.meta, e)
                 \/ /\ Pad(r).size < e.size /\ Pad(r) \in Entries
                    /\ q.meta \in {Append(r.meta, Pad(r)), Append(Append(r.meta, Pad(r)), e)}
  <1> DEFINE q == Enqueue(r, e).ring
  <1>1. e.size \in Nat /\ Bytes \in Nat \ {0} /\ Slots \in Nat /\ Len(r.meta) \in Nat
    BY RingAssumption, RingFields DEF RingInv, Entries
  <1>2. Len(r.meta) <= Slots
    BY DEF RingInv, RingSound
  <1>3. CASE Enqueue(r, e) = Full(r)
    BY <1>3 DEF Full
  <1>4. CASE Enqueue(r, e) = Full(Clear(r))
    BY <1>4, ClearSound DEF Full
  <1>5. CASE /\ Len(r.meta) # Slots /\ ~(Window(r) < e.size) /\ ~(Pad(r).size < e.size)
             /\ Enqueue(r, e) = [ok |-> TRUE, ring |-> Push(Clear(r), e)]
    <2>1. Len(r.meta) < Slots
      BY <1>1, <1>2, <1>5
    <2>2. RingInv(Push(Clear(r), e)) /\ Push(Clear(r), e).meta = Append(r.meta, e)
      BY <1>5, <2>1, PushWhole
    <2> QED
      BY <1>5, <2>2
  <1>6. CASE /\ Len(r.meta) # Slots /\ ~(Window(r) < e.size) /\ Pad(r).size < e.size
             /\ ~(Window(r) - Pad(r).size < e.size)
             /\ Enqueue(r, e) =
                  LET padded == Push(Clear(r), Pad(r))
                  IN IF Len(padded.meta) = Slots THEN Full(padded)
                     ELSE [ok |-> TRUE, ring |-> Push(padded, e)]
    <2> DEFINE padded == Push(Clear(r), Pad(r))
    <2>1. Len(r.meta) < Slots
      BY <1>1, <1>2, <1>6
    <2>2. /\ RingInv(padded) /\ padded.meta = Append(r.meta, Pad(r))
          /\ padded.length = r.length + Pad(r).size /\ padded.length # 0 /\ FreeAt(padded) = 0
      BY <1>6, <2>1, PushPad
    <2>3. Pad(r) \in Entries
      BY PadSize
    <2>4. Enqueue(r, e) = IF Len(padded.meta) = Slots THEN Full(padded)
                          ELSE [ok |-> TRUE, ring |-> Push(padded, e)]
      BY <1>6
    <2> HIDE DEF padded
    <2>5. CASE Len(padded.meta) = Slots
      BY <1>6, <2>2, <2>3, <2>4, <2>5 DEF Full
    <2>6. CASE Len(padded.meta) # Slots
      <3>1. Len(padded.meta) < Slots
        <4>1. Len(padded.meta) \in Nat /\ Len(padded.meta) <= Slots
          BY <2>2, RingFields DEF RingInv, RingSound
        <4> QED
          BY <1>1, <2>6, <4>1
      <3>2. PICK size \in Nat, length \in Nat : size = Pad(r).size /\ length = r.length
        BY <2>3, RingFields DEF RingInv, Entries
      <3>3. ~(Bytes - length - size < e.size)
        BY <1>6, <3>2 DEF Window
      <3>4. padded.length + e.size <= Bytes
        BY <1>1, <2>2, <3>2, <3>3
      <3>5. FreeAt(padded) + e.size <= Bytes
        BY <1>1, <2>2, <3>2, <3>3
      <3>6. RingInv(Push(padded, e)) /\ Push(padded, e).meta = Append(padded.meta, e)
        BY <2>2, <3>1, <3>4, <3>5, PushSound
      <3> QED
        BY <1>6, <2>2, <2>3, <2>4, <2>6, <3>6
    <2> QED
      BY <2>5, <2>6
  <1>7. Len(Clear(r).meta) = Len(r.meta)
    BY ClearSound
  <1> HIDE DEF q
  <1> QED
    BY <1>3, <1>4, <1>5, <1>6, <1>7, EnqueueCases DEF q

\* The element behind each index of a queue without its first.
LEMMA TailOf ==
    ASSUME NEW s \in Seq(Entries), s # <<>>
    PROVE  /\ Head(s) = s[1] /\ 1 \in DOMAIN s
           /\ Tail(s) \in Seq(Entries)
           /\ \A i \in DOMAIN Tail(s) : i + 1 \in DOMAIN s /\ Tail(s)[i] = s[i + 1]
           /\ \A i \in DOMAIN s : i = 1 \/ (i - 1 \in DOMAIN Tail(s) /\ Tail(s)[i - 1] = s[i])
           /\ Tail(s) # <<>> => 2 \in DOMAIN s /\ 1 < Len(s) /\ Head(Tail(s)) = s[2]
  <1>1. Len(s) \in Nat /\ Len(s) >= 1 /\ DOMAIN s = 1..Len(s)
    OBVIOUS
  <1>2. Head(s) = s[1] /\ 1 \in DOMAIN s
    BY <1>1
  <1>3. PICK t : t = Tail(s)
    OBVIOUS
  <1>4. /\ t \in Seq(Entries) /\ Len(t) = Len(s) - 1 /\ DOMAIN t = 1..Len(s) - 1
        /\ \A i \in 1..Len(s) - 1 : t[i] = s[i + 1]
    BY <1>1, <1>3
  <1>5. \A i \in DOMAIN t : i + 1 \in DOMAIN s /\ t[i] = s[i + 1]
    BY <1>1, <1>4
  <1>6. ASSUME NEW i \in DOMAIN s, i # 1 PROVE i - 1 \in DOMAIN t /\ t[i - 1] = s[i]
    <2>1. i - 1 \in 1..Len(s) - 1 /\ (i - 1) + 1 = i
      BY <1>1, <1>6
    <2> QED
      BY <1>4, <2>1
  <1>7. ASSUME t # <<>> PROVE 2 \in DOMAIN s /\ 1 < Len(s) /\ Head(t) = s[2]
    <2>1. Len(t) \in Nat /\ Len(t) # 0 /\ Head(t) = t[1]
      BY <1>4, <1>7
    <2>2. 1 < Len(s) /\ 1 \in 1..Len(s) - 1 /\ 2 \in 1..Len(s) /\ 1 + 1 = 2
      BY <1>1, <1>4, <2>1
    <2> QED
      BY <1>1, <1>4, <2>1, <2>2
  <1>8. \A i \in DOMAIN s : i = 1 \/ (i - 1 \in DOMAIN t /\ t[i - 1] = s[i])
    BY <1>6
  <1>9. t # <<>> => 2 \in DOMAIN s /\ 1 < Len(s) /\ Head(t) = s[2]
    BY <1>7
  <1>10. t \in Seq(Entries)
    BY <1>4
  <1> QED
    BY <1>2, <1>3, <1>5, <1>8, <1>9, <1>10, Zenon

\* Dequeue drops padding, finds the first datagram if there is one, and keeps a ring sound.
LEMMA DequeueSound ==
    ASSUME NEW r, RingInv(r)
    PROVE  LET d == Dequeue(r)
           IN /\ RingInv(d.ring) /\ d.ok \in BOOLEAN
              /\ d.ok => d.entry \in Entries /\ d.entry.src # Padding
              /\ ~d.ok => d.ring.meta = <<>> /\ Datagrams(r) = {}
              /\ \A i \in DOMAIN d.ring.meta : \E j \in DOMAIN r.meta : d.ring.meta[i] = r.meta[j]
  <1> DEFINE next == DropPadding(r)
             d == Dequeue(r)
  <1>0. r.meta \in Seq(Entries)
    BY RingFields DEF RingInv
  <1>1. /\ RingInv(next)
        /\ \A i \in DOMAIN next.meta : \E j \in DOMAIN r.meta : next.meta[i] = r.meta[j]
        /\ next.meta # <<>> => Head(next.meta).src # Padding
        /\ next.meta = <<>> => Datagrams(r) = {}
    <2>1. CASE r.meta # <<>> /\ Head(r.meta).src = Padding
      <3>1. next = Pop(r)
        BY <2>1 DEF DropPadding
      <3>2. RingInv(next) /\ next.meta = Tail(r.meta)
        BY <2>1, <3>1, PopSound
      <3> HIDE DEF next
      <3>3. ASSUME next.meta # <<>> PROVE Head(next.meta).src # Padding
        <4>1. 1 \in DOMAIN r.meta /\ r.meta[1].src = Padding /\ 1 < Len(r.meta)
              /\ Head(next.meta) = r.meta[2] /\ 1 + 1 = 2
          BY <1>0, <2>1, <3>2, <3>3, TailOf
        <4> QED
          BY <4>1 DEF RingInv, RingSound
      <3>4. ASSUME next.meta = <<>> PROVE Datagrams(r) = {}
        <4>1. \A i \in DOMAIN r.meta : i = 1
          <5>1. DOMAIN Tail(r.meta) = {}
            <6>1. DOMAIN <<>> = {}
              OBVIOUS
            <6> QED
              BY <3>2, <3>4, <6>1
          <5> QED
            BY <1>0, <2>1, <5>1, TailOf
        <4>2. r.meta[1].src = Padding
          BY <1>0, <2>1, TailOf
        <4> QED
          BY <4>1, <4>2 DEF Datagrams
      <3>5. \A i \in DOMAIN next.meta : \E j \in DOMAIN r.meta : next.meta[i] = r.meta[j]
        BY <1>0, <2>1, <3>2, TailOf
      <3> QED
        BY <3>2, <3>3, <3>4, <3>5
    <2>2. CASE r.meta = <<>>
      BY <2>2 DEF DropPadding, Datagrams
    <2>3. CASE r.meta # <<>> /\ Head(r.meta).src # Padding
      BY <2>3 DEF DropPadding
    <2> QED
      BY <2>1, <2>2, <2>3
  <1>2. d = IF next.meta = <<>> THEN Full(next)
            ELSE [ok |-> TRUE, ring |-> Pop(next), entry |-> Head(next.meta)]
    BY DEF Dequeue
  <1> HIDE DEF next, d
  <1>3. CASE next.meta = <<>>
    <2>1. d.ring = next /\ d.ok = FALSE
      BY <1>2, <1>3 DEF Full
    <2> QED
      BY <1>1, <1>3, <2>1 DEF d
  <1>4. CASE next.meta # <<>>
    <2>1. d.ring = Pop(next) /\ d.ok = TRUE /\ d.entry = Head(next.meta)
      BY <1>2, <1>4
    <2>2. RingInv(Pop(next)) /\ Pop(next).meta = Tail(next.meta)
      BY <1>1, <1>4, PopSound
    <2>3. next.meta \in Seq(Entries)
      BY <1>1, RingFields DEF RingInv
    <2>4. Head(next.meta) \in Entries
      BY <1>4, <2>3
    <2>5. \A i \in DOMAIN d.ring.meta : \E j \in DOMAIN next.meta : d.ring.meta[i] = next.meta[j]
      BY <1>4, <2>1, <2>2, <2>3, TailOf
    <2>6. \A i \in DOMAIN d.ring.meta : \E j \in DOMAIN r.meta : d.ring.meta[i] = r.meta[j]
      BY <1>1, <2>5
    <2> QED
      BY <1>1, <1>4, <2>1, <2>2, <2>4, <2>6 DEF d
  <1> QED
    BY <1>3, <1>4

-----------------------------------------------------------------------------
(* The device *)

DeviceInv(d) == d \in Devices /\ WithinCredit(d)

\* The fields of a device.
LEMMA DeviceFields ==
    ASSUME NEW d \in Devices
    PROVE  /\ d.tx \in Seq(DevicePackets) /\ d.bytes \in Nat /\ d.credit \in Credits
           /\ d.credit.packets \in 0..MaxPackets /\ d.credit.bytes \in 0..MaxBytes
           /\ d.credit.packets \in Nat /\ d.credit.bytes \in Nat
           /\ Len(d.tx) \in Nat /\ DOMAIN d.tx = 1..Len(d.tx)
           /\ Sized(d.tx)
  <1>1. d.tx \in Seq(DevicePackets) /\ d.bytes \in Nat /\ d.credit \in Credits
    BY DEF Devices
  <1>2. d.credit.packets \in 0..MaxPackets /\ d.credit.bytes \in 0..MaxBytes
    BY <1>1 DEF Credits
  <1>3. d.credit.packets \in Nat /\ d.credit.bytes \in Nat
    BY <1>2, DeviceAssumption
  <1>4. Sized(d.tx)
    <2>1. \A p \in DevicePackets : p.size \in Nat
      BY DEF DevicePackets
    <2> QED
      BY <1>1, <2>1 DEF Sized
  <1>5. Len(d.tx) \in Nat /\ DOMAIN d.tx = 1..Len(d.tx)
    BY <1>1
  <1> QED
    BY <1>1, <1>2, <1>3, <1>4, <1>5

\* How many packets go: no more than the limits and the credit let.
LEMMA TakenBounds ==
    ASSUME NEW d \in Devices, NEW packets \in Nat, NEW bytes \in Nat
    PROVE  LET n == Taken(d, packets, bytes)
           IN /\ n \in 0..Len(d.tx) /\ n <= packets /\ n <= d.credit.packets
              /\ Sizes(d.tx)[n] \in Nat
              /\ Sizes(d.tx)[n] <= bytes /\ Sizes(d.tx)[n] <= d.credit.bytes
  <1> DEFINE f == Sizes(d.tx)
             most == Least(Len(d.tx), Least(packets, d.credit.packets))
             room == Least(bytes, d.credit.bytes)
             Fits(n) == f[n] <= room
             Right(n) == Fits(n) /\ (n = most \/ ~Fits(n + 1))
             T == {n \in 0..most : n = most \/ ~Fits(n + 1)}
  <1>1. Taken(d, packets, bytes) = CHOOSE n \in 0..most : Right(n)
    BY DEF Taken
  <1>2. d.credit.packets \in Nat /\ d.credit.bytes \in Nat /\ Len(d.tx) \in Nat
    BY DeviceFields
  <1>3. most \in Nat /\ most <= Len(d.tx) /\ most <= packets /\ most <= d.credit.packets
    BY <1>2 DEF Least
  <1>4. room \in Nat /\ room <= bytes /\ room <= d.credit.bytes
    BY <1>2 DEF Least
  <1>5. IsSizes(f, d.tx, Len(d.tx))
    BY DeviceFields, SizesDef
  <1> HIDE DEF f, most, room
  <1>6. \E n \in 0..most : Right(n)
    <2>1. most \in T /\ T \subseteq Nat
      BY <1>3
    <2>2. PICK m \in T : \A n \in T : m <= n
      BY <2>1, LeastNatural
    <2>3. m \in 0..most /\ (m = most \/ ~Fits(m + 1))
      BY <2>2
    <2>4. Fits(m)
      <3>1. CASE m = 0
        BY <1>4, <1>5, <3>1 DEF IsSizes
      <3>2. CASE m # 0
        <4>1. m - 1 \in 0..most /\ m - 1 \notin T /\ m - 1 # most /\ (m - 1) + 1 = m
          BY <1>3, <2>1, <2>2, <2>3, <3>2
        <4>2. Fits((m - 1) + 1)
          BY <4>1
        <4> QED
          BY <4>1, <4>2
      <3> QED
        BY <3>1, <3>2
    <2> QED
      BY <2>3, <2>4
  <1> DEFINE t == Taken(d, packets, bytes)
  <1>7. t \in 0..most /\ Right(t)
    <2> HIDE DEF Right, t
    <2> QED
      BY <1>1, <1>6 DEF t
  <1> HIDE DEF t
  <1>8. t \in 0..Len(d.tx) /\ t <= packets /\ t <= d.credit.packets
    BY <1>2, <1>3, <1>7
  <1>9. f[t] \in Nat
    BY <1>5, <1>8 DEF IsSizes
  <1>10. f[t] <= bytes /\ f[t] <= d.credit.bytes
    <2>1. f[t] <= room
      BY <1>7
    <2>2. PICK x \in Nat, y \in Nat, c \in Nat : x = f[t] /\ y = room /\ c = d.credit.bytes
      BY <1>2, <1>4, <1>9
    <2> QED
      BY <1>4, <2>1, <2>2
  <1> QED
    BY <1>8, <1>9, <1>10 DEF t, f

\* Packets handed over take with them the credit that let them in.
LEMMA TakeTransmitSound ==
    ASSUME NEW d, DeviceInv(d), NEW packets \in Nat, NEW bytes \in Nat
    PROVE  /\ DeviceInv(TakeTransmit(d, packets, bytes))
           /\ Len(TakeTransmit(d, packets, bytes).tx) <= Len(d.tx)
           /\ TransmitCreditAvailable(TakeTransmit(d, packets, bytes)) <=> TransmitCreditAvailable(d)
  <1> DEFINE e == TakeTransmit(d, packets, bytes)
             n == Taken(d, packets, bytes)
             f == Sizes(d.tx)
             g == Sizes(e.tx)
  <1>0. d \in Devices
    BY DEF DeviceInv
  <1>1. /\ n \in 0..Len(d.tx) /\ n <= d.credit.packets
        /\ f[n] \in Nat /\ f[n] <= d.credit.bytes
    BY <1>0, TakenBounds
  <1>2. e = [tx |-> SubSeq(d.tx, n + 1, Len(d.tx)), bytes |-> d.bytes - f[n],
             credit |-> [packets |-> d.credit.packets - n, bytes |-> d.credit.bytes - f[n]]]
    BY DEF TakeTransmit
  <1> HIDE DEF e, n
  <1>3. PICK len \in Nat : len = Len(d.tx)
    BY <1>0, DeviceFields
  <1>4. /\ e.tx \in Seq(DevicePackets) /\ Len(e.tx) = len - n /\ DOMAIN e.tx = 1..len - n
        /\ \A i \in 1..len - n : e.tx[i] = d.tx[n + i]
    <2>1. PICK s \in Seq(DevicePackets) : s = d.tx
      BY <1>0, DeviceFields
    <2>2. PICK k \in Nat : k = n /\ k <= len
      BY <1>1, <1>3
    <2>3. PICK t : t = SubSeq(s, k + 1, Len(s))
      OBVIOUS
    <2>4. t \in Seq(DevicePackets)
      <3>1. \A i \in k + 1..Len(s) : i \in DOMAIN s
        BY <2>2
      <3> QED
        BY <2>2, <2>3, <3>1
    <2>5. Len(t) = Len(s) - k /\ DOMAIN t = 1..Len(s) - k
      BY <1>3, <2>1, <2>2, <2>3
    <2>6. \A i \in 1..Len(s) - k : t[i] = s[k + i]
      BY <1>3, <2>1, <2>2, <2>3
    <2> QED
      BY <1>2, <1>3, <2>1, <2>2, <2>3, <2>4, <2>5, <2>6
  <1>5. \A k \in 0..len - n : g[k] = f[n + k] - f[n]
    <2>1. PICK s, t, m : s = d.tx /\ t = e.tx /\ m = n
      OBVIOUS
    <2>2. Sized(s) /\ m \in 0..Len(s)
      BY <1>0, <1>1, <2>1, DeviceFields
    <2>3. IsRest(t, s, m)
      BY <1>3, <1>4, <2>1 DEF IsRest
    <2>4. SizesOfRest(t, s, m)
      BY <2>2, <2>3, SizesRest
    <2> QED
      BY <1>4, <2>1, <2>4 DEF SizesOfRest
  <1>6. IsSizes(f, d.tx, len)
    BY <1>0, <1>3, DeviceFields, SizesDef
  <1> HIDE DEF f, g
  <1>7. /\ d.bytes = f[len]
        /\ \A i \in 1..len : ~d.tx[i].reply => i <= d.credit.packets /\ f[i - 1] < d.credit.bytes
    <2>1. DOMAIN d.tx = 1..len
      BY <1>0, <1>3, DeviceFields
    <2> QED
      BY <1>3, <2>1 DEF DeviceInv, WithinCredit, TotalSize, f
  <1>8. n \in Nat /\ n <= len /\ len - n \in Nat
    BY <1>1, <1>3
  <1>9. e \in Devices
    <2>1. f[n] <= f[len]
      <3>1. n \in 0..Len(d.tx) /\ len \in n..Len(d.tx)
        BY <1>3, <1>8
      <3> QED
        BY <1>0, <1>3, <3>1, DeviceFields, SizesMonotonic DEF f
    <2>2. PICK p \in Nat, b \in Nat : p = d.credit.packets /\ b = d.credit.bytes
      BY <1>0, DeviceFields
    <2>3. p <= MaxPackets /\ b <= MaxBytes /\ MaxPackets \in Nat /\ MaxBytes \in Nat
      BY <1>0, <2>2, DeviceFields, DeviceAssumption
    <2>4. p - n \in 0..MaxPackets /\ b - f[n] \in 0..MaxBytes
      BY <1>1, <1>8, <2>2, <2>3
    <2>5. d.bytes - f[n] \in Nat
      <3>1. f[len] \in Nat
        BY <1>3, <1>6 DEF IsSizes
      <3> QED
        BY <1>1, <1>7, <2>1, <3>1
    <2>6. e.credit \in Credits
      BY <1>2, <2>2, <2>4 DEF Credits
    <2> QED
      BY <1>2, <1>4, <2>5, <2>6 DEF Devices
  <1>10. e.bytes = TotalSize(e.tx)
    <2>1. len - n \in 0..len - n /\ n + (len - n) = len
      BY <1>8
    <2>2. g[len - n] = f[len] - f[n]
      BY <1>5, <2>1
    <2> QED
      BY <1>2, <1>4, <1>7, <2>2 DEF TotalSize, g
  <1>11. ASSUME NEW i \in 1..len - n, ~e.tx[i].reply
         PROVE  i <= e.credit.packets /\ g[i - 1] < e.credit.bytes
    <2>1. /\ n + i \in 1..len /\ i - 1 \in 0..len - n
          /\ (n + i) - 1 = n + (i - 1) /\ n + (i - 1) \in 0..len
      BY <1>8
    <2>2. n + i <= d.credit.packets /\ f[n + (i - 1)] < d.credit.bytes
      BY <1>4, <1>7, <1>11, <2>1
    <2>3. g[i - 1] = f[n + (i - 1)] - f[n]
      BY <1>5, <2>1
    <2>4. f[n + (i - 1)] \in Nat /\ d.credit.packets \in Nat /\ d.credit.bytes \in Nat
      BY <1>0, <1>6, <2>1, DeviceFields DEF IsSizes
    <2>5. i <= d.credit.packets - n /\ g[i - 1] < d.credit.bytes - f[n]
      BY <1>1, <1>8, <2>2, <2>3, <2>4
    <2> QED
      BY <1>2, <2>5
  <1>12. WithinCredit(e)
    BY <1>4, <1>10, <1>11 DEF WithinCredit, g
  <1>13. Len(e.tx) <= Len(d.tx)
    BY <1>3, <1>4, <1>8
  <1>14. TransmitCreditAvailable(e) <=> TransmitCreditAvailable(d)
    <2>1. PICK p \in Nat, b \in Nat, m \in Nat, c \in Nat, z \in Nat :
            /\ p = d.credit.packets /\ b = d.credit.bytes /\ m = n /\ c = d.bytes /\ z = f[n]
      BY <1>0, <1>1, <1>8, DeviceFields
    <2>2. (len - m < p - m <=> len < p) /\ (c - z < b - z <=> c < b)
      OBVIOUS
    <2>3. /\ Len(e.tx) = len - m /\ e.bytes = c - z
          /\ e.credit.packets = p - m /\ e.credit.bytes = b - z
      BY <1>2, <1>4, <2>1
    <2> QED
      BY <1>3, <2>1, <2>2, <2>3 DEF TransmitCreditAvailable
  <1> QED
    BY <1>9, <1>12, <1>13, <1>14 DEF DeviceInv, e

\* A packet joins the queue: a reply, or what the credit covers.
LEMMA TransmitSound ==
    ASSUME NEW d, DeviceInv(d), NEW p \in DevicePackets, p.reply \/ TransmitCreditAvailable(d)
    PROVE  DeviceInv(Transmit(d, p)) /\ Len(Transmit(d, p).tx) = Len(d.tx) + 1
  <1> DEFINE e == Transmit(d, p)
             len == Len(d.tx)
  <1>0. d \in Devices
    BY DEF DeviceInv
  <1>1. e = [tx |-> Append(d.tx, p), bytes |-> d.bytes + p.size, credit |-> d.credit]
    BY DEF Transmit
  <1> HIDE DEF e
  <1>2. p.size \in Nat
    BY DEF DevicePackets
  <1>3. /\ len \in Nat /\ DOMAIN d.tx = 1..len /\ DOMAIN e.tx = 1..len + 1 /\ Len(e.tx) = len + 1
        /\ e.tx \in Seq(DevicePackets) /\ e.tx[len + 1] = p /\ \A i \in 1..len : e.tx[i] = d.tx[i]
    BY <1>0, <1>1, DeviceFields
  <1>4. e \in Devices
    BY <1>0, <1>1, <1>2, <1>3, DeviceFields DEF Devices
  <1>5. /\ \A n \in 0..len : Sizes(e.tx)[n] = Sizes(d.tx)[n]
        /\ TotalSize(e.tx) = TotalSize(d.tx) + p.size
    BY <1>0, <1>1, <1>2, DeviceFields, SizesAppend
  <1>6. /\ d.bytes = TotalSize(d.tx)
        /\ \A i \in 1..len : ~d.tx[i].reply =>
             i <= d.credit.packets /\ Sizes(d.tx)[i - 1] < d.credit.bytes
    BY <1>3 DEF DeviceInv, WithinCredit
  <1>7. ASSUME NEW i \in 1..len + 1, ~e.tx[i].reply
        PROVE  i <= e.credit.packets /\ Sizes(e.tx)[i - 1] < e.credit.bytes
    <2>1. CASE i \in 1..len
      <3>1. i - 1 \in 0..len
        BY <1>3
      <3> QED
        BY <1>1, <1>3, <1>5, <1>6, <1>7, <2>1, <3>1
    <2>2. CASE i = len + 1
      <3>1. len < d.credit.packets /\ d.bytes < d.credit.bytes
        BY <1>3, <1>7, <2>2 DEF TransmitCreditAvailable
      <3>2. i - 1 = len /\ len \in 0..len
        BY <1>3, <2>2
      <3>3. Sizes(e.tx)[i - 1] = d.bytes
        BY <1>5, <1>6, <3>2 DEF TotalSize
      <3>4. i <= d.credit.packets
        BY <1>0, <1>3, <2>2, <3>1, DeviceFields
      <3> QED
        BY <1>1, <3>1, <3>3, <3>4
    <2> QED
      BY <1>3, <2>1, <2>2
  <1>8. WithinCredit(e)
    BY <1>1, <1>3, <1>5, <1>6, <1>7 DEF WithinCredit
  <1> QED
    BY <1>3, <1>4, <1>8 DEF DeviceInv, e

\* More credit lets in what the credit before let in.
LEMMA GrantSound ==
    ASSUME NEW d, DeviceInv(d), NEW packets \in Nat, NEW bytes \in Nat
    PROVE  DeviceInv(GrantEgress(d, packets, bytes)) /\ GrantEgress(d, packets, bytes).tx = d.tx
  <1> DEFINE e == GrantEgress(d, packets, bytes)
             p == Least(d.credit.packets + packets, MaxPackets)
             b == Least(d.credit.bytes + bytes, MaxBytes)
  <1>0. d \in Devices
    BY DEF DeviceInv
  <1>1. e = [tx |-> d.tx, bytes |-> d.bytes, credit |-> [packets |-> p, bytes |-> b]]
    <2>1. d = [tx |-> d.tx, bytes |-> d.bytes, credit |-> d.credit]
      BY <1>0 DEF Devices
    <2> QED
      BY <2>1 DEF GrantEgress
  <1>2. /\ d.credit.packets \in Nat /\ d.credit.packets <= MaxPackets /\ MaxPackets \in Nat
        /\ d.credit.bytes \in Nat /\ d.credit.bytes <= MaxBytes /\ MaxBytes \in Nat
    BY <1>0, DeviceFields, DeviceAssumption
  <1>3. p \in 0..MaxPackets /\ d.credit.packets <= p
    BY <1>2 DEF Least
  <1>4. b \in 0..MaxBytes /\ d.credit.bytes <= b
    BY <1>2 DEF Least
  <1> HIDE DEF e, p, b
  <1>5. e.tx = d.tx /\ e.bytes = d.bytes /\ e.credit.packets = p /\ e.credit.bytes = b
    BY <1>1
  <1>6. e \in Devices
    <2>1. [packets |-> p, bytes |-> b] \in Credits
      BY <1>3, <1>4 DEF Credits
    <2> QED
      BY <1>0, <1>1, <2>1, DeviceFields DEF Devices
  <1>7. ASSUME NEW i \in DOMAIN d.tx, ~d.tx[i].reply
        PROVE  i <= p /\ Sizes(d.tx)[i - 1] < b
    <2>1. i <= d.credit.packets /\ Sizes(d.tx)[i - 1] < d.credit.bytes
      BY <1>7 DEF DeviceInv, WithinCredit
    <2>2. i \in Nat /\ i - 1 \in 0..Len(d.tx)
      BY <1>0, DeviceFields
    <2>3. Sizes(d.tx)[i - 1] \in Nat
      BY <1>0, <2>2, DeviceFields, SizesNat
    <2>4. i <= p
      BY <1>2, <1>3, <2>1, <2>2
    <2>5. Sizes(d.tx)[i - 1] < b
      BY <1>2, <1>4, <2>1, <2>3
    <2> QED
      BY <2>4, <2>5
  <1>8. WithinCredit(e)
    BY <1>5, <1>7 DEF DeviceInv, WithinCredit
  <1> QED
    BY <1>5, <1>6, <1>8 DEF DeviceInv, e

-----------------------------------------------------------------------------
(* Types, rings and credit *)

SoundInv == TypeOK /\ RingsInv /\ CreditIsKept

\* What a step leaves alone keeps its type and its invariant.
LEMMA SocketFrame == SocketOK /\ UNCHANGED socketVars => SocketOK'
  BY DEF SocketOK, socketVars

LEMMA RingsFrame == RingsOK /\ RingsInv /\ UNCHANGED ringVars => RingsOK' /\ RingsInv'
  BY DEF RingsOK, RingsInv, ringVars

LEMMA WakeFrame == WakeOK /\ UNCHANGED wakeVars => WakeOK'
  BY DEF WakeOK, wakeVars

LEMMA QueueFrame == QueueOK /\ UNCHANGED queue => QueueOK'
  BY DEF QueueOK

LEMMA DriveFrame == DriveOK /\ CreditIsKept /\ UNCHANGED driveVars => DriveOK' /\ CreditIsKept'
  BY DEF DriveOK, CreditIsKept, driveVars

\* The limits are numbers.
LEMMA Limits ==
    /\ OutputPackets \in Nat /\ BytesCopied \in Nat /\ InputPackets \in Nat \ {0}
    /\ Members \in Nat \ {0} /\ Slots \in Nat \ {0}
  BY DeviceAssumption, UdpAssumption, RingAssumption

\* The first hand-over of a drive.
LEMMA BeginDriveSound ==
    ASSUME DriveOK, NEW d, DeviceInv(d), Len(d.tx) <= OutputPackets, BeginDrive(d)
    PROVE  DriveOK' /\ CreditIsKept'
  <1> DEFINE n == Taken(d, OutputPackets, BytesCopied)
             m == Sizes(d.tx)[n]
  <1>1. /\ dev' = TakeTransmit(d, OutputPackets, BytesCopied)
        /\ drive' = [work |-> 0, remain |-> FALSE, packets |-> OutputPackets - n,
                     bytes |-> BytesCopied - m]
        /\ step' = "ingress" /\ scan' = NoScan /\ polled' = polled
    BY DEF BeginDrive
  <1>2. d \in Devices
    BY DEF DeviceInv
  <1>3. n \in Nat /\ n <= OutputPackets /\ m \in Nat /\ m <= BytesCopied
    <2>1. n \in 0..Len(d.tx) /\ n <= OutputPackets /\ m \in Nat /\ m <= BytesCopied
      BY <1>2, Limits, TakenBounds
    <2>2. Len(d.tx) \in Nat
      BY <1>2, DeviceFields
    <2> QED
      BY <2>1, <2>2
  <1> HIDE DEF n, m
  <1>4. OutputPackets - n \in 0..OutputPackets /\ BytesCopied - m \in 0..BytesCopied
    BY <1>3, Limits
  <1>5. drive' \in Drives
    BY <1>1, <1>4 DEF Drives
  <1>6. scan' \in Scans
    <2>1. 0 \in 0..Slots - 1 /\ 0 \in Member
      BY Limits DEF Member
    <2> QED
      BY <1>1, <2>1 DEF Scans, NoScan
  <1>7. DeviceInv(dev') /\ Len(dev'.tx) <= Len(d.tx)
    BY <1>1, Limits, TakeTransmitSound
  <1>8. Len(dev'.tx) <= OutputPackets
    <2>1. Len(dev'.tx) \in Nat /\ Len(d.tx) \in Nat
      BY <1>2, <1>7, DeviceFields DEF DeviceInv
    <2> QED
      BY <1>7, <2>1, Limits
  <1> QED
    BY <1>1, <1>5, <1>6, <1>7, <1>8 DEF DriveOK, CreditIsKept, DeviceInv

\* The last hand-over, and the end of the drive.
LEMMA EndDriveSound ==
    ASSUME DriveOK, CreditIsKept, NEW ring, NEW remain, EndDrive(ring, remain)
    PROVE  DriveOK' /\ CreditIsKept'
  <1> DEFINE d == TakeTransmit(dev, drive.packets, drive.bytes)
  <1>1. /\ dev' = d /\ polled' = Due(ring, d, remain)
        /\ step' = "idle" /\ drive' = NoDrive /\ scan' = scan
    BY DEF EndDrive
  <1>2. drive.packets \in Nat /\ drive.bytes \in Nat
    <2>1. drive.packets \in 0..OutputPackets /\ drive.bytes \in 0..BytesCopied
      BY DEF DriveOK, Drives
    <2> QED
      BY <2>1, Limits
  <1>3. DeviceInv(d) /\ Len(d.tx) <= Len(dev.tx)
    BY <1>2, TakeTransmitSound DEF DriveOK, CreditIsKept, DeviceInv
  <1>4. Len(d.tx) <= OutputPackets
    <2>1. Len(d.tx) \in Nat /\ Len(dev.tx) \in Nat /\ Len(dev.tx) <= OutputPackets
      BY <1>3, DeviceFields DEF DeviceInv, DriveOK
    <2> QED
      BY <1>3, <2>1, Limits
  <1> HIDE DEF d
  <1>5. drive' \in Drives
    <2>1. 0 \in 0..OutputPackets /\ 0 \in 0..BytesCopied /\ 0 \in Nat
      BY Limits
    <2> QED
      BY <1>1, <2>1 DEF Drives, NoDrive
  <1>6. polled' \in BOOLEAN
    BY <1>1 DEF Due
  <1>7. DriveOK'
    BY <1>1, <1>3, <1>4, <1>5, <1>6 DEF DriveOK, DeviceInv
  <1> QED
    BY <1>1, <1>3, <1>7 DEF CreditIsKept, DeviceInv

\* The members' rings, after one of them was replaced.
LEMMA RxSound ==
    ASSUME RingsOK, RingsInv, NEW i \in Member, NEW r, RingInv(r),
           rx' = [rx EXCEPT ![i] = r], tx' = tx
    PROVE  RingsOK' /\ RingsInv'
  <1>1. r \in Rings
    BY DEF RingInv
  <1>2. rx' \in [Member -> Rings]
    BY <1>1 DEF RingsOK
  <1>3. \A j \in Member : rx'[j] = IF j = i THEN r ELSE rx[j]
    BY DEF RingsOK
  <1>4. \A j \in Member : RingInv(rx'[j])
    BY <1>3 DEF RingsInv
  <1> QED
    BY <1>2, <1>4 DEF RingsOK, RingsInv

\* The cursor and the scan stay among the members.
LEMMA MemberType ==
    ASSUME TypeOK
    PROVE  /\ Scanned \in Member /\ (Scanned + 1) % Members \in Member
           /\ cursor \in Nat /\ cursor < Members /\ scan.offset \in Nat /\ scan.offset < Members
  <1>1. PICK m \in Nat \ {0}, c \in Nat, o \in Nat :
          m = Members /\ c = cursor /\ o = scan.offset /\ c <= m - 1 /\ o <= m - 1
    <2>1. cursor \in Member /\ scan.offset \in Member
      BY DEF TypeOK, SocketOK, DriveOK, Scans
    <2> QED
      BY <2>1, Limits DEF Member
  <1>2. (c + o) % m \in 0..m - 1
    BY SMTT(20)
  <1>3. (((c + o) % m) + 1) % m \in 0..m - 1
    BY <1>2, SMTT(20)
  <1> QED
    BY <1>1, <1>2, <1>3 DEF Scanned, Member

\* What recvfrom takes from the ring it is at.
LEMMA ReceivedSound ==
    ASSUME TypeOK, RingsInv
    PROVE  /\ RingInv(Received.ring) /\ Received.ok \in BOOLEAN
           /\ Received.ok => Received.entry \in Entries /\ Received.entry.src # Padding
           /\ ~Received.ok => Received.ring.meta = <<>> /\ Datagrams(rx[Scanned]) = {}
  <1>1. RingInv(rx[Scanned])
    BY MemberType DEF RingsInv
  <1> QED
    BY <1>1, DequeueSound DEF Received

\* What sendto puts into the ring.
LEMMA SentEntry ==
    ASSUME NEW n \in SendSizes
    PROVE  Entry(n, None) \in Entries /\ Entry(n, None).src # Padding /\ Entry(n, None).size = n
  BY UdpAssumption DEF Entry, Entries, None, Padding

\* The first packet of the receive queue.
LEMMA HeadPacket ==
    ASSUME QueueOK, queue # <<>>
    PROVE  /\ Head(queue) \in Packets /\ Tail(queue) \in Seq(Packets)
           /\ Len(Tail(queue)) <= InputPackets
  BY Limits DEF QueueOK

\* What arrives for a member is an entry of its ring.
LEMMA ReceivedEntry ==
    ASSUME NEW p \in Packets, p.to # Nobody
    PROVE  /\ p.to \in Member
           /\ Entry(p.size, p.src) \in Entries /\ Entry(p.size, p.src).src # Padding
  <1>1. p \in [to : Member, src : Sources, size : ReceiveSizes]
    BY DEF Packets
  <1>2. p.to \in Member /\ p.src \in Sources /\ p.size \in Nat
    BY <1>1, UdpAssumption
  <1> QED
    BY <1>2, UdpAssumption DEF Entry, Entries

\* A new ring is sound.
LEMMA EmptyRingSound == RingInv(EmptyRing)
  <1>1. Sizes(<<>>)[0] = 0
    <2>1. Sized(<<>>) /\ Len(<<>>) = 0
      BY DEF Sized
    <2> QED
      BY <2>1, SizesDef DEF IsSizes
  <1>2. 0 \in 0..Bytes - 1 /\ 0 \in 0..Bytes /\ 0 <= Slots /\ 0 <= Bytes
    BY RingAssumption
  <1>3. <<>> \in Seq(Entries) /\ Len(<<>>) = 0 /\ DOMAIN <<>> = {}
    OBVIOUS
  <1>4. EmptyRing.meta = <<>> /\ EmptyRing.at = 0 /\ EmptyRing.length = 0 /\ EmptyRing \in Rings
    BY <1>2, <1>3 DEF EmptyRing, Rings
  <1>5. RingSound(EmptyRing)
    BY <1>1, <1>2, <1>3, <1>4 DEF RingSound, TotalSize
  <1> QED
    BY <1>4, <1>5 DEF RingInv, PaddingAtEnd, LastIsPadding

\* The socket, its rings and the device start sound.
LEMMA SoundInit == Init => SoundInv
  <1> SUFFICES ASSUME Init PROVE SoundInv
    OBVIOUS
  <1>1. RingInv(EmptyRing)
    BY EmptyRingSound
  <1>2. EmptyRing \in Rings
    BY <1>1 DEF RingInv
  <1>3. RingsOK /\ RingsInv
    BY <1>1, <1>2 DEF Init, NewRx, RingsOK, RingsInv
  <1>4. 0 \in Member /\ 0 \in 0..Slots - 1
    BY Limits DEF Member
  <1>5. SocketOK /\ WakeOK
    BY <1>4 DEF Init, SocketOK, WakeOK
  <1>6. QueueOK
    BY Limits DEF Init, QueueOK
  <1>7. dev \in Devices /\ dev.tx = <<>> /\ dev.bytes = 0
    <2>1. 0 \in 0..MaxPackets /\ 0 \in 0..MaxBytes /\ <<>> \in Seq(DevicePackets) /\ 0 \in Nat
      BY DeviceAssumption
    <2> QED
      BY <2>1 DEF Init, NewDevice, Devices, Credits
  <1>8. DriveOK
    <2>1. 0 \in 0..OutputPackets /\ 0 \in 0..BytesCopied /\ 0 \in Nat /\ Len(<<>>) <= OutputPackets
      BY Limits
    <2>2. drive \in Drives
      BY <2>1 DEF Init, NoDrive, Drives
    <2>3. scan \in Scans
      BY <1>4 DEF Init, NoScan, Scans
    <2> QED
      BY <1>7, <2>1, <2>2, <2>3 DEF Init, DriveOK
  <1>9. CreditIsKept
    <2>1. Sizes(<<>>)[0] = 0 /\ Len(<<>>) = 0
      <3>1. Sized(<<>>) /\ Len(<<>>) = 0
        BY DEF Sized
      <3> QED
        BY <3>1, SizesDef DEF IsSizes
    <2>2. DOMAIN <<>> = {}
      OBVIOUS
    <2> QED
      BY <1>7, <2>1, <2>2 DEF CreditIsKept, WithinCredit, TotalSize
  <1> QED
    BY <1>3, <1>5, <1>6, <1>8, <1>9 DEF SoundInv, TypeOK

\* The steps of a drive.
LEMMA IngestDatagramSound == SoundInv /\ IngestDatagram => SoundInv'
  <1> SUFFICES ASSUME SoundInv, IngestDatagram PROVE SoundInv'
    OBVIOUS
  <1> DEFINE p == Head(queue)
             r == Enqueue(rx[p.to], Entry(p.size, p.src)).ring
  <1>0. TypeOK /\ SocketOK /\ RingsOK /\ RingsInv /\ WakeOK /\ QueueOK /\ DriveOK /\ CreditIsKept
    BY DEF SoundInv, TypeOK
  <1>1. /\ queue # <<>> /\ p.to # Nobody
        /\ rx' = [rx EXCEPT ![p.to] = r] /\ tx' = tx
        /\ Wake(p.to, Read)
        /\ queue' = Tail(queue) /\ drive' = [drive EXCEPT !.work = @ + 1]
        /\ UNCHANGED <<socketVars, dev, scan, step, polled>>
    BY DEF IngestDatagram, IngestGoes, HasSocket
  <1>2. p \in Packets /\ QueueOK'
    BY <1>0, <1>1, HeadPacket DEF QueueOK
  <1>3. p.to \in Member /\ Entry(p.size, p.src) \in Entries /\ Entry(p.size, p.src).src # Padding
    BY <1>1, <1>2, ReceivedEntry
  <1>4. RingInv(r)
    BY <1>0, <1>3, EnqueueSound DEF RingsInv
  <1> HIDE DEF p, r
  <1>5. RingsOK' /\ RingsInv'
    BY <1>0, <1>1, <1>3, <1>4, RxSound
  <1>6. WakeOK'
    BY <1>0, <1>1 DEF Wake, WakeOK
  <1>7. drive' \in Drives
    BY <1>0, <1>1 DEF DriveOK, Drives
  <1>8. DriveOK' /\ CreditIsKept'
    BY <1>0, <1>1, <1>7 DEF DriveOK, CreditIsKept
  <1>9. SocketOK'
    BY <1>0, <1>1, SocketFrame
  <1> QED
    BY <1>2, <1>5, <1>6, <1>8, <1>9 DEF SoundInv, TypeOK

\* A reply goes into the device without credit.
LEMMA IngestReplySound == SoundInv /\ IngestReply => SoundInv'
  <1> SUFFICES ASSUME SoundInv, IngestReply PROVE SoundInv'
    OBVIOUS
  <1>0. SocketOK /\ RingsOK /\ RingsInv /\ WakeOK /\ QueueOK /\ DriveOK /\ CreditIsKept
    BY DEF SoundInv, TypeOK
  <1> DEFINE reply == [size |-> ReplyBytes, reply |-> TRUE]
  <1>1. /\ queue # <<>> /\ CanReceive(dev)
        /\ dev' = Transmit(dev, reply)
        /\ queue' = Tail(queue) /\ drive' = [drive EXCEPT !.work = @ + 1]
        /\ UNCHANGED <<socketVars, ringVars, wakeVars, scan, step, polled>>
    BY DEF IngestReply, IngestGoes
  <1>2. QueueOK'
    BY <1>0, <1>1, HeadPacket DEF QueueOK
  <1>3. reply \in DevicePackets /\ reply.reply = TRUE
    BY UdpAssumption DEF DevicePackets
  <1> HIDE DEF reply
  <1>4. DeviceInv(dev') /\ Len(dev'.tx) = Len(dev.tx) + 1
    BY <1>0, <1>1, <1>3, TransmitSound DEF DriveOK, CreditIsKept, DeviceInv
  <1>5. Len(dev'.tx) <= OutputPackets
    <2>1. Len(dev.tx) \in Nat
      BY <1>0, DeviceFields DEF DriveOK
    <2> QED
      BY <1>1, <1>4, <2>1, Limits DEF CanReceive
  <1>6. drive' \in Drives
    BY <1>0, <1>1 DEF DriveOK, Drives
  <1>7. DriveOK' /\ CreditIsKept'
    BY <1>0, <1>1, <1>4, <1>5, <1>6 DEF DriveOK, CreditIsKept, DeviceInv
  <1> QED
    BY <1>0, <1>1, <1>2, <1>7, SocketFrame, RingsFrame, WakeFrame DEF SoundInv, TypeOK

\* A datagram leaves the ring for the device only with credit.
LEMMA EgressSendsSound == SoundInv /\ EgressSends => SoundInv'
  <1> SUFFICES ASSUME SoundInv, EgressSends PROVE SoundInv'
    OBVIOUS
  <1>0. SocketOK /\ RingsOK /\ RingsInv /\ WakeOK /\ QueueOK /\ DriveOK /\ CreditIsKept
    BY DEF SoundInv, TypeOK
  <1> DEFINE d == Dequeue(tx)
             p == [size |-> d.entry.size + HeaderBytes, reply |-> FALSE]
  <1>1. /\ CanReceive(dev) /\ TransmitCreditAvailable(dev)
        /\ d.ok /\ tx' = d.ring /\ rx' = rx /\ dev' = Transmit(dev, p)
        /\ Wake(Sender, Write)
        /\ drive' = [work |-> drive.work + 1, remain |-> TRUE, packets |-> drive.packets,
                     bytes |-> drive.bytes]
        /\ UNCHANGED <<socketVars, queue, scan, step, polled>>
    BY DEF EgressSends, EgressGoes
  <1>2. RingInv(d.ring) /\ d.entry \in Entries
    BY <1>0, <1>1, DequeueSound DEF RingsInv
  <1>3. p \in DevicePackets
    <2>1. d.entry.size \in Nat
      BY <1>2 DEF Entries
    <2>2. d.entry.size + HeaderBytes \in Nat
      BY <2>1, UdpAssumption
    <2> QED
      BY <2>2 DEF DevicePackets
  <1> HIDE DEF d, p
  <1>4. RingsOK' /\ RingsInv'
    BY <1>0, <1>1, <1>2 DEF RingsOK, RingsInv, RingInv
  <1>5. DeviceInv(dev') /\ Len(dev'.tx) = Len(dev.tx) + 1
    BY <1>0, <1>1, <1>3, TransmitSound DEF DriveOK, CreditIsKept, DeviceInv
  <1>6. Len(dev'.tx) <= OutputPackets
    <2>1. Len(dev.tx) \in Nat
      BY <1>0, DeviceFields DEF DriveOK
    <2> QED
      BY <1>1, <1>5, <2>1, Limits DEF CanReceive
  <1>7. drive' \in Drives
    BY <1>0, <1>1 DEF DriveOK, Drives
  <1>8. DriveOK' /\ CreditIsKept'
    BY <1>0, <1>1, <1>5, <1>6, <1>7 DEF DriveOK, CreditIsKept, DeviceInv
  <1>9. WakeOK'
    BY <1>0, <1>1 DEF Wake, WakeOK
  <1> QED
    BY <1>0, <1>1, <1>4, <1>8, <1>9, SocketFrame, QueueFrame DEF SoundInv, TypeOK

\* The loops of a drive end.
LEMMA IngestEndsSound == SoundInv /\ IngestEnds => SoundInv'
  <1> SUFFICES ASSUME SoundInv, IngestEnds PROVE SoundInv'
    OBVIOUS
  <1>0. SocketOK /\ RingsOK /\ RingsInv /\ WakeOK /\ QueueOK /\ DriveOK /\ CreditIsKept
    BY DEF SoundInv, TypeOK
  <1>1. /\ step' = "egress" /\ drive' = [drive EXCEPT !.work = 0]
        /\ UNCHANGED <<socketVars, ringVars, wakeVars, queue, dev, scan, polled>>
    BY DEF IngestEnds
  <1>2. drive' \in Drives
    BY <1>0, <1>1 DEF DriveOK, Drives
  <1>3. DriveOK' /\ CreditIsKept'
    BY <1>0, <1>1, <1>2 DEF DriveOK, CreditIsKept
  <1> QED
    BY <1>0, <1>1, <1>3, SocketFrame, RingsFrame, WakeFrame, QueueFrame DEF SoundInv, TypeOK

LEMMA EndDriveKeepsSound == SoundInv /\ (EgressFindsNone \/ EgressStops) => SoundInv'
  <1> SUFFICES ASSUME SoundInv, EgressFindsNone \/ EgressStops PROVE SoundInv'
    OBVIOUS
  <1>0. SocketOK /\ RingsOK /\ RingsInv /\ WakeOK /\ QueueOK /\ DriveOK /\ CreditIsKept
    BY DEF SoundInv, TypeOK
  <1>1. \E remain, ring : EndDrive(ring, remain) /\ ring \in {tx, Dequeue(tx).ring}
    BY DEF EgressFindsNone, EgressStops
  <1>2. PICK ring : (\E remain : EndDrive(ring, remain)) /\ ring \in {tx, Dequeue(tx).ring}
    BY <1>1
  <1>3. PICK remain : EndDrive(ring, remain)
    BY <1>2
  <1>4. RingInv(ring)
    BY <1>0, <1>2, DequeueSound DEF RingsInv
  <1>5. tx' = ring /\ rx' = rx /\ UNCHANGED <<socketVars, wakeVars, queue>>
    BY <1>3 DEF EndDrive
  <1>6. RingsOK' /\ RingsInv'
    BY <1>0, <1>4, <1>5 DEF RingsOK, RingsInv, RingInv
  <1>7. DriveOK' /\ CreditIsKept'
    BY <1>0, <1>3, EndDriveSound
  <1> QED
    BY <1>0, <1>5, <1>6, <1>7, SocketFrame, WakeFrame, QueueFrame DEF SoundInv, TypeOK

\* The calls.
LEMMA ScanSound ==
    SoundInv /\ (ScanNext \/ ScanDrop \/ ScanEnds \/ ScanLimited \/ RecvfromAnswers) => SoundInv'
  <1> SUFFICES ASSUME SoundInv, ScanNext \/ ScanDrop \/ ScanEnds \/ ScanLimited \/ RecvfromAnswers
               PROVE  SoundInv'
    OBVIOUS
  <1>0. /\ TypeOK /\ SocketOK /\ RingsOK /\ RingsInv /\ WakeOK /\ QueueOK /\ DriveOK /\ CreditIsKept
        /\ DeviceInv(dev) /\ Len(dev.tx) <= OutputPackets
    BY DEF SoundInv, TypeOK, DriveOK, CreditIsKept, DeviceInv
  <1>1. RingInv(Received.ring) /\ Scanned \in Member /\ (Scanned + 1) % Members \in Member
    BY <1>0, ReceivedSound, MemberType
  <1>2. rx' = [rx EXCEPT ![Scanned] = Received.ring] /\ tx' = tx /\ queue' = queue
    BY DEF ScanNext, ScanDrop, ScanStep, ScanEnds, ScanLimited, ScanArms, RecvfromAnswers
  <1>3. RingsOK' /\ RingsInv'
    BY <1>0, <1>1, <1>2, RxSound
  <1>4. QueueOK'
    BY <1>0, <1>2, QueueFrame
  <1>5. CASE ScanNext \/ ScanDrop
    <2>1. UNCHANGED <<socketVars, wakeVars, dev, drive, step, polled>>
      BY <1>5 DEF ScanNext, ScanDrop, ScanStep
    <2>2. PICK o \in Nat, n \in Nat, m \in Nat \ {0}, k \in Nat \ {0} :
            /\ scan = [offset |-> o, inspected |-> n] /\ m = Members /\ k = Slots
            /\ o <= m - 1 /\ n <= k - 1
      <3>1. scan \in Scans
        BY <1>0 DEF DriveOK
      <3>2. scan = [offset |-> scan.offset, inspected |-> scan.inspected]
            /\ scan.offset \in 0..Members - 1 /\ scan.inspected \in 0..Slots - 1
        BY <3>1 DEF Scans, Member
      <3> QED
        BY <3>2, Limits
    <2>3. \/ o + 1 < m /\ scan' = [offset |-> o + 1, inspected |-> n]
          \/ n + 1 < k /\ scan' = [offset |-> o, inspected |-> n + 1]
      BY <1>5, <2>2 DEF ScanNext, ScanDrop, ScanStep
    <2>4. scan' \in Scans
      <3>1. o + 1 < m => o + 1 \in 0..m - 1
        OBVIOUS
      <3>2. n + 1 < k => n + 1 \in 0..k - 1
        OBVIOUS
      <3>3. o \in 0..m - 1 /\ n \in 0..k - 1
        BY <2>2
      <3> QED
        BY <2>2, <2>3, <3>1, <3>2, <3>3 DEF Scans, Member
    <2>5. DriveOK' /\ CreditIsKept'
      BY <1>0, <2>1, <2>4 DEF DriveOK, CreditIsKept
    <2> QED
      BY <1>0, <1>3, <1>4, <2>1, <2>5, SocketFrame, WakeFrame DEF SoundInv, TypeOK
  <1>6. CASE ScanEnds \/ ScanLimited \/ RecvfromAnswers
    <2>1. BeginDrive(dev) /\ phase' = phase /\ peer' = peer
          /\ cursor' \in {cursor, (Scanned + 1) % Members}
      BY <1>6 DEF ScanEnds, ScanLimited, ScanArms, RecvfromAnswers
    <2>2. SocketOK'
      BY <1>0, <1>1, <2>1 DEF SocketOK
    <2>3. DriveOK' /\ CreditIsKept'
      BY <1>0, <2>1, BeginDriveSound
    <2>4. WakeOK'
      BY <1>0, <1>6 DEF ScanEnds, ScanLimited, ScanArms, RecvfromAnswers, ArmUdpWaiter, WakeOK,
                        wakeVars
    <2> QED
      BY <1>3, <1>4, <2>2, <2>3, <2>4 DEF SoundInv, TypeOK
  <1> QED
    BY <1>5, <1>6

\* The calls that begin with a drive, and those that have none.
LEMMA CallSound ==
    ASSUME SoundInv,
           \/ Bind \/ (\E src \in Sources : Connect(src)) \/ Recvfrom
           \/ (\E n \in SendSizes : Sendto(n))
           \/ (\E d \in {Read, Write} : Cancel(d) \/ Notify(d))
           \/ Close \/ (\E p \in Packets : Ingress(p))
           \/ (\E packets \in {1, MaxPackets}, bytes \in {1, MaxBytes} :
                  GrantEgressCall(packets, bytes))
           \/ Poll
    PROVE  SoundInv'
  <1>0. /\ TypeOK /\ SocketOK /\ RingsOK /\ RingsInv /\ WakeOK /\ QueueOK /\ DriveOK /\ CreditIsKept
        /\ DeviceInv(dev) /\ Len(dev.tx) <= OutputPackets
    BY DEF SoundInv, TypeOK, DriveOK, CreditIsKept, DeviceInv
  <1>1. CASE Bind
    <2>1. SocketOK' /\ UNCHANGED <<ringVars, wakeVars, queue, driveVars>>
      BY <1>0, <1>1 DEF Bind, SocketOK
    <2> QED
      BY <1>0, <2>1, RingsFrame, WakeFrame, QueueFrame, DriveFrame DEF SoundInv, TypeOK
  <1>2. CASE \E src \in Sources : Connect(src)
    <2>1. SocketOK' /\ UNCHANGED <<ringVars, wakeVars, queue, driveVars>>
      BY <1>0, <1>2 DEF Connect, SocketOK
    <2> QED
      BY <1>0, <2>1, RingsFrame, WakeFrame, QueueFrame, DriveFrame DEF SoundInv, TypeOK
  <1>3. CASE Recvfrom
    <2>1. /\ step' = "scan"
          /\ UNCHANGED <<socketVars, ringVars, wakeVars, queue, dev, drive, scan, polled>>
      BY <1>3 DEF Recvfrom
    <2>2. DriveOK' /\ CreditIsKept'
      BY <1>0, <2>1 DEF DriveOK, CreditIsKept
    <2> QED
      BY <1>0, <2>1, <2>2, SocketFrame, RingsFrame, WakeFrame, QueueFrame DEF SoundInv, TypeOK
  <1>4. CASE \E n \in SendSizes : Sendto(n)
    <2>1. PICK n \in SendSizes : Sendto(n)
      BY <1>4
    <2> DEFINE r == Enqueue(tx, Entry(n, None))
    <2>2. /\ tx' = r.ring /\ rx' = rx /\ BeginDrive(dev) /\ UNCHANGED <<socketVars, queue>>
          /\ (IF r.ok THEN UNCHANGED wakeVars ELSE ArmUdpWaiter(Write, {Sender}, FALSE))
      BY <2>1 DEF Sendto, SendOrArm
    <2>3. RingInv(r.ring)
      BY <1>0, SentEntry, EnqueueSound DEF RingsInv
    <2> HIDE DEF r
    <2>4. RingsOK' /\ RingsInv'
      BY <1>0, <2>2, <2>3 DEF RingsOK, RingsInv, RingInv
    <2>5. WakeOK'
      BY <1>0, <2>2 DEF ArmUdpWaiter, WakeOK, wakeVars
    <2>6. DriveOK' /\ CreditIsKept'
      BY <1>0, <2>2, BeginDriveSound
    <2> QED
      BY <1>0, <2>2, <2>4, <2>5, <2>6, SocketFrame, QueueFrame DEF SoundInv, TypeOK
  <1>5. CASE \E d \in {Read, Write} : Cancel(d) \/ Notify(d)
    <2>1. WakeOK' /\ UNCHANGED <<socketVars, ringVars, queue, driveVars>>
      BY <1>0, <1>5 DEF Cancel, Notify, WakeOK
    <2> QED
      BY <1>0, <2>1, SocketFrame, RingsFrame, QueueFrame, DriveFrame DEF SoundInv, TypeOK
  <1>6. CASE Close
    <2>1. /\ phase' = "closed" /\ peer' = None /\ cursor' = 0
          /\ rx' = NewRx /\ tx' = EmptyRing /\ waits' = {} /\ wakers' = {} /\ flags' = {}
          /\ BeginDrive(dev) /\ queue' = queue
      BY <1>6 DEF Close
    <2>2. 0 \in Member
      BY Limits DEF Member
    <2>3. SocketOK' /\ WakeOK'
      BY <2>1, <2>2 DEF SocketOK, WakeOK
    <2>4. RingsOK' /\ RingsInv'
      BY <2>1, EmptyRingSound DEF RingsOK, RingsInv, NewRx, RingInv
    <2>5. DriveOK' /\ CreditIsKept'
      BY <1>0, <2>1, BeginDriveSound
    <2> QED
      BY <1>0, <2>1, <2>3, <2>4, <2>5, QueueFrame DEF SoundInv, TypeOK
  <1>7. CASE \E p \in Packets : Ingress(p)
    <2>1. PICK p \in Packets : Ingress(p)
      BY <1>7
    <2>2. /\ Len(queue) < InputPackets /\ queue' = Append(queue, p) /\ BeginDrive(dev)
          /\ UNCHANGED <<socketVars, ringVars, wakeVars>>
      BY <2>1 DEF Ingress
    <2>3. QueueOK'
      BY <1>0, <2>2, Limits DEF QueueOK
    <2>4. DriveOK' /\ CreditIsKept'
      BY <1>0, <2>2, BeginDriveSound
    <2> QED
      BY <1>0, <2>2, <2>3, <2>4, SocketFrame, RingsFrame, WakeFrame DEF SoundInv, TypeOK
  <1>8. CASE \E packets \in {1, MaxPackets}, bytes \in {1, MaxBytes} :
                GrantEgressCall(packets, bytes)
    <2>1. PICK packets \in {1, MaxPackets}, bytes \in {1, MaxBytes} :
            GrantEgressCall(packets, bytes)
      BY <1>8
    <2>2. /\ BeginDrive(GrantEgress(dev, packets, bytes))
          /\ UNCHANGED <<socketVars, ringVars, wakeVars, queue>>
      BY <2>1 DEF GrantEgressCall
    <2>3. packets \in Nat /\ bytes \in Nat
      BY DeviceAssumption
    <2>4. /\ DeviceInv(GrantEgress(dev, packets, bytes))
          /\ GrantEgress(dev, packets, bytes).tx = dev.tx
      BY <1>0, <2>3, GrantSound
    <2>5. DriveOK' /\ CreditIsKept'
      BY <1>0, <2>2, <2>4, BeginDriveSound
    <2> QED
      BY <1>0, <2>2, <2>5, SocketFrame, RingsFrame, WakeFrame, QueueFrame DEF SoundInv, TypeOK
  <1>9. CASE Poll
    <2>1. BeginDrive(dev) /\ UNCHANGED <<socketVars, ringVars, wakeVars, queue>>
      BY <1>9 DEF Poll
    <2>2. DriveOK' /\ CreditIsKept'
      BY <1>0, <2>1, BeginDriveSound
    <2> QED
      BY <1>0, <2>1, <2>2, SocketFrame, RingsFrame, WakeFrame, QueueFrame DEF SoundInv, TypeOK
  <1> QED
    BY <1>1, <1>2, <1>3, <1>4, <1>5, <1>6, <1>7, <1>8, <1>9

\* SoundInv is inductive.
LEMMA SoundStep == SoundInv /\ [Next]_vars => SoundInv'
  <1> SUFFICES ASSUME SoundInv, [Next]_vars PROVE SoundInv'
    OBVIOUS
  <1>1. CASE UNCHANGED vars
    <2>1. UNCHANGED <<socketVars, ringVars, wakeVars, queue, driveVars>>
      BY <1>1 DEF vars
    <2> QED
      BY <2>1, SocketFrame, RingsFrame, WakeFrame, QueueFrame, DriveFrame DEF SoundInv, TypeOK
  <1>2. CASE Next
    BY <1>2, CallSound, ScanSound, IngestDatagramSound, IngestReplySound, IngestEndsSound,
       EgressSendsSound, EndDriveKeepsSound DEF Next
  <1> QED
    BY <1>1, <1>2

LEMMA Sound == Spec => []SoundInv
  BY SoundInit, SoundStep, PTL DEF Spec

-----------------------------------------------------------------------------
(* The turns of the members *)

\* The remainders of recvfrom and of FromCursor: past m one starts over at 0.
LEMMA RoundAdd ==
    ASSUME NEW m \in Nat \ {0}, NEW c \in 0..m - 1, NEW o \in 0..m
    PROVE  (c + o) % m = IF c + o < m THEN c + o ELSE c + o - m
  <1>1. PICK x \in 0..2 * m - 1 : x = c + o
    OBVIOUS
  <1>2. x % m = IF x < m THEN x ELSE x - m
    BY Remainder
  <1> QED
    BY <1>1, <1>2

LEMMA RoundSubtract ==
    ASSUME NEW m \in Nat \ {0}, NEW c \in 0..m - 1, NEW i \in 0..m - 1
    PROVE  (m + i - c) % m = IF i < c THEN m + i - c ELSE i - c
  <1>1. PICK x \in 0..2 * m - 1 : x = m + i - c
    OBVIOUS
  <1>2. x % m = IF x < m THEN x ELSE x - m
    BY Remainder
  <1> QED
    BY <1>1, <1>2

\* Member i is k further than the cursor c, and nearer once the cursor has moved to n, past a
\* member that is o further than c.
Nearer(m, c, o, i) ==
    \E k, n \in 0..m - 1 :
        /\ k = (m + i - c) % m /\ n = (((c + o) % m) + 1) % m
        /\ (c + k) % m = i /\ (k > o => (m + i - n) % m < k)

\* A member beyond the one that answers comes nearer.
LEMMA TurnArithmetic ==
    ASSUME NEW m \in Nat \ {0}, NEW c \in 0..m - 1, NEW o \in 0..m - 1, NEW i \in 0..m - 1
    PROVE  Nearer(m, c, o, i)
  <1>1. PICK k \in 0..m - 1 : k = (m + i - c) % m /\ k = IF i < c THEN m + i - c ELSE i - c
    <2>1. (IF i < c THEN m + i - c ELSE i - c) \in 0..m - 1
      OBVIOUS
    <2> QED
      BY <2>1, RoundSubtract
  <1>2. PICK s \in 0..m - 1 : s = (c + o) % m /\ s = IF c + o < m THEN c + o ELSE c + o - m
    <2>1. (IF c + o < m THEN c + o ELSE c + o - m) \in 0..m - 1 /\ o \in 0..m
      OBVIOUS
    <2> QED
      BY <2>1, RoundAdd
  <1>3. PICK n \in 0..m - 1 : n = (s + 1) % m /\ n = IF s + 1 < m THEN s + 1 ELSE s + 1 - m
    <2>1. (IF s + 1 < m THEN s + 1 ELSE s + 1 - m) \in 0..m - 1 /\ 1 \in 0..m
      OBVIOUS
    <2> QED
      BY <2>1, RoundAdd
  <1>4. (c + k) % m = i
    <2>1. k \in 0..m /\ (IF c + k < m THEN c + k ELSE c + k - m) = i
      BY <1>1
    <2> QED
      BY <2>1, RoundAdd
  <1>5. ASSUME k > o PROVE (m + i - n) % m < k
    <2>1. (IF i < n THEN m + i - n ELSE i - n) < k
      BY <1>1, <1>2, <1>3, <1>5
    <2> QED
      BY <2>1, RoundSubtract
  <1> QED
    BY <1>1, <1>2, <1>3, <1>4, <1>5 DEF Nearer

\* A scan starts with nothing passed over.
LEMMA ScanInit == Init => ScanInv
  <1> SUFFICES ASSUME Init PROVE ScanInv
    OBVIOUS
  <1>1. scan = NoScan /\ scan.offset = 0
    BY DEF Init, NoScan
  <1>2. 0..scan.offset - 1 = {}
    BY <1>1
  <1> QED
    BY <1>1, <1>2 DEF ScanInv

\* An empty ring has no datagram to take.
LEMMA NothingReceived ==
    ASSUME TypeOK, RingsInv, rx[Scanned].meta = <<>>
    PROVE  ~Received.ok
  BY DEF Received, Dequeue, DropPadding, Full

\* The scan leaves a ring for the next only when it is empty; nothing is put into a ring
\* while it runs.
LEMMA ScanStepKept ==
    ASSUME SoundInv, ScanInv, [Next]_vars
    PROVE  ScanInv'
  <1>0. TypeOK /\ RingsInv /\ RingsOK
    BY DEF SoundInv, TypeOK
  <1>1. CASE ScanNext \/ ScanDrop
    <2>1. /\ step = "scan" /\ step' = step /\ cursor' = cursor
          /\ rx' = [rx EXCEPT ![Scanned] = Received.ring]
      BY <1>1 DEF ScanNext, ScanDrop, ScanStep, socketVars
    <2>2. PICK o \in Nat : o = scan.offset
      BY <1>0, MemberType
    <2>3. \/ ~Received.ok /\ scan'.offset = o + 1
          \/ Received.ok /\ scan'.offset = o
      <3>1. scan = [offset |-> scan.offset, inspected |-> scan.inspected]
        BY <1>0 DEF TypeOK, DriveOK, Scans
      <3> QED
        BY <1>1, <2>2, <3>1 DEF ScanNext, ScanDrop, ScanStep
    <2>4. ASSUME NEW k \in 0..scan'.offset - 1 PROVE rx'[(cursor + k) % Members].meta = <<>>
      <3>1. k \in Nat /\ (cursor + k) % Members \in Member
        <4>1. PICK c \in Nat, m \in Nat \ {0} : c = cursor /\ m = Members
          BY <1>0, MemberType, Limits
        <4>2. k \in Nat
          BY <2>2, <2>3, <2>4
        <4>3. (c + k) % m \in 0..m - 1
          BY <4>2, SMTT(20)
        <4> QED
          BY <4>1, <4>2, <4>3 DEF Member
      <3>2. k < o => rx[(cursor + k) % Members].meta = <<>>
        BY <2>2, <2>4, <3>1 DEF ScanInv
      <3>3. rx'[(cursor + k) % Members] = IF (cursor + k) % Members = Scanned THEN Received.ring
                                          ELSE rx[(cursor + k) % Members]
        BY <1>0, <2>1, <3>1 DEF RingsOK
      <3>4. CASE Received.ok
        <4>1. k < o
          BY <2>2, <2>3, <2>4, <3>4, <3>1
        <4>2. (cursor + k) % Members # Scanned
          BY <1>0, <3>2, <3>4, <4>1, NothingReceived
        <4> QED
          BY <3>2, <3>3, <4>1, <4>2
      <3>5. CASE ~Received.ok
        <4>1. Received.ring.meta = <<>>
          BY <1>0, <3>5, ReceivedSound
        <4>2. k < o \/ k = o
          BY <2>2, <2>3, <2>4, <3>5, <3>1
        <4>3. k = o => (cursor + k) % Members = Scanned
          BY <2>2 DEF Scanned
        <4> QED
          BY <3>2, <3>3, <4>1, <4>2, <4>3
      <3> QED
        BY <3>4, <3>5
    <2> QED
      BY <2>1, <2>4 DEF ScanInv
  <1>2. CASE ~(ScanNext \/ ScanDrop) /\ ~(UNCHANGED vars)
    <2>1. scan' = NoScan
      <3>1. step # "scan" => scan = NoScan
        BY DEF ScanInv
      <3>2. CASE ScanEnds \/ ScanLimited \/ RecvfromAnswers \/ Close \/ Poll
                 \/ (\E n \in SendSizes : Sendto(n)) \/ (\E p \in Packets : Ingress(p))
                 \/ (\E packets \in {1, MaxPackets}, bytes \in {1, MaxBytes} :
                        GrantEgressCall(packets, bytes))
        BY <3>2 DEF ScanEnds, ScanLimited, ScanArms, RecvfromAnswers, Close, Poll, Sendto,
                    SendOrArm, Ingress, GrantEgressCall, BeginDrive
      <3>3. CASE Bind \/ (\E src \in Sources : Connect(src))
                 \/ (\E d \in {Read, Write} : Cancel(d) \/ Notify(d)) \/ Recvfrom
        BY <3>1, <3>3 DEF Bind, Connect, Cancel, Notify, Recvfrom, Idle, driveVars
      <3>4. CASE IngestDatagram \/ IngestReply \/ IngestEnds
                 \/ EgressSends \/ EgressFindsNone \/ EgressStops
        BY <3>1, <3>4 DEF IngestDatagram, IngestReply, IngestEnds, EgressSends, EgressFindsNone,
                          EgressStops, EndDrive
      <3> QED
        BY <1>2, <3>2, <3>3, <3>4 DEF Next
    <2>2. 0..scan'.offset - 1 = {}
      BY <2>1 DEF NoScan
    <2> QED
      BY <2>1, <2>2 DEF ScanInv
  <1>3. CASE UNCHANGED vars
    BY <1>3 DEF vars, ScanInv, socketVars, ringVars, driveVars
  <1> QED
    BY <1>1, <1>2, <1>3

\* A member with a datagram of the peer is not among those passed over, so that the cursor
\* moves towards it.
LEMMA TakesTurn ==
    ASSUME SoundInv, ScanInv, RecvfromAnswers, NEW i \in Member, HasForPeer(i), i # Scanned
    PROVE  FromCursor(i)' < FromCursor(i)
  <1>1. TypeOK /\ cursor' = (Scanned + 1) % Members
    BY DEF SoundInv, RecvfromAnswers
  <1>2. PICK m \in Nat \ {0}, c \in Nat, o \in Nat :
          /\ m = Members /\ c = cursor /\ o = scan.offset
          /\ c \in 0..m - 1 /\ o \in 0..m - 1
    BY <1>1, MemberType, Limits
  <1>3. i \in 0..m - 1
    BY <1>2 DEF Member
  <1>4. PICK k, n \in 0..m - 1 :
          /\ k = (m + i - c) % m /\ n = (((c + o) % m) + 1) % m
          /\ (c + k) % m = i /\ (k > o => (m + i - n) % m < k)
    <2>1. Nearer(m, c, o, i)
      BY <1>2, <1>3, TurnArithmetic
    <2> QED
      BY <2>1 DEF Nearer
  <1>5. (c + k) % m = i /\ (k > o => (m + i - n) % m < k)
    BY <1>4
  <1>6. FromCursor(i) = k /\ FromCursor(i)' = (m + i - n) % m
    BY <1>1, <1>2, <1>4 DEF FromCursor, Scanned
  <1>7. ~(k < o)
    <2> SUFFICES ASSUME k < o PROVE FALSE
      OBVIOUS
    <2>1. k \in 0..scan.offset - 1
      BY <1>2
    <2>2. rx[i].meta = <<>>
      BY <1>2, <1>5, <2>1 DEF ScanInv
    <2> QED
      BY <2>2 DEF HasForPeer, Datagrams
  <1>8. k # o
    BY <1>2, <1>5 DEF Scanned
  <1> QED
    BY <1>5, <1>6, <1>7, <1>8

\* ScanInv holds in every behaviour.
LEMMA Scanning == Spec => []ScanInv
  BY Sound, ScanInit, ScanStepKept, PTL DEF Spec

\* recvfrom takes turns, for any number of members: the cursor it stores brings every other
\* member with a datagram of the peer nearer, because the members it passed over are empty.
THEOREM TurnsTaken == Spec => MembersTakeTurns
  <1>1. SoundInv /\ ScanInv /\ [Next]_vars =>
          [RecvfromAnswers =>
              \A i \in Member :
                  HasForPeer(i) /\ i # Scanned => FromCursor(i)' < FromCursor(i)]_vars
    BY TakesTurn
  <1> QED
    BY <1>1, Sound, Scanning, PTL DEF Spec, MembersTakeTurns

-----------------------------------------------------------------------------
(* The waiters and the polls *)

\* The steps that leave the read side of the socket alone.
LEMMA ReaderFrame ==
    ASSUME ReaderWillWake, rx' = rx, Read \in waits' => Read \in waits,
           Read \in flags => Read \in flags', \A i \in Member : i \in wakers => i \in wakers'
    PROVE  ReaderWillWake'
  BY DEF ReaderWillWake

\* A datagram wakes the reader that every member has a waker of; a scan that found nothing for
\* the peer raises the flag unless every ring is empty.
LEMMA ReaderStep ==
    ASSUME SoundInv, ReaderWillWake, [Next]_vars
    PROVE  ReaderWillWake'
  <1>0. TypeOK /\ RingsInv /\ RingsOK /\ Read # Write /\ Sender \notin Member
    <2>1. Sender \notin Member
      BY Limits DEF Sender, Member
    <2> QED
      BY <2>1 DEF SoundInv, TypeOK, Read, Write
  <1>1. CASE IngestDatagram
    <2>1. PICK w : Wake(w, Read) /\ w \in Member
      <3>1. Head(queue) \in Packets /\ Head(queue).to # Nobody
        BY <1>0, <1>1, HeadPacket DEF IngestDatagram, IngestGoes, HasSocket, TypeOK
      <3> QED
        BY <1>1, <3>1, ReceivedEntry DEF IngestDatagram
    <2> QED
      BY <2>1 DEF Wake, ReaderWillWake
  <1>2. CASE ScanNext \/ ScanDrop \/ RecvfromAnswers
    <2>1. UNCHANGED wakeVars /\ rx' = [rx EXCEPT ![Scanned] = Received.ring]
      BY <1>2 DEF ScanNext, ScanDrop, ScanStep, RecvfromAnswers
    <2> SUFFICES ASSUME Read \in waits, Read \notin flags, NEW i \in Member
                 PROVE  rx'[i].meta = <<>> /\ i \in wakers'
      BY <2>1 DEF ReaderWillWake, wakeVars
    <2>2. \A j \in Member : rx[j].meta = <<>> /\ j \in wakers
      BY DEF ReaderWillWake
    <2>3. Scanned \in Member
      BY <1>0, MemberType
    <2>4. Received.ring.meta = <<>>
      BY <1>0, <2>2, <2>3, NothingReceived, ReceivedSound
    <2>5. rx'[i] = IF i = Scanned THEN Received.ring ELSE rx[i]
      BY <1>0, <2>1 DEF RingsOK
    <2> QED
      BY <2>1, <2>2, <2>4, <2>5 DEF wakeVars
  <1>3. CASE ScanEnds \/ ScanLimited
    <2>1. rx' = [rx EXCEPT ![Scanned] = Received.ring] /\ ArmUdpWaiter(Read, Member, CanRecv(rx'))
      BY <1>3 DEF ScanEnds, ScanLimited, ScanArms
    <2>2. DOMAIN rx' = Member
      BY <1>0, <2>1 DEF RingsOK
    <2> QED
      BY <2>1, <2>2 DEF ArmUdpWaiter, CanRecv, ReaderWillWake
  <1>4. CASE \E n \in SendSizes : Sendto(n)
    <2>1. rx' = rx /\ (UNCHANGED wakeVars \/ ArmUdpWaiter(Write, {Sender}, FALSE))
      BY <1>4 DEF Sendto, SendOrArm
    <2> QED
      BY <1>0, <2>1, ReaderFrame DEF ArmUdpWaiter, wakeVars
  <1>5. CASE EgressSends
    BY <1>0, <1>5, ReaderFrame DEF EgressSends, Wake
  <1>6. CASE \E d \in {Read, Write} : Cancel(d) \/ Notify(d)
    <2>1. PICK d \in {Read, Write} : /\ waits' = waits \ {d} /\ flags' = flags \ {d}
                                     /\ wakers' = wakers /\ rx' = rx
      BY <1>6 DEF Cancel, Notify, ringVars
    <2> QED
      BY <1>0, <2>1 DEF ReaderWillWake
  <1>7. CASE Close
    BY <1>7 DEF Close, ReaderWillWake
  <1>8. CASE UNCHANGED <<wakeVars, rx>>
    BY <1>8, ReaderFrame DEF wakeVars
  <1>9. CASE \/ Bind \/ (\E src \in Sources : Connect(src)) \/ Recvfrom \/ Poll
             \/ (\E p \in Packets : Ingress(p)) \/ IngestReply \/ IngestEnds
             \/ (\E packets \in {1, MaxPackets}, bytes \in {1, MaxBytes} :
                    GrantEgressCall(packets, bytes))
             \/ EgressFindsNone \/ EgressStops \/ UNCHANGED vars
    BY <1>8, <1>9 DEF Bind, Connect, Recvfrom, Poll, Ingress, IngestReply, IngestEnds,
                      GrantEgressCall, EgressFindsNone, EgressStops, EndDrive, vars, ringVars
  <1> QED
    BY <1>1, <1>2, <1>3, <1>4, <1>5, <1>6, <1>7, <1>9 DEF Next

\* A call that does not drive leaves what it would send, the credit and the poll alone; the
\* end of a drive decides on the poll; every other step is in the middle of a call.
LEMMA PolledStep ==
    ASSUME SoundInv, SendIsPolled, [Next]_vars
    PROVE  SendIsPolled'
  <1>1. CASE \/ Bind \/ (\E src \in Sources : Connect(src)) \/ UNCHANGED vars
             \/ (\E d \in {Read, Write} : Cancel(d) \/ Notify(d))
    <2>1. UNCHANGED <<tx, dev, step, polled>>
      BY <1>1 DEF Bind, Connect, Cancel, Notify, vars, ringVars, driveVars
    <2> QED
      BY <2>1 DEF SendIsPolled, Idle
  <1>2. CASE EgressFindsNone \/ EgressStops
    <2>1. PICK ring, remain : EndDrive(ring, remain)
      BY <1>2 DEF EgressFindsNone, EgressStops
    <2>2. PICK d : tx' = ring /\ dev' = d /\ polled' = Due(ring, d, remain)
      BY <2>1 DEF EndDrive
    <2>3. Datagrams(ring) # {} /\ TransmitCreditAvailable(d) => Due(ring, d, remain)
      BY DEF Datagrams, Due
    <2> QED
      BY <2>2, <2>3 DEF SendIsPolled
  <1>3. CASE \/ ScanEnds \/ ScanLimited \/ RecvfromAnswers \/ Close \/ Poll
             \/ (\E n \in SendSizes : Sendto(n)) \/ (\E p \in Packets : Ingress(p))
             \/ (\E packets \in {1, MaxPackets}, bytes \in {1, MaxBytes} :
                    GrantEgressCall(packets, bytes))
    <2>1. step' = "ingress"
      BY <1>3 DEF ScanEnds, ScanLimited, ScanArms, RecvfromAnswers, Close, Poll, Sendto,
                  SendOrArm, Ingress, GrantEgressCall, BeginDrive
    <2> QED
      BY <2>1 DEF SendIsPolled, Idle
  <1>4. CASE \/ Recvfrom \/ ScanNext \/ ScanDrop
             \/ IngestDatagram \/ IngestReply \/ IngestEnds \/ EgressSends
    <2>1. step' \in {"scan", "ingress", "egress"}
      BY <1>4 DEF Recvfrom, ScanNext, ScanDrop, ScanStep, IngestDatagram, IngestReply, IngestEnds,
                  EgressSends
    <2> QED
      BY <2>1 DEF SendIsPolled, Idle
  <1> QED
    BY <1>1, <1>2, <1>3, <1>4 DEF Next

\* Nobody waits at first, and there is nothing to send.
LEMMA QuietInit == Init => ReaderWillWake /\ WriterWillWake /\ SendIsPolled /\ SmallPadding
  <1> SUFFICES ASSUME Init PROVE ReaderWillWake /\ WriterWillWake /\ SendIsPolled /\ SmallPadding
    OBVIOUS
  <1>1. waits = {} /\ tx.meta = <<>>
    BY DEF Init, EmptyRing
  <1> QED
    BY <1>1 DEF ReaderWillWake, WriterWillWake, SendIsPolled, SmallPadding, Datagrams

-----------------------------------------------------------------------------
(* The writer *)

\* What WriterWillWake takes of the limits: two slots, and datagrams of at most half a ring.
\* A ring without a datagram then has room, so that a send is refused only by datagrams.
HalfRing == 1 < Slots /\ \A m, n \in SendSizes : m + n <= Bytes

\* Two entries are never both padding.
LEMMA TwoEntries ==
    ASSUME NEW r, RingInv(r), Len(r.meta) > 1
    PROVE  Datagrams(r) # {}
  <1>1. r.meta \in Seq(Entries) /\ Len(r.meta) \in Nat
    BY RingFields DEF RingInv
  <1>2. 1 \in DOMAIN r.meta /\ 2 \in DOMAIN r.meta
    BY <1>1
  <1>3. r.meta[1].src = Padding => r.meta[1 + 1].src # Padding
    BY <1>2 DEF RingInv, RingSound
  <1>4. 1 \in Datagrams(r) \/ 2 \in Datagrams(r)
    BY <1>2, <1>3 DEF Datagrams
  <1> QED
    BY <1>4

\* The bytes of a ring with one entry, or none.
LEMMA FewBytes ==
    ASSUME NEW r, RingInv(r)
    PROVE  /\ Len(r.meta) = 0 => r.length = 0
           /\ Len(r.meta) = 1 => r.length = r.meta[1].size
  <1>1. Sized(r.meta) /\ r.length = Sizes(r.meta)[Len(r.meta)]
    BY RingFields DEF RingInv, RingSound, TotalSize
  <1>2. IsSizes(Sizes(r.meta), r.meta, Len(r.meta))
    BY <1>1, SizesDef
  <1>3. Sizes(r.meta)[0] = 0
    BY <1>2 DEF IsSizes
  <1>4. Len(r.meta) = 0 => r.length = 0
    BY <1>1, <1>3
  <1>5. ASSUME Len(r.meta) = 1 PROVE r.length = r.meta[1].size
    <2>1. 1 \in 1..Len(r.meta)
      BY <1>5
    <2>2. Sizes(r.meta)[1] = Sizes(r.meta)[1 - 1] + r.meta[1].size /\ r.meta[1].size \in Nat
      BY <1>1, <1>2, <2>1 DEF IsSizes, Sized
    <2> QED
      BY <1>1, <1>3, <1>5, <2>2
  <1> QED
    BY <1>4, <1>5

\* A ring whose last entry is no padding has a datagram.
LEMMA LastDatagram ==
    ASSUME NEW r, RingInv(r), r.meta # <<>>, ~LastIsPadding(r)
    PROVE  Len(r.meta) \in DOMAIN r.meta /\ r.meta[Len(r.meta)].src # Padding
  <1>1. r.meta \in Seq(Entries)
    BY RingFields DEF RingInv
  <1>2. Len(r.meta) \in DOMAIN r.meta
    BY <1>1
  <1> QED
    BY <1>2 DEF LastIsPadding

\* A send that the ring refuses finds a datagram in it.
LEMMA RefusedByDatagram ==
    ASSUME HalfRing, NEW r, RingInv(r), NEW n \in SendSizes, ~Enqueue(r, Entry(n, None)).ok,
           \A i \in DOMAIN r.meta :
               r.meta[i].src = Padding => \E m \in SendSizes : r.meta[i].size < m
    PROVE  Datagrams(Enqueue(r, Entry(n, None)).ring) # {}
  <1> DEFINE e == Entry(n, None)
             q == Enqueue(r, e)
  <1>1. e \in Entries /\ e.src # Padding /\ e.size = n
    BY SentEntry
  <1>2. n \in Nat /\ ~(n > Bytes) /\ Bytes \in Nat \ {0} /\ Slots \in Nat \ {0}
    BY UdpAssumption, RingAssumption
  <1>3. Len(r.meta) \in Nat /\ Len(r.meta) <= Slots /\ r.length \in Nat /\ r.meta \in Seq(Entries)
    BY RingFields DEF RingInv, RingSound
  <1>4. Clear(r).meta = r.meta /\ Datagrams(Clear(r)) = Datagrams(r)
    BY ClearSound DEF Datagrams
  <1>5. \A s : Full(s).ring = s /\ ~Full(s).ok
    BY DEF Full
  <1>6. CASE q = Full(r) /\ Len(r.meta) = Slots
    <2>1. Len(r.meta) > 1
      BY <1>2, <1>6 DEF HalfRing
    <2> QED
      BY <1>5, <1>6, <2>1, TwoEntries
  <1>7. CASE q = Full(Clear(r)) /\ Window(r) < e.size
    <2> SUFFICES ASSUME Datagrams(r) = {} PROVE FALSE
      BY <1>4, <1>5, <1>7
    <2>1. ~(Len(r.meta) > 1)
      BY TwoEntries
    <2>2. Bytes - r.length < n
      BY <1>1, <1>7 DEF Window
    <2>3. CASE Len(r.meta) = 0
      BY <1>2, <2>2, <2>3, FewBytes
    <2>4. CASE Len(r.meta) = 1
      <3>1. 1 \in DOMAIN r.meta
        BY <1>3, <2>4
      <3>2. PICK m \in SendSizes : r.meta[1].size < m
        BY <3>1 DEF Datagrams
      <3>3. m + n <= Bytes /\ m \in Nat
        BY UdpAssumption DEF HalfRing
      <3>4. r.length < m
        BY <2>4, <3>2, FewBytes
      <3> QED
        BY <1>2, <1>3, <2>2, <3>3, <3>4
    <2>5. Len(r.meta) = 0 \/ Len(r.meta) = 1
      <3>1. PICK k \in Nat : k = Len(r.meta)
        BY <1>3
      <3>2. ~(k > 1)
        BY <2>1, <3>1
      <3>3. k = 0 \/ k = 1
        BY <3>2
      <3> QED
        BY <3>1, <3>3
    <2> QED
      BY <2>3, <2>4, <2>5
  <1>8. ASSUME Len(r.meta) # Slots, ~(Window(r) < e.size), Pad(r).size < e.size
        PROVE  /\ Len(r.meta) \in DOMAIN r.meta /\ r.meta[Len(r.meta)].src # Padding
               /\ Push(Clear(r), Pad(r)).meta = Append(r.meta, Pad(r)) /\ Pad(r) \in Entries
    <2>1. Len(r.meta) < Slots
      BY <1>2, <1>3, <1>8
    <2>2. /\ ~LastIsPadding(r) /\ r.meta # <<>>
          /\ Push(Clear(r), Pad(r)).meta = Append(r.meta, Pad(r))
      BY <1>1, <1>8, <2>1, PushPad
    <2> QED
      BY <2>2, LastDatagram, PadSize
  <1>9. CASE /\ q = Full(Clear(r)) /\ Len(r.meta) # Slots /\ ~(Window(r) < e.size)
             /\ Pad(r).size < e.size
    BY <1>4, <1>5, <1>8, <1>9 DEF Datagrams
  <1>10. CASE /\ q = Full(Push(Clear(r), Pad(r))) /\ Len(r.meta) # Slots /\ ~(Window(r) < e.size)
              /\ Pad(r).size < e.size
    <2>1. PICK s, p : s = r.meta /\ p = Pad(r) /\ s \in Seq(Entries) /\ p \in Entries
      BY <1>3, <1>8, <1>10
    <2>2. PICK k : k = Len(s) /\ k \in DOMAIN s /\ s[k].src # Padding
      BY <1>8, <1>10, <2>1
    <2>3. k \in DOMAIN Append(s, p) /\ Append(s, p)[k] = s[k]
      BY <2>1, <2>2
    <2>4. q.ring.meta = Append(s, p)
      BY <1>5, <1>8, <1>10, <2>1
    <2> QED
      BY <2>2, <2>3, <2>4 DEF Datagrams
  <1>11. \A s : [ok |-> TRUE, ring |-> s].ok
    OBVIOUS
  <1>12. \/ q = Full(r) /\ Len(r.meta) = Slots
         \/ /\ Len(r.meta) # Slots
            /\ \/ /\ q = Full(Clear(r))
                  /\ \/ Window(r) < e.size
                     \/ ~(Window(r) < e.size) /\ Pad(r).size < e.size
               \/ /\ ~(Window(r) < e.size) /\ Pad(r).size < e.size
                  /\ q = Full(Push(Clear(r), Pad(r)))
    <2> HIDE DEF e
    <2> USE DEF q
    <2>1. ~(e.size > Bytes) /\ ~q.ok
      BY <1>1, <1>2 DEF e
    <2> QED
      BY <1>4, <1>11, <2>1, EnqueueCases
  <1> QED
    BY <1>6, <1>7, <1>9, <1>10, <1>12

\* A padding is put in for a larger datagram, and only leaves.
LEMMA PaddingStep ==
    ASSUME SoundInv, SmallPadding, [Next]_vars
    PROVE  SmallPadding'
  <1>0. RingInv(tx) /\ tx.meta \in Seq(Entries)
    BY RingFields DEF SoundInv, RingsInv, RingInv
  <1>1. CASE \E n \in SendSizes : Sendto(n)
    <2>1. PICK n \in SendSizes : tx' = Enqueue(tx, Entry(n, None)).ring
      BY <1>1 DEF Sendto, SendOrArm
    <2>2. PICK s, p, e : s = tx.meta /\ p = Pad(tx) /\ e = Entry(n, None)
      OBVIOUS
    <2>3. s \in Seq(Entries) /\ e \in Entries /\ e.src # Padding /\ e.size = n
      BY <1>0, <2>2, SentEntry
    <2>4. \/ tx'.meta = s
          \/ tx'.meta = Append(s, e)
          \/ /\ p.size < n /\ p \in Entries
             /\ tx'.meta \in {Append(s, p), Append(Append(s, p), e)}
      BY <1>0, <2>1, <2>2, <2>3, EnqueueSound
    <2>5. \A i \in DOMAIN s : s[i].src = Padding => \E m \in SendSizes : s[i].size < m
      BY <2>2 DEF SmallPadding
    <2>6. ASSUME NEW t \in Seq(Entries), NEW x \in Entries,
                 x.src = Padding => x.size < n,
                 \A i \in DOMAIN t : t[i].src = Padding => \E m \in SendSizes : t[i].size < m
          PROVE  \A i \in DOMAIN Append(t, x) :
                    Append(t, x)[i].src = Padding => \E m \in SendSizes : Append(t, x)[i].size < m
      <3>1. \A i \in DOMAIN Append(t, x) :
              (i \in DOMAIN t /\ Append(t, x)[i] = t[i]) \/ Append(t, x)[i] = x
        OBVIOUS
      <3> QED
        BY <2>6, <3>1
    <2>7. p \in Entries => Append(s, p) \in Seq(Entries)
      BY <2>3
    <2>8. CASE tx'.meta = s
      BY <2>5, <2>8 DEF SmallPadding
    <2>9. CASE tx'.meta = Append(s, e)
      BY <2>3, <2>5, <2>6, <2>9 DEF SmallPadding
    <2>10. CASE p.size < n /\ p \in Entries /\ tx'.meta \in {Append(s, p), Append(Append(s, p), e)}
      <3>1. \A i \in DOMAIN Append(s, p) :
              Append(s, p)[i].src = Padding => \E m \in SendSizes : Append(s, p)[i].size < m
        BY <2>3, <2>5, <2>6, <2>10
      <3>2. \A i \in DOMAIN Append(Append(s, p), e) :
              Append(Append(s, p), e)[i].src = Padding =>
                  \E m \in SendSizes : Append(Append(s, p), e)[i].size < m
        BY <2>3, <2>6, <2>7, <2>10, <3>1
      <3> QED
        BY <2>10, <3>1, <3>2 DEF SmallPadding
    <2> QED
      BY <2>4, <2>8, <2>9, <2>10
  <1>2. CASE EgressSends \/ EgressFindsNone
    <2>1. tx' = Dequeue(tx).ring
      BY <1>2 DEF EgressSends, EgressFindsNone, EndDrive
    <2>2. \A i \in DOMAIN tx'.meta : \E j \in DOMAIN tx.meta : tx'.meta[i] = tx.meta[j]
      BY <1>0, <2>1, DequeueSound
    <2> QED
      BY <2>2 DEF SmallPadding
  <1>3. CASE Close
    <2>1. tx'.meta = <<>>
      BY <1>3 DEF Close, EmptyRing
    <2>2. DOMAIN tx'.meta = {}
      BY <2>1
    <2> QED
      BY <2>2 DEF SmallPadding
  <1>4. CASE tx' = tx
    <2>1. tx'.meta = tx.meta
      BY <1>4
    <2> QED
      BY <2>1 DEF SmallPadding
  <1>5. CASE \/ Bind \/ (\E src \in Sources : Connect(src)) \/ Recvfrom \/ Poll
             \/ ScanNext \/ ScanDrop \/ ScanEnds \/ ScanLimited \/ RecvfromAnswers
             \/ (\E d \in {Read, Write} : Cancel(d) \/ Notify(d))
             \/ (\E p \in Packets : Ingress(p))
             \/ (\E packets \in {1, MaxPackets}, bytes \in {1, MaxBytes} :
                    GrantEgressCall(packets, bytes))
             \/ IngestDatagram \/ IngestReply \/ IngestEnds \/ EgressStops \/ UNCHANGED vars
    BY <1>4, <1>5 DEF Bind, Connect, Recvfrom, Poll, ScanNext, ScanDrop, ScanStep, ScanEnds,
                      ScanLimited, ScanArms, RecvfromAnswers, Cancel, Notify, Ingress,
                      GrantEgressCall, IngestDatagram, IngestReply, IngestEnds, EgressStops,
                      EndDrive, ringVars, vars
  <1> QED
    BY <1>1, <1>2, <1>3, <1>5 DEF Next

\* The steps that leave the write side of the socket alone.
LEMMA WriterFrame ==
    ASSUME WriterWillWake, tx' = tx, Write \in waits' => Write \in waits,
           Write \in flags => Write \in flags', Sender \in wakers => Sender \in wakers'
    PROVE  WriterWillWake'
  BY DEF WriterWillWake

\* A send is refused only by datagrams, and each that departs wakes the writer.
LEMMA WriterStep ==
    ASSUME HalfRing, SoundInv, SmallPadding, WriterWillWake, [Next]_vars
    PROVE  WriterWillWake'
  <1>0. TypeOK /\ RingInv(tx) /\ Read # Write /\ Sender \notin Member
    <2>1. Sender \notin Member
      BY Limits DEF Sender, Member
    <2> QED
      BY <2>1 DEF SoundInv, RingsInv, Read, Write
  <1>1. CASE \E n \in SendSizes : Sendto(n)
    <2>1. PICK n \in SendSizes :
            LET r == Enqueue(tx, Entry(n, None))
            IN /\ Write \notin waits /\ tx' = r.ring
               /\ IF r.ok THEN UNCHANGED wakeVars ELSE ArmUdpWaiter(Write, {Sender}, FALSE)
      BY <1>1 DEF Sendto, SendOrArm
    <2>2. CASE Enqueue(tx, Entry(n, None)).ok
      BY <2>1, <2>2 DEF WriterWillWake, wakeVars
    <2>3. CASE ~Enqueue(tx, Entry(n, None)).ok
      <3>1. Datagrams(tx') # {}
        BY <1>0, <2>1, <2>3, RefusedByDatagram DEF SmallPadding
      <3> QED
        BY <2>1, <2>3, <3>1 DEF WriterWillWake, ArmUdpWaiter
    <2> QED
      BY <2>2, <2>3
  <1>2. CASE EgressSends
    BY <1>2 DEF EgressSends, Wake, WriterWillWake
  <1>3. CASE EgressFindsNone
    <2>1. Datagrams(tx) = {} /\ UNCHANGED wakeVars
      BY <1>0, <1>3, DequeueSound DEF EgressFindsNone, EndDrive
    <2> QED
      BY <2>1 DEF WriterWillWake, wakeVars
  <1>4. CASE IngestDatagram
    <2>1. PICK w : Wake(w, Read) /\ w \in Member /\ tx' = tx
      <3>1. Head(queue) \in Packets /\ Head(queue).to # Nobody
        BY <1>0, <1>4, HeadPacket DEF IngestDatagram, IngestGoes, HasSocket, TypeOK
      <3> QED
        BY <1>4, <3>1, ReceivedEntry DEF IngestDatagram
    <2> QED
      BY <1>0, <2>1, WriterFrame DEF Wake
  <1>5. CASE ScanEnds \/ ScanLimited
    <2>1. PICK ready : ArmUdpWaiter(Read, Member, ready) /\ tx' = tx
      BY <1>5 DEF ScanEnds, ScanLimited, ScanArms
    <2> QED
      BY <1>0, <2>1, WriterFrame DEF ArmUdpWaiter
  <1>6. CASE \E d \in {Read, Write} : Cancel(d) \/ Notify(d)
    <2>1. PICK d \in {Read, Write} : /\ waits' = waits \ {d} /\ flags' = flags \ {d}
                                     /\ wakers' = wakers /\ tx' = tx
      BY <1>6 DEF Cancel, Notify, ringVars
    <2> QED
      BY <1>0, <2>1 DEF WriterWillWake
  <1>7. CASE Close
    BY <1>7 DEF Close, WriterWillWake
  <1>8. CASE UNCHANGED <<wakeVars, tx>>
    BY <1>8, WriterFrame DEF wakeVars
  <1>9. CASE \/ Bind \/ (\E src \in Sources : Connect(src)) \/ Recvfrom \/ Poll
             \/ ScanNext \/ ScanDrop \/ RecvfromAnswers
             \/ (\E p \in Packets : Ingress(p)) \/ IngestReply \/ IngestEnds
             \/ (\E packets \in {1, MaxPackets}, bytes \in {1, MaxBytes} :
                    GrantEgressCall(packets, bytes))
             \/ EgressStops \/ UNCHANGED vars
    BY <1>8, <1>9 DEF Bind, Connect, Recvfrom, Poll, ScanNext, ScanDrop, ScanStep, RecvfromAnswers,
                      Ingress, IngestReply, IngestEnds, GrantEgressCall, EgressStops, EndDrive,
                      vars, ringVars
  <1> QED
    BY <1>1, <1>2, <1>3, <1>4, <1>5, <1>6, <1>7, <1>9 DEF Next

-----------------------------------------------------------------------------
(* Theorems *)

\* Every variable keeps its type.  The receive queue stays within input_packets, and the
\* device within output_packets: stack.rs and device.rs check before they push.
THEOREM TypeCorrect == Spec => []TypeOK
  BY Sound, PTL DEF SoundInv

\* The packet rings stay sound, whatever sizes come in whatever order: entries fit the rings,
\* datagrams are contiguous, paddings are never adjacent, and so no unwrap of
\* packet_buffer.rs fails.
THEOREM RingsStaySound == Spec => []RingsSound
  <1>1. SoundInv => RingsSound
    BY DEF SoundInv, TypeOK, RingsOK, RingsInv, RingInv, RingsSound
  <1> QED
    BY <1>1, Sound, PTL

\* The device counts its bytes exactly, and a drive takes from the socket's ring only what the
\* egress credit of device.rs covers, whatever grants and calls come in whatever order.
THEOREM CreditKept == Spec => []CreditIsKept
  BY Sound, PTL DEF SoundInv

\* Handing packets to the link does not change whether the transmit queue may grow, whatever
\* the limits of the call: the comment on transmit_credit_available of device.rs says so.
THEOREM HandOverKeepsCredit ==
    ASSUME NEW d, DeviceInv(d), NEW packets \in Nat, NEW bytes \in Nat
    PROVE  TransmitCreditAvailable(TakeTransmit(d, packets, bytes)) <=> TransmitCreditAvailable(d)
  BY TakeTransmitSound

\* A read waiter is never stranded: its flag is up, or every ring is empty and every member
\* holds its waker.  recvfrom raises the flag itself for what its bounded scan left behind.
THEOREM ReadersWake == Spec => []ReaderWillWake
  BY Sound, QuietInit, ReaderStep, PTL DEF Spec

\* What the socket has to send never waits while there is credit: a poll is due whatever
\* stopped the last drive, its quota, the device or the want of a datagram.
THEOREM SendsPolled == Spec => []SendIsPolled
  BY Sound, QuietInit, PolledStep, PTL DEF Spec

\* A write waiter is never stranded, as long as a ring has two slots and no two datagrams are
\* together larger than it: the padding that a refused send leaves behind is then never all
\* that the ring holds, and a datagram that leaves wakes the waiter of udp_sendto.
THEOREM WritersWake ==
    ASSUME HalfRing
    PROVE  Spec => []WriterWillWake
  <1>1. Spec => []SmallPadding
    BY Sound, QuietInit, PaddingStep, PTL DEF Spec
  <1>2. SoundInv /\ SmallPadding /\ WriterWillWake /\ [Next]_vars => WriterWillWake'
    BY WriterStep
  <1> QED
    BY <1>1, <1>2, Sound, QuietInit, PTL DEF Spec

=============================================================================

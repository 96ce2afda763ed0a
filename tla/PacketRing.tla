----------------------------- MODULE PacketRing -----------------------------
(***************************************************************************)
(* The packet buffer of a UDP socket, one for each way (vendored smoltcp,  *)
(* storage/packet_buffer.rs): a ring of metadata, one entry a datagram,    *)
(* over a ring of payload bytes.  A datagram lies in contiguous bytes, so  *)
(* one that would run past the end of the payload ring is preceded by an   *)
(* entry of padding, which takes a metadata slot and bytes like any other. *)
(*                                                                         *)
(* A ring is [meta, at, length]: its entries, where the bytes of the first *)
(* are, and how many bytes are in use.                                     *)
(***************************************************************************)
EXTENDS Sizes

CONSTANTS
    Slots,  \* udp.rs PACKET_CAPACITY
    Bytes   \* udp.rs PAYLOAD_BYTES

ASSUME RingAssumption == Slots \in Nat \ {0} /\ Bytes \in Nat \ {0}

EmptyRing == [meta |-> <<>>, at |-> 0, length |-> 0]

\* The sender of a datagram is of no interest in a transmit ring.
Padding == "padding"
Entry(size, src) == [size |-> size, src |-> src]

Window(r) == Bytes - r.length

ContiguousWindow(r) ==
    Least(Window(r), Bytes - ((r.at + r.length) % Bytes))

\* enqueue_many starts an empty payload ring over at its first byte.
Push(r, e) ==
    [meta |-> Append(r.meta, e), at |-> IF r.length = 0 THEN 0 ELSE r.at,
     length |-> r.length + e.size]

Pop(r) ==
    LET n == Head(r.meta).size
    IN [meta |-> Tail(r.meta), at |-> (r.at + n) % Bytes, length |-> r.length - n]

Full(r) == [ok |-> FALSE, ring |-> r]

\* Mutant of Enqueue: no padding, a datagram may run past the end of the ring.
EnqueueWrapping(r, e) ==
    IF e.size > Bytes \/ Len(r.meta) = Slots \/ Window(r) < e.size
    THEN Full(r)
    ELSE [ok |-> TRUE, ring |-> Push(r, e)]

\* The padding goes in first and stays in if there is no slot left for the datagram.
Enqueue(r, e) ==
    LET clear == IF r.length = 0 THEN [r EXCEPT !.at = 0] ELSE r
        contiguous == ContiguousWindow(clear)
        padded == IF contiguous < e.size THEN Push(clear, Entry(contiguous, Padding)) ELSE clear
    IN IF e.size > Bytes \/ Len(r.meta) = Slots THEN Full(r)
       ELSE IF Window(r) < e.size THEN Full(clear)
       ELSE IF contiguous < e.size /\ Window(r) - contiguous < e.size THEN Full(clear)
       ELSE IF Len(padded.meta) = Slots THEN Full(padded)
       ELSE [ok |-> TRUE, ring |-> Push(padded, e)]

DropPadding(r) ==
    IF r.meta # <<>> /\ Head(r.meta).src = Padding THEN Pop(r) ELSE r

\* dequeue and dequeue_with, when the datagram is taken: one padding is dropped, and the
\* entry after it is unwrapped as a datagram.
Dequeue(r) ==
    LET next == DropPadding(r)
    IN IF next.meta = <<>>
       THEN Full(next)
       ELSE [ok |-> TRUE, ring |-> Pop(next), entry |-> Head(next.meta)]

Datagrams(r) == {i \in DOMAIN r.meta : r.meta[i].src # Padding}

-----------------------------------------------------------------------------
(* Properties *)

\* What the unwraps of packet_buffer.rs rely on: entries fit the two rings, a datagram is in
\* contiguous bytes, and no padding is followed by another, whose header does not exist.
RingSound(r) ==
    LET start(i) == (r.at + Sizes(r.meta)[i - 1]) % Bytes
    IN /\ Len(r.meta) <= Slots
       /\ r.length = TotalSize(r.meta) /\ r.length <= Bytes
       /\ \A i \in DOMAIN r.meta :
            /\ start(i) + r.meta[i].size <= Bytes
            /\ r.meta[i].src = Padding /\ i < Len(r.meta) => r.meta[i + 1].src # Padding
=============================================================================

------------------------------- MODULE Device -------------------------------
(***************************************************************************)
(* The packet device between smoltcp and the link (device.rs): a queue of  *)
(* packets to transmit, counted in packets and in bytes, and the egress    *)
(* credit the link has granted for both.                                   *)
(*                                                                         *)
(* A device is [tx, bytes, credit], a packet [size, reply]: reply is TRUE  *)
(* for what smoltcp answers a received packet with, which may take the     *)
(* whole queue without credit.                                             *)
(***************************************************************************)
EXTENDS Sizes

CONSTANTS
    OutputPackets,  \* limits.output_packets, the transmit limit of a call
    BytesCopied,    \* limits.bytes_copied, the bytes a call hands to the link
    MaxPackets,     \* usize::MAX, where the credit saturates
    MaxBytes        \* the same for its bytes

ASSUME DeviceAssumption ==
    /\ OutputPackets \in Nat /\ BytesCopied \in Nat
    /\ MaxPackets \in Nat /\ MaxBytes \in Nat

NewDevice == [tx |-> <<>>, bytes |-> 0, credit |-> [packets |-> 0, bytes |-> 0]]

\* The credit saturates.
GrantEgress(dev, packets, bytes) ==
    [dev EXCEPT !.credit = [packets |-> Least(dev.credit.packets + packets, MaxPackets),
                            bytes |-> Least(dev.credit.bytes + bytes, MaxBytes)]]

\* Mutant of TransmitCreditAvailable: the queue may grow while credit is left, not while it
\* is smaller than the credit.
TransmitCreditAny(dev) == dev.credit.packets > 0 /\ dev.credit.bytes > 0

TransmitCreditAvailable(dev) ==
    Len(dev.tx) < dev.credit.packets /\ dev.bytes < dev.credit.bytes

TransmitReady(dev) ==
    /\ dev.tx # <<>>
    /\ dev.credit.packets > 0
    /\ Head(dev.tx).size <= dev.credit.bytes

CanReceive(dev) == Len(dev.tx) < OutputPackets

Transmit(dev, packet) ==
    [tx |-> Append(dev.tx, packet), bytes |-> dev.bytes + packet.size, credit |-> dev.credit]

\* The first packets of the queue, as many as the limits and the credit let go.
Taken(dev, packets, bytes) ==
    LET fits(n) == Sizes(dev.tx)[n] <= Least(bytes, dev.credit.bytes)
        most == Least(Len(dev.tx), Least(packets, dev.credit.packets))
    IN CHOOSE n \in 0..most : fits(n) /\ (n = most \/ ~fits(n + 1))

TakeTransmit(dev, packets, bytes) ==
    LET n == Taken(dev, packets, bytes)
        size == Sizes(dev.tx)[n]
    IN [tx |-> SubSeq(dev.tx, n + 1, Len(dev.tx)), bytes |-> dev.bytes - size,
        credit |-> [packets |-> dev.credit.packets - n, bytes |-> dev.credit.bytes - size]]

-----------------------------------------------------------------------------
(* Properties *)

\* The count of bytes is that of the queue, and a packet smoltcp took from a socket buffer
\* was let in by the credit: its packet and the bytes before it are granted.  Only what
\* answers a received packet waits in the queue for credit, as the comment on `credit` says.
WithinCredit(dev) ==
    /\ dev.bytes = TotalSize(dev.tx)
    /\ \A i \in DOMAIN dev.tx :
         ~dev.tx[i].reply =>
            /\ i <= dev.credit.packets
            /\ Sizes(dev.tx)[i - 1] < dev.credit.bytes
=============================================================================

-------------------------------- MODULE Udp ---------------------------------
(***************************************************************************)
(* A UDP socket of a stack with an egress-credited link: sendto, recvfrom  *)
(* and the drive that every call ends with (stack.rs, udp.rs), over the    *)
(* packet rings of smoltcp (PacketRing) and the packet device (Device).    *)
(*                                                                         *)
(* A call is a sequence of steps, and the next call begins once it is done *)
(* (step = "idle"): recvfrom scans a ring of the socket at a time, a drive *)
(* takes a packet at a time.                                               *)
(*                                                                         *)
(* A socket bound to the unspecified address has a member, a native        *)
(* socket, for each address of the interface; it sends through the first.  *)
(* Notify stands for the epilogue of a call, which module Readiness has in *)
(* full: a flag that is up reaches its waiter.  The call budget is left    *)
(* out: a loop it cuts short asks for a continuation (StackOwner).         *)
(***************************************************************************)
EXTENDS PacketRing, Device

CONSTANTS
    Members,          \* addresses of the interface
    SendSizes,        \* payload sizes sendto is called with: at most max_datagram_bytes
    ReceiveSizes,     \* payload sizes that arrive
    Sources,          \* remote endpoints
    HeaderBytes,      \* of an IP and a UDP header
    ReplyBytes,       \* of a packet smoltcp answers a received one with
    MaintenanceWork,  \* limits.maintenance_work
    InputPackets      \* limits.input_packets, also the limit of the receive queue

None == "none"

ASSUME UdpAssumption ==
    /\ Members \in Nat \ {0} /\ MaintenanceWork \in Nat \ {0} /\ InputPackets \in Nat \ {0}
    /\ HeaderBytes \in Nat /\ ReplyBytes \in Nat
    /\ SendSizes \subseteq Nat /\ ReceiveSizes \subseteq Nat
    /\ \A n \in SendSizes : n <= Bytes /\ n + HeaderBytes <= BytesCopied
    /\ None \notin Sources /\ Padding \notin Sources

VARIABLES
    phase,   \* "open", "bound" or "closed"
    peer,    \* the source a connected socket receives from; None
    cursor,  \* record.receive_cursor
    waits,   \* directions with a waiter
    rx, tx,  \* the receive rings of the members, the transmit ring of the first
    wakers,  \* members whose smoltcp socket holds a waker for reading, and Sender
    flags,   \* directions whose ready flag is up
    dev,     \* the device
    queue,   \* received packets not processed yet, from a source to a member or to Nobody
    polled,  \* the owner polls: `more`, or a poll_at that is due
    step,    \* "idle", "scan" in recvfrom, "ingress" or "egress" in a drive
    scan,    \* offset and inspected of recvfrom
    drive    \* of drive_batch: work and egress_may_remain, packets and bytes left to hand over

socketVars == <<phase, peer, cursor>>
ringVars == <<rx, tx>>
wakeVars == <<waits, wakers, flags>>
driveVars == <<dev, drive, scan, step, polled>>
vars == <<socketVars, ringVars, wakeVars, queue, driveVars>>

Member == 0..Members - 1
Nobody == Members  \* not a member
Sender == Members  \* the first member, as the holder of a waker for sending
Read == "read"
Write == "write"

Packets ==
    [to : Member, src : Sources, size : ReceiveSizes]
        \cup {[to |-> Nobody, src |-> None, size |-> 0]}

NewRx == [i \in Member |-> EmptyRing]
NoScan == [offset |-> 0, inspected |-> 0]
NoDrive == [work |-> 0, remain |-> FALSE, packets |-> 0, bytes |-> 0]

Init ==
    /\ phase = "open" /\ peer = None /\ cursor = 0
    /\ rx = NewRx /\ tx = EmptyRing
    /\ waits = {} /\ wakers = {} /\ flags = {}
    /\ queue = <<>>
    /\ dev = NewDevice /\ drive = NoDrive /\ scan = NoScan /\ step = "idle" /\ polled = FALSE

-----------------------------------------------------------------------------
(* A drive (drive_batch): hand packets over, process what was received, send, hand over    *)
(* again.                                                                                   *)

\* The first hand-over, with which a call goes on to its drive.
BeginDrive(d) ==
    LET n == Taken(d, OutputPackets, BytesCopied)
    IN /\ dev' = TakeTransmit(d, OutputPackets, BytesCopied)
       /\ drive' = [work |-> 0, remain |-> FALSE, packets |-> OutputPackets - n,
                    bytes |-> BytesCopied - Sizes(d.tx)[n]]
       /\ step' = "ingress"
       /\ scan' = NoScan
       /\ UNCHANGED polled

Wake(w, d) ==
    /\ wakers' = wakers \ {w}
    /\ flags' = IF w \in wakers THEN flags \cup {d} ELSE flags
    /\ UNCHANGED waits

IngestGoes == drive.work < InputPackets /\ queue # <<>> /\ CanReceive(dev)
HasSocket(p) == p.to # Nobody /\ phase = "bound"

\* A datagram wakes the reader whether or not its ring had room.
IngestDatagram ==
    /\ step = "ingress" /\ IngestGoes
    /\ LET p == Head(queue)
       IN /\ HasSocket(p)
          /\ rx' = [rx EXCEPT ![p.to] = Enqueue(@, Entry(p.size, p.src)).ring]
          /\ Wake(p.to, Read)
    /\ queue' = Tail(queue)
    /\ drive' = [drive EXCEPT !.work = @ + 1]
    /\ UNCHANGED <<socketVars, tx, dev, scan, step, polled>>

\* A packet that no socket takes is answered.
IngestReply ==
    /\ step = "ingress" /\ IngestGoes
    /\ ~HasSocket(Head(queue))
    /\ dev' = Transmit(dev, [size |-> ReplyBytes, reply |-> TRUE])
    /\ queue' = Tail(queue)
    /\ drive' = [drive EXCEPT !.work = @ + 1]
    /\ UNCHANGED <<socketVars, ringVars, wakeVars, scan, step, polled>>

IngestEnds ==
    /\ step = "ingress" /\ ~IngestGoes
    /\ step' = "egress"
    /\ drive' = [drive EXCEPT !.work = 0]
    /\ UNCHANGED <<socketVars, ringVars, wakeVars, queue, dev, scan, polled>>

EgressGoes == drive.work < MaintenanceWork /\ CanReceive(dev) /\ TransmitCreditAvailable(dev)

\* poll_egress sends a datagram of the socket, which wakes the writer.
EgressSends ==
    /\ step = "egress" /\ EgressGoes
    /\ LET d == Dequeue(tx)
       IN /\ d.ok
          /\ tx' = d.ring
          /\ dev' = Transmit(dev, [size |-> d.entry.size + HeaderBytes, reply |-> FALSE])
    /\ Wake(Sender, Write)
    /\ drive' = [work |-> drive.work + 1, remain |-> TRUE, packets |-> drive.packets,
                 bytes |-> drive.bytes]
    /\ UNCHANGED <<socketVars, rx, queue, scan, step, polled>>

\* Mutant of Due: what a full maintenance quota leaves is not polled for.
DueNoRemain(ring, d, remain) ==
    \/ TransmitReady(d)
    \/ queue # <<>> /\ CanReceive(d)

\* `more`, or a poll_at that is now.
Due(ring, d, remain) ==
    \/ TransmitReady(d)
    \/ queue # <<>> /\ CanReceive(d)
    \/ TransmitCreditAvailable(d) /\ (remain \/ ring.meta # <<>>)

EndDrive(ring, remain) ==
    LET d == TakeTransmit(dev, drive.packets, drive.bytes)
    IN /\ tx' = ring
       /\ dev' = d
       /\ polled' = Due(ring, d, remain)
       /\ step' = "idle"
       /\ drive' = NoDrive
       /\ UNCHANGED <<socketVars, rx, wakeVars, queue, scan>>

\* poll_egress finds no datagram.
EgressFindsNone ==
    /\ step = "egress" /\ EgressGoes
    /\ ~Dequeue(tx).ok
    /\ EndDrive(Dequeue(tx).ring, FALSE)

EgressStops ==
    /\ step = "egress" /\ ~EgressGoes
    /\ EndDrive(tx, drive.remain)

-----------------------------------------------------------------------------
(* Calls on the socket. *)

Idle == step = "idle"

Bind ==
    /\ Idle /\ phase = "open"
    /\ phase' = "bound"
    /\ UNCHANGED <<peer, cursor, ringVars, wakeVars, queue, driveVars>>

Connect(src) ==
    /\ Idle /\ phase = "bound"
    /\ peer' = src
    /\ UNCHANGED <<phase, cursor, ringVars, wakeVars, queue, driveVars>>

\* install_waiter lowers the flag, then the wakers are registered.
ArmUdpWaiter(d, holders, ready) ==
    /\ waits' = waits \cup {d}
    /\ wakers' = wakers \cup holders
    /\ flags' = IF ready THEN flags \cup {d} ELSE flags \ {d}

Matching(e) == peer \in {None, e.src}

Recvfrom ==
    /\ Idle /\ phase = "bound"
    /\ Read \notin waits
    /\ step' = "scan"
    /\ UNCHANGED <<socketVars, ringVars, wakeVars, queue, dev, drive, scan, polled>>

\* The loops of recvfrom: the rings from the cursor on, at most PACKET_CAPACITY datagrams.
Scanned == (cursor + scan.offset) % Members
Received == Dequeue(rx[Scanned])

ScanStep(scanned) ==
    /\ rx' = [rx EXCEPT ![Scanned] = Received.ring]
    /\ scan' = scanned
    /\ UNCHANGED <<socketVars, tx, wakeVars, queue, dev, drive, step, polled>>

ScanNext ==
    /\ step = "scan"
    /\ ~Received.ok /\ scan.offset + 1 < Members
    /\ ScanStep([scan EXCEPT !.offset = @ + 1])

\* A datagram that is not from the peer is dropped.
ScanDrop ==
    /\ step = "scan"
    /\ Received.ok /\ ~Matching(Received.entry) /\ scan.inspected + 1 < Slots
    /\ ScanStep([scan EXCEPT !.inspected = @ + 1])

CanRecv(rings) == \E i \in DOMAIN rings : rings[i].meta # <<>>

\* Mutant of ScanArms: the waiter is not woken for what the scan left behind.
ScanArmsNotReady(next) ==
    LET rings == [rx EXCEPT ![Scanned] = Received.ring]
    IN /\ rx' = rings
       /\ cursor' = next
       /\ ArmUdpWaiter(Read, Member, FALSE)
       /\ BeginDrive(dev)
       /\ UNCHANGED <<phase, peer, tx, queue>>

\* Nothing to answer with: a waiter is armed in every member.
ScanArms(next) ==
    LET rings == [rx EXCEPT ![Scanned] = Received.ring]
    IN /\ rx' = rings
       /\ cursor' = next
       /\ ArmUdpWaiter(Read, Member, CanRecv(rings))
       /\ BeginDrive(dev)
       /\ UNCHANGED <<phase, peer, tx, queue>>

ScanEnds ==
    /\ step = "scan"
    /\ ~Received.ok /\ scan.offset + 1 = Members
    /\ ScanArms(cursor)

ScanLimited ==
    /\ step = "scan"
    /\ Received.ok /\ ~Matching(Received.entry) /\ scan.inspected + 1 = Slots
    /\ ScanArms((Scanned + 1) % Members)

\* Mutant of RecvfromAnswers: the cursor stays.
RecvfromAnswersNoCursor ==
    /\ step = "scan"
    /\ Received.ok /\ Matching(Received.entry)
    /\ rx' = [rx EXCEPT ![Scanned] = Received.ring]
    /\ BeginDrive(dev)
    /\ UNCHANGED <<phase, peer, cursor, tx, wakeVars, queue>>

\* The first datagram from the peer ends the loops.
RecvfromAnswers ==
    /\ step = "scan"
    /\ Received.ok /\ Matching(Received.entry)
    /\ rx' = [rx EXCEPT ![Scanned] = Received.ring]
    /\ cursor' = (Scanned + 1) % Members
    /\ BeginDrive(dev)
    /\ UNCHANGED <<phase, peer, tx, wakeVars, queue>>

\* The datagram goes into the ring of the first member, or a waiter with its waker there.
SendOrArm(n, holders) ==
    LET r == Enqueue(tx, Entry(n, None))
    IN /\ Idle /\ phase = "bound"
       /\ Write \notin waits
       /\ tx' = r.ring
       /\ IF r.ok THEN UNCHANGED wakeVars ELSE ArmUdpWaiter(Write, holders, FALSE)
       /\ BeginDrive(dev)
       /\ UNCHANGED <<socketVars, rx, queue>>

\* Mutant of Sendto: the waiter of a full ring has no waker.
SendtoUnarmed(n) == SendOrArm(n, {})

Sendto(n) == SendOrArm(n, {Sender})

\* The waiter goes and its flag is lowered; smoltcp keeps the waker.
Cancel(d) ==
    /\ Idle /\ d \in waits
    /\ waits' = waits \ {d}
    /\ flags' = flags \ {d}
    /\ UNCHANGED <<socketVars, ringVars, wakers, queue, driveVars>>

\* Whatever the rings hold goes with the socket; its waiters are aborted.
Close ==
    /\ Idle /\ phase # "closed"
    /\ phase' = "closed" /\ peer' = None /\ cursor' = 0
    /\ rx' = NewRx /\ tx' = EmptyRing
    /\ waits' = {} /\ wakers' = {} /\ flags' = {}
    /\ BeginDrive(dev)
    /\ UNCHANGED queue

-----------------------------------------------------------------------------
(* The link, the owner and the readiness machinery. *)

\* ingress_batch of a packet, which waits in the receive queue if the drive cannot take it.
Ingress(p) ==
    /\ Idle /\ Len(queue) < InputPackets
    /\ queue' = Append(queue, p)
    /\ BeginDrive(dev)
    /\ UNCHANGED <<socketVars, ringVars, wakeVars>>

GrantEgressCall(packets, bytes) ==
    /\ Idle
    /\ BeginDrive(GrantEgress(dev, packets, bytes))
    /\ UNCHANGED <<socketVars, ringVars, wakeVars, queue>>

Poll ==
    /\ Idle /\ polled
    /\ BeginDrive(dev)
    /\ UNCHANGED <<socketVars, ringVars, wakeVars, queue>>

Notify(d) ==
    /\ Idle /\ d \in flags
    /\ flags' = flags \ {d}
    /\ waits' = waits \ {d}
    /\ UNCHANGED <<socketVars, ringVars, wakers, queue, driveVars>>

Next ==
    \/ Bind
    \/ \E src \in Sources : Connect(src)
    \/ Recvfrom
    \/ ScanNext \/ ScanDrop \/ ScanEnds \/ ScanLimited \/ RecvfromAnswers
    \/ \E n \in SendSizes : Sendto(n)
    \/ \E d \in {Read, Write} : Cancel(d) \/ Notify(d)
    \/ Close
    \/ \E p \in Packets : Ingress(p)
    \/ \E packets \in {1, MaxPackets}, bytes \in {1, MaxBytes} : GrantEgressCall(packets, bytes)
    \/ Poll
    \/ IngestDatagram \/ IngestReply \/ IngestEnds
    \/ EgressSends \/ EgressFindsNone \/ EgressStops

Spec == Init /\ [][Next]_vars

-----------------------------------------------------------------------------
(* Properties *)

\* The packet rings stay sound: no unwrap of packet_buffer.rs fails whatever sizes come in
\* whatever order.
RingsSound == RingSound(tx) /\ \A i \in DOMAIN rx : RingSound(rx[i])

\* The device counts its bytes exactly, and takes from the socket's ring only what the credit
\* covers.
CreditIsKept == WithinCredit(dev)

\* A read waiter is never stranded: its flag is up, or every ring is empty and every member
\* holds its waker, though one datagram at most was dropped for each slot of a ring.
ReaderWillWake ==
    Read \in waits =>
        \/ Read \in flags
        \/ \A i \in Member : rx[i].meta = <<>> /\ i \in wakers

\* A write waiter is never stranded: its flag is up, or the ring holds a datagram whose
\* departure wakes it.
WriterWillWake ==
    Write \in waits =>
        \/ Write \in flags
        \/ Sender \in wakers /\ Datagrams(tx) # {}

\* What the scan of recvfrom looks for in the ring of a member, and how far the member is
\* from the cursor.
HasForPeer(i) == \E k \in Datagrams(rx[i]) : Matching(rx[i].meta[k])
FromCursor(i) == (Members + i - cursor) % Members

\* recvfrom takes turns: a datagram from one member brings every other member that has a
\* datagram of the peer nearer to the cursor, so that none waits for more than a round.
MembersTakeTurns ==
    [][RecvfromAnswers =>
        \A i \in Member :
            HasForPeer(i) /\ i # Scanned => FromCursor(i)' < FromCursor(i)]_vars

\* What the socket has to send never waits while there is credit: a poll is due, whatever
\* stopped the last drive.
SendIsPolled ==
    Idle /\ Datagrams(tx) # {} /\ TransmitCreditAvailable(dev) => polled
=============================================================================

------------------------- MODULE SocketClientProofs -------------------------
(***************************************************************************)
(* Proofs about SocketClient, for any number of clients, any lengths and   *)
(* any bounds: every variable keeps its type, a request still in an inbox  *)
(* is the one its caller waits for, or one that was given up, and every    *)
(* byte that arrived is accounted for.  SocketClientWaits builds on them.  *)
(*                                                                         *)
(* For the bytes: by what is known of the inboxes (InboxInv) the reply to  *)
(* a request moves its bytes to the caller that waits, or to `lost'.  What *)
(* callers hold is a sum over the readers: induction is stated with sets   *)
(* in the place of predicates, and shows what the sum becomes when one     *)
(* reader's count changes.                                                 *)
(***************************************************************************)
EXTENDS SocketClient, FiniteSetTheorems, TLAPS

\* Most leaves are first-order and short: Zenon is asked first, then the SMT solver.
USE ZenonT(3), SMTT(20), ZenonT(30)

\* The i-th request in an inbox is the one its caller waits for, with as much left to
\* move, or one that was given up.
Accounted(c, i) ==
    /\ inbox[c][i].n <= req[c]
    /\ \/ /\ Awaited(c, inbox[c][i])
          /\ inbox[c][i].op = "move" => inbox[c][i].want = want[c]
       \/ /\ Ref(c, inbox[c][i].n) \in late
          /\ inbox[c][i].n < req[c] \/ pc[c] = "idle"

\* An inbox has its requests in the order of their numbers.
Ordered(c) == \A i, j \in 1..Len(inbox[c]) : i < j => inbox[c][i].n < inbox[c][j].n

InboxInv ==
    \A c \in Clients : Ordered(c) /\ \A i \in 1..Len(inbox[c]) : Accounted(c, i)

\* A call in progress has sent a request.
SentInv == \A c \in Clients : pc[c] # "idle" => req[c] > 0

\* What is empty once the owner is gone, or the socket is closed.
GoneInv ==
    /\ downed # {} => ~alive
    /\ ~alive => owed = {} /\ \A c \in Clients : inbox[c] = <<>>
    /\ ~alive \/ ~open => \A d \in Dirs : slot[d] = NoRef

CallInv ==
    /\ TypeOK
    /\ rx <= arrived
    /\ SentInv
    /\ InboxInv
    /\ GoneInv

-----------------------------------------------------------------------------
(* Types *)

LEMMA NoRefNotRef == NoRef \notin Refs
  BY DEF NoRef, Refs

\* What Refusal may be.
LEMMA RefusalType ==
    ASSUME TypeOK, NEW d \in Dirs
    PROVE  Refusal(d) \in Results \cup {"none"}
  BY DEF Refusal, Results, TypeOK

\* The types of what the end of a call changes.
CallTypeOK ==
    /\ pc \in [Clients -> {"idle", "calling", "waiting", "cancelling"}]
    /\ want \in [Clients -> Nat]
    /\ moved \in [Clients -> Nat]
    /\ total \in Nat
    /\ result \in [Clients -> Results]
    /\ downed \subseteq Clients

LEMMA ReturnType ==
    ASSUME TypeOK, NEW c \in Clients, NEW res \in Results, NEW k \in Nat, Return(c, res, k)
    PROVE  CallTypeOK'
  BY DEF TypeOK, CallTypeOK, Return

LEMMA RequestType ==
    ASSUME TypeOK, NEW c \in Clients, NEW n \in Nat, Request(c, n)
    PROVE  /\ req' \in [Clients -> 0..MaxRequests]
           /\ inbox' \in [Clients -> Seq(Requests)]
           /\ pc' \in [Clients -> {"idle", "calling", "waiting", "cancelling"}]
  <1>0. req[c] + 1 \in 1..MaxRequests
    BY ClientAssumption DEF TypeOK, Request, ClientAssumption
  <1>1. req' \in [Clients -> 0..MaxRequests]
    BY <1>0 DEF TypeOK, Request
  <1>2. [op |-> "move", n |-> req[c] + 1, want |-> n] \in Requests
    BY <1>0 DEF Requests
  <1>3. inbox' \in [Clients -> Seq(Requests)]
    BY <1>2 DEF TypeOK, Request
  <1> QED
    BY <1>1, <1>3 DEF TypeOK, Request

LEMMA HandleType ==
    ASSUME TypeOK, NEW c \in Clients, NEW op, Handle(c, op)
    PROVE  /\ inbox' \in [Clients -> Seq(Requests)]
           /\ Head(inbox[c]) \in Requests
           /\ Head(inbox[c]) = inbox[c][1]
           /\ 1 \in 1..Len(inbox[c])
  BY DEF TypeOK, Handle

LEMMA ReplyType ==
    ASSUME TypeOK, NEW c \in Clients, NEW q \in Requests, NEW res \in Results, NEW k \in Nat,
           Reply(c, q, res, k)
    PROVE  CallTypeOK' /\ lost' \in Nat
  <1>1. CASE Awaited(c, q)
    BY <1>1, ReturnType DEF Reply, TypeOK
  <1>2. CASE ~Awaited(c, q)
    BY <1>2 DEF Reply, TypeOK, CallTypeOK, doneVars
  <1> QED
    BY <1>1, <1>2

LEMMA ReplySelectType ==
    ASSUME TypeOK, NEW c \in Clients, NEW q \in Requests, NEW k \in Nat, ReplySelect(c, q, k),
           Awaited(c, q) => want[c] = 0 \/ k <= want[c]
    PROVE  /\ pc' \in [Clients -> {"idle", "calling", "waiting", "cancelling"}]
           /\ moved' \in [Clients -> Nat]
           /\ want' \in [Clients -> Nat]
           /\ lost' \in Nat
  <1>1. CASE Awaited(c, q)
    <2>1. (IF want[c] = 0 THEN 0 ELSE want[c] - k) \in Nat /\ moved[c] + k \in Nat
      BY <1>1 DEF TypeOK
    <2> QED
      BY <1>1, <2>1 DEF ReplySelect, TypeOK
  <1>2. CASE ~Awaited(c, q)
    BY <1>2 DEF ReplySelect, TypeOK
  <1> QED
    BY <1>1, <1>2

LEMMA ArmType ==
    ASSUME TypeOK, NEW d \in Dirs, NEW ref \in Refs \cup {NoRef}, NEW ready \in BOOLEAN,
           ArmWaiter(d, ref, ready)
    PROVE  /\ slot' \in [Dirs -> Refs \cup {NoRef}]
           /\ flag' \in [Dirs -> BOOLEAN]
           /\ owed' \subseteq Refs
  BY DEF ArmWaiter, TypeOK

\* How much a request to receive moves.
RecvBytes(q) == Min2(IF q.want = 0 THEN CopyLimit ELSE Min2(q.want, CopyLimit), rx)

LEMMA RecvBytesBound ==
    ASSUME TypeOK, NEW q \in Requests
    PROVE  /\ RecvBytes(q) \in Nat
           /\ RecvBytes(q) <= rx
           /\ q.want = 0 \/ RecvBytes(q) <= q.want
  BY ClientAssumption DEF TypeOK, Requests, RecvBytes, Min2, ClientAssumption

\* How much a request to send moves.
SendBytes(q) == Min2(Min2(q.want, CopyLimit), room)

LEMMA SendBytesBound ==
    ASSUME TypeOK, NEW q \in Requests
    PROVE  /\ SendBytes(q) \in Nat
           /\ SendBytes(q) <= room
           /\ SendBytes(q) <= q.want
  BY ClientAssumption DEF TypeOK, Requests, SendBytes, Min2, ClientAssumption

\* tcp_recv ends in one of four ways.
LEMMA RecvCases ==
    ASSUME NEW c \in Clients, HandleRecv(c)
    PROVE  LET q == Head(inbox[c])
               k == RecvBytes(q)
           IN  \/ rx' = rx - k /\ Reply(c, q, "ok", k) /\ UNCHANGED waitVars
               \/ Reply(c, q, "ok", 0) /\ UNCHANGED <<rx, waitVars>>
               \/ Reply(c, q, "eof", 0) /\ UNCHANGED <<rx, waitVars>>
               \/ Reply(c, q, "limit", 0) /\ UNCHANGED <<rx, waitVars>>
               \/ /\ rx' = rx - k
                  /\ ArmWaiter("read", Ref(c, q.n), rx' > 0)
                  /\ ReplySelect(c, q, k)
                  /\ UNCHANGED <<doneVars, downed>>
  BY DEF HandleRecv, RecvBytes

\* tcp_send ends in one of three.
LEMMA SendCases ==
    ASSUME NEW c \in Clients, HandleSend(c)
    PROVE  LET q == Head(inbox[c])
               k == SendBytes(q)
           IN  \/ room' = room - k /\ Reply(c, q, "ok", k) /\ UNCHANGED waitVars
               \/ Reply(c, q, "limit", 0) /\ UNCHANGED <<room, waitVars>>
               \/ /\ room' = room - k
                  /\ ArmWaiter("write", Ref(c, q.n), room' > 0)
                  /\ ReplySelect(c, q, k)
                  /\ UNCHANGED <<doneVars, downed>>
  BY DEF HandleSend, SendBytes

LEMMA RefType ==
    ASSUME NEW c \in Clients, NEW q \in Requests
    PROVE  Ref(c, q.n) \in Refs
  BY DEF Ref, Refs, Requests

\* A request that is awaited asks for what its caller wants.
LEMMA AwaitedWant ==
    ASSUME TypeOK, InboxInv, NEW c \in Clients, Handle(c, "move"), Awaited(c, Head(inbox[c]))
    PROVE  Head(inbox[c]).want = want[c]
  <1>1. Head(inbox[c]) = inbox[c][1] /\ 1 \in 1..Len(inbox[c]) /\ Head(inbox[c]).op = "move"
    BY HandleType DEF Handle
  <1>2. ~(inbox[c][1].n < req[c] \/ pc[c] = "idle")
    BY <1>1 DEF Awaited, TypeOK
  <1> QED
    BY <1>1, <1>2 DEF InboxInv, Accounted

LEMMA RecvType ==
    ASSUME TypeOK, InboxInv, NEW c \in Clients, HandleRecv(c)
    PROVE  TypeOK'
  <1> DEFINE q == Head(inbox[c])
             k == RecvBytes(q)
  <1>1. /\ q \in Requests
        /\ inbox' \in [Clients -> Seq(Requests)]
        /\ Awaited(c, q) => q.want = want[c]
    BY HandleType, AwaitedWant DEF HandleRecv
  <1>2. k \in Nat /\ k <= rx /\ (q.want = 0 \/ k <= q.want)
    BY <1>1, RecvBytesBound
  <1>3. Ref(c, q.n) \in Refs
    BY <1>1, RefType
  <1>4. UNCHANGED <<connVars, room, arrived, mail, refVars>>
    BY DEF HandleRecv
  <1>5. rx - k \in 0..MaxBytes /\ rx \in 0..MaxBytes /\ rx - 0 = rx
    BY <1>2, ClientAssumption DEF TypeOK, ClientAssumption
  <1> HIDE DEF q, k
  <1>6. ASSUME NEW res \in {"ok", "eof", "limit"}, NEW j \in {0, k},
               Reply(c, q, res, j), rx' = rx - j, UNCHANGED waitVars
        PROVE  TypeOK'
    <2>1. res \in Results /\ j \in Nat /\ rx' \in 0..MaxBytes
      BY <1>2, <1>5, <1>6 DEF Results
    <2>2. CallTypeOK' /\ lost' \in Nat
      BY <1>1, <1>6, <2>1, ReplyType
    <2> QED
      BY <1>1, <1>4, <1>6, <2>1, <2>2 DEF TypeOK, CallTypeOK, waitVars, connVars, refVars
  <1>7. ASSUME rx' = rx - k, ArmWaiter("read", Ref(c, q.n), rx' > 0), ReplySelect(c, q, k),
               UNCHANGED <<doneVars, downed>>
        PROVE  TypeOK'
    <2>1. /\ slot' \in [Dirs -> Refs \cup {NoRef}]
          /\ flag' \in [Dirs -> BOOLEAN]
          /\ owed' \subseteq Refs
      <3>1. PICK b \in BOOLEAN : b = (rx' > 0)
        <4>1. (rx' > 0) \in BOOLEAN
          BY SMTT(30)
        <4> QED
          BY <4>1, ZenonT(60)
      <3>2. ArmWaiter("read", Ref(c, q.n), b) /\ "read" \in Dirs
        BY <1>7, <3>1 DEF Dirs
      <3> QED
        BY <1>3, <3>2, ArmType
    <2>2. /\ pc' \in [Clients -> {"idle", "calling", "waiting", "cancelling"}]
          /\ moved' \in [Clients -> Nat]
          /\ want' \in [Clients -> Nat]
          /\ lost' \in Nat
      BY <1>1, <1>2, <1>7, ReplySelectType
    <2> QED
      BY <1>1, <1>4, <1>5, <1>7, <2>1, <2>2 DEF TypeOK, connVars, refVars, doneVars
  <1> QED
    BY <1>5, <1>6, <1>7, RecvCases DEF q, k

LEMMA SendType ==
    ASSUME TypeOK, InboxInv, NEW c \in Clients, HandleSend(c)
    PROVE  TypeOK'
  <1> DEFINE q == Head(inbox[c])
             k == SendBytes(q)
  <1>1. /\ q \in Requests
        /\ inbox' \in [Clients -> Seq(Requests)]
        /\ Awaited(c, q) => q.want = want[c]
    BY HandleType, AwaitedWant DEF HandleSend
  <1>2. k \in Nat /\ k <= room /\ k <= q.want
    BY <1>1, SendBytesBound
  <1>3. Ref(c, q.n) \in Refs
    BY <1>1, RefType
  <1>4. UNCHANGED <<connVars, rx, arrived, mail, refVars>>
    BY DEF HandleSend
  <1>5. room - k \in 0..MaxRoom /\ room \in 0..MaxRoom /\ room - 0 = room
    BY <1>2, ClientAssumption DEF TypeOK, ClientAssumption
  <1> HIDE DEF q, k
  <1>6. ASSUME NEW res \in {"ok", "limit"}, NEW j \in {0, k},
               Reply(c, q, res, j), room' = room - j, UNCHANGED waitVars
        PROVE  TypeOK'
    <2>1. res \in Results /\ j \in Nat /\ room' \in 0..MaxRoom
      BY <1>2, <1>5, <1>6 DEF Results
    <2>2. CallTypeOK' /\ lost' \in Nat
      BY <1>1, <1>6, <2>1, ReplyType
    <2> QED
      BY <1>1, <1>4, <1>6, <2>1, <2>2 DEF TypeOK, CallTypeOK, waitVars, connVars, refVars
  <1>7. ASSUME room' = room - k, ArmWaiter("write", Ref(c, q.n), room' > 0),
               ReplySelect(c, q, k), UNCHANGED <<doneVars, downed>>
        PROVE  TypeOK'
    <2>1. /\ slot' \in [Dirs -> Refs \cup {NoRef}]
          /\ flag' \in [Dirs -> BOOLEAN]
          /\ owed' \subseteq Refs
      <3>1. PICK b \in BOOLEAN : b = (room' > 0)
        <4>1. (room' > 0) \in BOOLEAN
          BY SMTT(30)
        <4> QED
          BY <4>1, ZenonT(60)
      <3>2. ArmWaiter("write", Ref(c, q.n), b) /\ "write" \in Dirs
        BY <1>7, <3>1 DEF Dirs
      <3> QED
        BY <1>3, <3>2, ArmType
    <2>2. /\ pc' \in [Clients -> {"idle", "calling", "waiting", "cancelling"}]
          /\ moved' \in [Clients -> Nat]
          /\ want' \in [Clients -> Nat]
          /\ lost' \in Nat
      BY <1>1, <1>2, <1>7, ReplySelectType
    <2> QED
      BY <1>1, <1>4, <1>5, <1>7, <2>1, <2>2 DEF TypeOK, connVars, refVars, doneVars
  <1> QED
    BY <1>5, <1>6, <1>7, SendCases DEF q, k

LEMMA RetryType ==
    ASSUME TypeOK, NEW c \in Clients, Retry(c)
    PROVE  TypeOK'
  <1>1. mail' \in [Clients -> SUBSET [kind : {"select", "abort"}, n : 1..MaxRequests]]
    BY DEF Retry, TypeOK
  <1>2. CASE alive
    <2>1. Request(c, want[c]) /\ want[c] \in Nat
      BY <1>2 DEF Retry, TypeOK
    <2>2. /\ req' \in [Clients -> 0..MaxRequests]
          /\ inbox' \in [Clients -> Seq(Requests)]
          /\ pc' \in [Clients -> {"idle", "calling", "waiting", "cancelling"}]
      BY <2>1, RequestType
    <2> QED
      BY <1>1, <1>2, <2>2 DEF Retry, TypeOK, connVars, byteVars, waitVars, doneVars
  <1>3. CASE ~alive
    <2>1. CallTypeOK'
      BY <1>3, ReturnType DEF Retry, Results
    <2> QED
      BY <1>1, <1>3, <2>1 DEF Retry, TypeOK, CallTypeOK, connVars, byteVars, waitVars, refVars
  <1> QED
    BY <1>2, <1>3

LEMMA DrainType ==
    ASSUME TypeOK, NEW c \in Clients, Drain(c)
    PROVE  mail' \in [Clients -> SUBSET [kind : {"select", "abort"}, n : 1..MaxRequests]]
  BY DEF TypeOK, Drain

LEMMA CallExitsType ==
    ASSUME TypeOK, NEW c \in Clients, CallExits(c)
    PROVE  /\ CallTypeOK'
           /\ mail' \in [Clients -> SUBSET [kind : {"select", "abort"}, n : 1..MaxRequests]]
  <1>1. CallTypeOK'
    BY ReturnType DEF CallExits, Results
  <1> QED
    BY <1>1, DrainType DEF CallExits, TypeOK

LEMMA CancelType ==
    ASSUME TypeOK, NEW c \in Clients, HandleCancel(c)
    PROVE  TypeOK'
  <1> DEFINE q == Head(inbox[c])
             d == Dir(c)
  <1>1. q \in Requests /\ inbox' \in [Clients -> Seq(Requests)]
    BY HandleType DEF HandleCancel
  <1>2. CallTypeOK' /\ lost' \in Nat
    BY <1>1, ReplyType DEF HandleCancel, Results
  <1>3. mail' \in [Clients -> SUBSET [kind : {"select", "abort"}, n : 1..MaxRequests]]
    BY DrainType DEF HandleCancel, TypeOK
  <1>4. d \in Dirs
    BY DEF Dir, Dirs
  <1>5. /\ slot' \in [Dirs -> Refs \cup {NoRef}]
        /\ flag' \in [Dirs -> BOOLEAN]
        /\ owed' \subseteq Refs
    <2>1. CASE UNCHANGED waitVars
      BY <2>1 DEF TypeOK, waitVars
    <2>2. CASE ArmWaiter(d, NoRef, FALSE)
      BY <1>4, <2>2, ArmType
    <2> QED
      BY <2>1, <2>2 DEF HandleCancel
  <1>6. UNCHANGED <<connVars, rx, room, arrived, refVars>>
    BY DEF HandleCancel
  <1> QED
    BY <1>1, <1>2, <1>3, <1>5, <1>6 DEF TypeOK, CallTypeOK, connVars, refVars

\* The types of the waiters and the messages.
WaitTypeOK ==
    /\ slot \in [Dirs -> Refs \cup {NoRef}]
    /\ flag \in [Dirs -> BOOLEAN]
    /\ owed \subseteq Refs
    /\ mail \in [Clients -> SUBSET [kind : {"select", "abort"}, n : 1..MaxRequests]]

LEMMA NotifyType ==
    ASSUME TypeOK, NEW d \in Dirs, Notify(d)
    PROVE  TypeOK'
  <1>1. slot[d] \in Refs
    BY DEF Notify, TypeOK
  <1>2. Message("select", slot[d].n) \in [kind : {"select", "abort"}, n : 1..MaxRequests]
    BY <1>1 DEF Message, Refs
  <1>3. WaitTypeOK'
    BY <1>2 DEF Notify, TypeOK, WaitTypeOK
  <1> QED
    BY <1>3 DEF Notify, TypeOK, WaitTypeOK, connVars, byteVars, callVars, refVars, doneVars

LEMMA SendAbortType ==
    ASSUME TypeOK, NEW r \in Refs, SendAbort(r)
    PROVE  TypeOK'
  <1>1. Message("abort", r.n) \in [kind : {"select", "abort"}, n : 1..MaxRequests]
    BY DEF Message, Refs
  <1>2. WaitTypeOK'
    BY <1>1 DEF SendAbort, TypeOK, WaitTypeOK
  <1> QED
    BY <1>2 DEF SendAbort, TypeOK, WaitTypeOK, connVars, byteVars, callVars, refVars, doneVars

LEMMA TakeType ==
    ASSUME TypeOK, NEW ds \in SUBSET Dirs, TakeWaiters(ds)
    PROVE  slot' \in [Dirs -> Refs \cup {NoRef}] /\ owed' \subseteq Refs
  BY DEF TakeWaiters, TypeOK

LEMMA ShutdownType ==
    ASSUME TypeOK, NEW ds \in SUBSET Dirs, ShutdownCall(ds)
    PROVE  TypeOK'
  <1>1. slot' \in [Dirs -> Refs \cup {NoRef}] /\ owed' \subseteq Refs
    BY TakeType DEF ShutdownCall
  <1>2. flag' \in [Dirs -> BOOLEAN]
    BY DEF ShutdownCall, TypeOK
  <1>3. tcp' \in {"established", "finWait", "closeWait", "done", "closed"}
    BY DEF ShutdownCall, TypeOK
  <1>4. shut' \subseteq Dirs
    BY DEF ShutdownCall, TypeOK
  <1> QED
    BY <1>1, <1>2, <1>3, <1>4
    DEF ShutdownCall, TypeOK, byteVars, callVars, refVars, doneVars

LEMMA GoneType ==
    ASSUME TypeOK, OwnerGone,
           mail' \in [Clients -> SUBSET [kind : {"select", "abort"}, n : 1..MaxRequests]]
    PROVE  TypeOK'
  <1>1. inbox' \in [Clients -> Seq(Requests)]
    BY DEF OwnerGone
  <1>2. /\ slot' \in [Dirs -> Refs \cup {NoRef}]
        /\ flag' \in [Dirs -> BOOLEAN]
        /\ owed' \subseteq Refs
        /\ downed' \subseteq Clients
        /\ alive' \in BOOLEAN
    BY DEF OwnerGone
  <1> QED
    BY <1>1, <1>2 DEF OwnerGone, TypeOK, byteVars, callVars, refVars, doneVars

LEMMA StopsType ==
    ASSUME TypeOK, StackStops
    PROVE  TypeOK'
  <1> DEFINE rs == (owed \cup {slot[d] : d \in Dirs}) \ {NoRef}
  <1>1. rs \subseteq Refs
    BY DEF TypeOK
  <1>2. \A r \in rs : Message("abort", r.n) \in [kind : {"select", "abort"}, n : 1..MaxRequests]
    BY <1>1 DEF Message, Refs
  <1>3. mail' = [c \in Clients |->
                    mail[c] \cup {Message("abort", r.n) : r \in {x \in rs : x.client = c}}]
    BY DEF StackStops
  <1> HIDE DEF rs
  <1>4. mail' \in [Clients -> SUBSET [kind : {"select", "abort"}, n : 1..MaxRequests]]
    BY <1>2, <1>3 DEF TypeOK
  <1> QED
    BY <1>4, GoneType DEF StackStops

LEMMA WakeType ==
    ASSUME TypeOK, NEW ds, Wake(ds)
    PROVE  flag' \in [Dirs -> BOOLEAN]
  BY DEF Wake, TypeOK

LEMMA PeerType ==
    ASSUME TypeOK, rx <= arrived, Peer
    PROVE  TypeOK'
  <1>1. flag' \in [Dirs -> BOOLEAN]
    BY WakeType DEF Peer, Arrive, Acknowledged, PeerFin, PeerReset, UserTimeout
  <1>2. ASSUME NEW k \in 1..MaxBytes, Arrive(k) PROVE TypeOK'
    <2>1. rx' \in 0..MaxBytes /\ arrived' \in 0..MaxBytes
      BY <1>2, ClientAssumption DEF Arrive, TypeOK, ClientAssumption
    <2> QED
      BY <1>1, <1>2, <2>1 DEF Arrive, TypeOK, connVars, callVars, refVars, doneVars
  <1>3. ASSUME NEW k \in 1..MaxRoom, Acknowledged(k) PROVE TypeOK'
    <2>1. room' \in 0..MaxRoom
      BY <1>3, ClientAssumption DEF Acknowledged, TypeOK, ClientAssumption
    <2> QED
      BY <1>1, <1>3, <2>1 DEF Acknowledged, TypeOK, connVars, callVars, refVars, doneVars
  <1>4. CASE PeerFin
    BY <1>1, <1>4 DEF PeerFin, TypeOK, byteVars, callVars, refVars, doneVars
  <1>5. CASE PeerReset
    BY <1>1, <1>5 DEF PeerReset, TypeOK, byteVars, callVars, refVars, doneVars
  <1>6. CASE UserTimeout
    BY <1>1, <1>6 DEF UserTimeout, TypeOK, byteVars, callVars, refVars, doneVars
  <1> QED
    BY <1>2, <1>3, <1>4, <1>5, <1>6 DEF Peer

LEMMA ClientType ==
    ASSUME TypeOK, SentInv, NEW c \in Clients,
           RetryTooLate(c) \/ ReceiveAbort(c) \/ ReceiveDown(c) \/ CallFails(c) \/ CallTimesOut(c)
    PROVE  TypeOK'
  <1>1. CallTypeOK'
    BY ReturnType, CallExitsType
    DEF RetryTooLate, ReceiveAbort, ReceiveDown, CallFails, CallTimesOut, Results
  <1>2. mail' \in [Clients -> SUBSET [kind : {"select", "abort"}, n : 1..MaxRequests]]
    <2>1. CASE RetryTooLate(c)
      BY <2>1 DEF RetryTooLate, TypeOK
    <2>2. CASE ReceiveAbort(c)
      BY <2>2 DEF ReceiveAbort, TypeOK
    <2>3. CASE ReceiveDown(c)
      BY <2>3 DEF ReceiveDown, TypeOK
    <2> QED
      BY <2>1, <2>2, <2>3, CallExitsType DEF CallFails, CallTimesOut
  <1>3. UNCHANGED <<connVars, byteVars, waitVars, inbox, req>>
    BY DEF RetryTooLate, ReceiveAbort, ReceiveDown, CallFails, CallTimesOut, CallExits, refVars
  <1>4. late' \subseteq Refs
    <2>1. CASE CallTimesOut(c)
      <3>1. pc[c] # "idle"
        BY <2>1 DEF CallTimesOut, CallExits
      <3>2. req[c] \in 1..MaxRequests
        BY <3>1 DEF SentInv, TypeOK
      <3> QED
        BY <2>1, <3>2 DEF CallTimesOut, TypeOK, Ref, Refs
    <2> QED
      BY <2>1 DEF RetryTooLate, ReceiveAbort, ReceiveDown, CallFails, refVars, TypeOK
  <1> QED
    BY <1>1, <1>2, <1>3, <1>4 DEF TypeOK, CallTypeOK, connVars, byteVars, waitVars

LEMMA TimeoutType ==
    ASSUME TypeOK, SentInv, NEW c \in Clients, Timeout(c)
    PROVE  TypeOK'
  <1> DEFINE q == [op |-> "cancel", n |-> req[c], want |-> 0]
  <1>0. pc[c] # "idle"
    BY DEF Timeout
  <1>1. req[c] \in 1..MaxRequests
    BY <1>0 DEF SentInv, TypeOK
  <1>2. q \in Requests
    BY <1>1 DEF Requests
  <1>3. inbox' = [inbox EXCEPT ![c] = Append(@, q)]
    BY DEF Timeout
  <1> HIDE DEF q
  <1>4. inbox' \in [Clients -> Seq(Requests)]
    BY <1>2, <1>3 DEF TypeOK
  <1>5. pc' \in [Clients -> {"idle", "calling", "waiting", "cancelling"}]
    BY DEF Timeout, TypeOK
  <1> QED
    BY <1>4, <1>5 DEF Timeout, TypeOK, connVars, byteVars, waitVars, refVars, doneVars

LEMMA StartType ==
    ASSUME TypeOK, NEW c \in Clients, NEW n \in Lengths, Start(c, n)
    PROVE  TypeOK'
  <1>1. n \in Nat
    BY ClientAssumption DEF ClientAssumption
  <1>2. /\ req' \in [Clients -> 0..MaxRequests]
        /\ inbox' \in [Clients -> Seq(Requests)]
        /\ pc' \in [Clients -> {"idle", "calling", "waiting", "cancelling"}]
    BY <1>1, RequestType DEF Start
  <1>3. want' \in [Clients -> Nat] /\ result' \in [Clients -> Results]
    BY <1>1 DEF Start, TypeOK, Results
  <1> QED
    BY <1>2, <1>3 DEF Start, TypeOK, connVars, byteVars, waitVars

LEMMA RefusedType ==
    ASSUME TypeOK, NEW c \in Clients, HandleRefused(c)
    PROVE  TypeOK'
  <1>1. Head(inbox[c]) \in Requests /\ inbox' \in [Clients -> Seq(Requests)]
    BY HandleType DEF HandleRefused
  <1>2. Dir(c) \in Dirs
    BY DEF Dir, Dirs
  <1>3. Refusal(Dir(c)) \in Results
    BY <1>2, RefusalType DEF HandleRefused
  <1>4. CallTypeOK' /\ lost' \in Nat
    BY <1>1, <1>3, ReplyType DEF HandleRefused
  <1> QED
    BY <1>1, <1>4 DEF HandleRefused, TypeOK, CallTypeOK, connVars, waitVars, refVars

LEMMA CloseType ==
    ASSUME TypeOK, CloseCall
    PROVE  TypeOK'
  <1>1. slot' \in [Dirs -> Refs \cup {NoRef}] /\ owed' \subseteq Refs
    BY TakeType DEF CloseCall
  <1>2. flag' \in [Dirs -> BOOLEAN]
    BY DEF CloseCall
  <1> QED
    BY <1>1, <1>2 DEF CloseCall, TypeOK, byteVars, callVars, refVars, doneVars

LEMMA KilledType ==
    ASSUME TypeOK, StackKilled
    PROVE  TypeOK'
  BY GoneType DEF StackKilled, TypeOK

LEMMA TypeStep ==
    ASSUME TypeOK, rx <= arrived, SentInv, InboxInv, Next
    PROVE  TypeOK'
  <1>1. CASE \E c \in Clients, n \in Lengths : Start(c, n)
    BY <1>1, StartType
  <1>2. ASSUME NEW c \in Clients, Client(c) \/ Owner(c) \/ Timeout(c) \/ CallTimesOut(c)
        PROVE  TypeOK'
    BY <1>2, RetryType, ClientType, RefusedType, RecvType, SendType, CancelType, TimeoutType
    DEF Client, Owner
  <1>3. CASE Delivery
    BY <1>3, NotifyType, SendAbortType DEF Delivery
  <1>4. CASE Peer
    BY <1>4, PeerType
  <1>5. CASE Others
    BY <1>5, ShutdownType, CloseType, StopsType, KilledType DEF Others
  <1> QED
    BY <1>1, <1>2, <1>3, <1>4, <1>5 DEF Next

-----------------------------------------------------------------------------
(* Requests *)

LEMMA AppendIndex ==
    ASSUME NEW S, NEW s \in Seq(S), NEW e
    PROVE  /\ Len(Append(s, e)) = Len(s) + 1
           /\ \A i \in 1..Len(Append(s, e)) :
                  Append(s, e)[i] = IF i <= Len(s) THEN s[i] ELSE e
           /\ Len(s) \in Nat
  OBVIOUS

LEMMA TailIndex ==
    ASSUME NEW S, NEW s \in Seq(S), s # <<>>
    PROVE  /\ Len(Tail(s)) = Len(s) - 1
           /\ \A i \in 1..Len(Tail(s)) : Tail(s)[i] = s[i + 1] /\ i + 1 \in 1..Len(s)
           /\ Len(s) \in Nat \ {0}
  OBVIOUS

\* A request of a client that waits for no reply was given up, and is not its last.
LEMMA GivenUp ==
    ASSUME TypeOK, InboxInv, NEW c \in Clients, pc[c] \in {"idle", "waiting"},
           NEW i \in 1..Len(inbox[c])
    PROVE  /\ Ref(c, inbox[c][i].n) \in late
           /\ inbox[c][i].n <= req[c]
           /\ pc[c] = "waiting" => inbox[c][i].n < req[c]
  <1>1. ~Awaited(c, inbox[c][i])
    BY DEF Awaited
  <1> QED
    BY <1>1 DEF InboxInv, Accounted

\* A new request goes to the end of the inbox.
LEMMA AppendInbox ==
    ASSUME TypeOK, InboxInv, NEW c \in Clients, pc[c] \in {"idle", "waiting"},
           NEW q \in Requests, inbox' = [inbox EXCEPT ![c] = Append(@, q)],
           req[c] <= req'[c], q.n = req'[c], req'[c] \in Nat,
           \A i \in 1..Len(inbox[c]) : inbox[c][i].n < q.n,
           Awaited(c, q)', q.op = "move" => q.want = want'[c],
           \A o \in Clients \ {c} : req'[o] = req[o] /\ pc'[o] = pc[o] /\ want'[o] = want[o],
           late' = late
    PROVE  InboxInv'
  <1>1. inbox[c] \in Seq(Requests)
    BY DEF TypeOK
  <1>2. inbox'[c] = Append(inbox[c], q)
    BY DEF TypeOK
  <1>3. \A i \in 1..Len(inbox[c]) : inbox[c][i] \in Requests /\ inbox[c][i].n \in Nat
    <2>1. \A i \in 1..Len(inbox[c]) : inbox[c][i] \in Requests
      BY <1>1
    <2> QED
      BY <2>1 DEF Requests
  <1>4. ASSUME NEW o \in Clients, o # c
        PROVE  (Ordered(o) /\ \A i \in 1..Len(inbox[o]) : Accounted(o, i))'
    <2>1. inbox'[o] = inbox[o] /\ req'[o] = req[o] /\ pc'[o] = pc[o] /\ want'[o] = want[o]
      BY <1>4 DEF TypeOK
    <2> QED
      BY <2>1 DEF InboxInv, Ordered, Accounted, Awaited
  <1>5. ASSUME NEW i \in 1..Len(inbox'[c])
        PROVE  Accounted(c, i)'
    <2>1. CASE i <= Len(inbox[c])
      <3>1. inbox'[c][i] = inbox[c][i] /\ i \in 1..Len(inbox[c])
        BY <1>1, <1>2, <2>1, AppendIndex
      <3>2. Ref(c, inbox[c][i].n) \in late
        BY <3>1, GivenUp
      <3> QED
        BY <1>3, <3>1, <3>2 DEF Accounted
    <2>2. CASE ~(i <= Len(inbox[c]))
      <3>1. inbox'[c][i] = q
        BY <1>1, <1>2, <2>2, AppendIndex
      <3> QED
        BY <3>1 DEF Accounted, Awaited
    <2> QED
      BY <2>1, <2>2
  <1>6. ASSUME NEW i \in 1..Len(inbox'[c]), NEW j \in 1..Len(inbox'[c]), i < j
        PROVE  inbox'[c][i].n < inbox'[c][j].n
    <2>1. i \in 1..Len(inbox[c]) /\ inbox'[c][i] = inbox[c][i]
      BY <1>1, <1>2, <1>6, AppendIndex
    <2>2. CASE j <= Len(inbox[c])
      <3>1. j \in 1..Len(inbox[c]) /\ inbox'[c][j] = inbox[c][j]
        BY <1>1, <1>2, <2>2, AppendIndex
      <3> QED
        BY <1>6, <2>1, <3>1 DEF InboxInv, Ordered
    <2>3. CASE ~(j <= Len(inbox[c]))
      <3>1. inbox'[c][j] = q
        BY <1>1, <1>2, <2>3, AppendIndex
      <3> QED
        BY <2>1, <3>1
    <2> QED
      BY <2>2, <2>3
  <1> QED
    BY <1>4, <1>5, <1>6 DEF InboxInv, Ordered

\* The owner takes a request: what becomes of its caller, when it waits for it, is
\* nothing to the rest of its requests, for there are none.
LEMMA TakeInbox ==
    ASSUME TypeOK, InboxInv, NEW c \in Clients, NEW op, Handle(c, op), req' = req, late' = late,
           ~Awaited(c, Head(inbox[c])) => pc' = pc /\ want' = want,
           \A o \in Clients \ {c} : pc'[o] = pc[o] /\ want'[o] = want[o]
    PROVE  InboxInv'
  <1>1. inbox[c] \in Seq(Requests) /\ inbox[c] # <<>> /\ inbox'[c] = Tail(inbox[c])
    BY DEF Handle, TypeOK
  <1>2. \A i \in 1..Len(inbox'[c]) : inbox'[c][i] = inbox[c][i + 1] /\ i + 1 \in 1..Len(inbox[c])
    BY <1>1, TailIndex
  <1>3. \A o \in Clients \ {c} : inbox'[o] = inbox[o]
    BY DEF Handle, TypeOK
  <1>4. ASSUME NEW o \in Clients, o # c
        PROVE  (Ordered(o) /\ \A i \in 1..Len(inbox[o]) : Accounted(o, i))'
    <2>1. inbox'[o] = inbox[o] /\ req'[o] = req[o] /\ pc'[o] = pc[o] /\ want'[o] = want[o]
      BY <1>3, <1>4
    <2> QED
      BY <2>1 DEF InboxInv, Ordered, Accounted, Awaited
  <1>5. Ordered(c)'
    <2>1. \A i, j \in 1..Len(inbox'[c]) : i < j => i + 1 < j + 1
      OBVIOUS
    <2>2. \A i, j \in 1..Len(inbox'[c]) : i < j => inbox[c][i + 1].n < inbox[c][j + 1].n
      BY <1>2, <2>1 DEF InboxInv, Ordered
    <2> QED
      BY <1>2, <2>2 DEF Ordered
  <1>6. ASSUME NEW i \in 1..Len(inbox'[c]) PROVE Accounted(c, i)'
    <2>1. Accounted(c, i + 1) /\ i + 1 \in 1..Len(inbox[c])
      BY <1>2 DEF InboxInv
    <2>2. CASE ~Awaited(c, Head(inbox[c]))
      <3>1. pc' = pc /\ want' = want
        BY <2>2
      <3> QED
        BY <1>2, <2>1, <3>1 DEF Accounted, Awaited
    <2>3. CASE Awaited(c, Head(inbox[c]))
      <3>1. Head(inbox[c]) = inbox[c][1] /\ 1 \in 1..Len(inbox[c]) /\ 1 < i + 1
        BY <1>1
      <3>2. inbox[c][1].n < inbox[c][i + 1].n
        BY <2>1, <3>1 DEF InboxInv, Ordered
      <3>3. inbox[c][1].n = req[c] /\ inbox[c][i + 1].n <= req[c]
        BY <2>1, <2>3, <3>1 DEF Accounted, Awaited
      <3>4. inbox[c][1] \in Requests /\ inbox[c][i + 1] \in Requests
        BY <1>1, <2>1, <3>1
      <3>5. inbox[c][1].n \in Nat /\ inbox[c][i + 1].n \in Nat
        BY <3>4 DEF Requests
      <3> QED
        BY <3>2, <3>3, <3>5
    <2> QED
      BY <2>2, <2>3
  <1> QED
    BY <1>4, <1>5, <1>6 DEF InboxInv

\* A call ends, or is given up, with its requests where they are.
LEMMA ReturnInbox ==
    ASSUME TypeOK, InboxInv, NEW c \in Clients, UNCHANGED <<inbox, req>>,
           pc'[c] = "idle", \A o \in Clients \ {c} : pc'[o] = pc[o] /\ want'[o] = want[o],
           late \subseteq late',
           pc[c] \in {"idle", "waiting"} \/ inbox[c] = <<>> \/ Ref(c, req[c]) \in late'
    PROVE  InboxInv'
  <1>1. ASSUME NEW o \in Clients, o # c
        PROVE  (Ordered(o) /\ \A i \in 1..Len(inbox[o]) : Accounted(o, i))'
    <2>1. inbox'[o] = inbox[o] /\ req'[o] = req[o] /\ pc'[o] = pc[o] /\ want'[o] = want[o]
      BY <1>1
    <2> QED
      BY <2>1 DEF InboxInv, Ordered, Accounted, Awaited
  <1>2. Ordered(c)'
    BY DEF InboxInv, Ordered
  <1>3. ASSUME NEW i \in 1..Len(inbox[c]) PROVE Accounted(c, i)'
    <2>1. inbox[c][i].n <= req[c] /\ Ref(c, inbox[c][i].n) \in late'
      <3>1. CASE Awaited(c, inbox[c][i])
        BY <3>1 DEF InboxInv, Accounted, Awaited
      <3>2. CASE ~Awaited(c, inbox[c][i])
        BY <3>2 DEF InboxInv, Accounted
      <3> QED
        BY <3>1, <3>2
    <2> QED
      BY <2>1 DEF Accounted
  <1> QED
    BY <1>1, <1>2, <1>3 DEF InboxInv

LEMMA SameInbox ==
    ASSUME InboxInv, UNCHANGED <<inbox, req, late, pc, want>>
    PROVE  InboxInv'
  BY DEF InboxInv, Ordered, Accounted, Awaited

\* What a reply leaves alone.
LEMMA ReplyFrame ==
    ASSUME TypeOK, NEW c \in Clients, NEW q, NEW res, NEW k,
           Reply(c, q, res, k) \/ ReplySelect(c, q, k)
    PROVE  /\ ~Awaited(c, q) => pc' = pc /\ want' = want
           /\ \A o \in Clients \ {c} : pc'[o] = pc[o] /\ want'[o] = want[o]
  BY DEF TypeOK, Reply, ReplySelect, Return

LEMMA ReturnFrame ==
    ASSUME TypeOK, NEW c \in Clients, NEW res, NEW k, Return(c, res, k)
    PROVE  /\ pc'[c] = "idle"
           /\ \A o \in Clients \ {c} : pc'[o] = pc[o] /\ want'[o] = want[o]
           /\ downed' = downed \ {c}
  BY DEF TypeOK, Return

\* What every request of the owner does.
LEMMA OwnerFrame ==
    ASSUME TypeOK, NEW c \in Clients, Owner(c)
    PROVE  LET q == Head(inbox[c])
           IN  /\ \E op : Handle(c, op)
               /\ UNCHANGED <<connVars, arrived, refVars>>
               /\ ~Awaited(c, q) => pc' = pc /\ want' = want
               /\ \A o \in Clients \ {c} : pc'[o] = pc[o] /\ want'[o] = want[o]
  <1> DEFINE q == Head(inbox[c])
  <1>1. \E res, k : Reply(c, q, res, k) \/ ReplySelect(c, q, k)
    BY RecvCases, SendCases DEF Owner, HandleRefused, HandleCancel
  <1>2. /\ ~Awaited(c, q) => pc' = pc /\ want' = want
        /\ \A o \in Clients \ {c} : pc'[o] = pc[o] /\ want'[o] = want[o]
    BY <1>1, ReplyFrame
  <1>3. \E op : Handle(c, op)
    BY DEF Owner, HandleRefused, HandleRecv, HandleSend, HandleCancel
  <1>4. UNCHANGED <<connVars, arrived, refVars>>
    BY DEF Owner, HandleRefused, HandleRecv, HandleSend, HandleCancel
  <1> QED
    BY <1>2, <1>3, <1>4

LEMMA RequestInbox ==
    ASSUME TypeOK, InboxInv, NEW c \in Clients, pc[c] \in {"idle", "waiting"}, NEW n \in Nat,
           Request(c, n), late' = late, want'[c] = n,
           \A o \in Clients \ {c} : want'[o] = want[o]
    PROVE  InboxInv'
  <1>0. PICK q : q = [op |-> "move", n |-> req[c] + 1, want |-> n]
    OBVIOUS
  <1>1. req[c] \in Nat /\ req[c] + 1 \in 1..MaxRequests
    BY ClientAssumption DEF Request, TypeOK, ClientAssumption
  <1>2. q \in Requests
    BY <1>0, <1>1 DEF Requests
  <1>3. /\ inbox' = [inbox EXCEPT ![c] = Append(@, q)]
        /\ req'[c] = req[c] + 1 /\ pc'[c] = "calling"
        /\ \A o \in Clients \ {c} : req'[o] = req[o] /\ pc'[o] = pc[o]
    BY <1>0 DEF Request, TypeOK
  <1>4. Awaited(c, q)'
    BY <1>0, <1>3 DEF Awaited
  <1>5. q.n = req[c] + 1 /\ q.op = "move" /\ q.want = n
    BY <1>0
  <1>6. ASSUME NEW i \in 1..Len(inbox[c]) PROVE inbox[c][i].n < q.n
    <2>1. inbox[c][i].n <= req[c]
      BY GivenUp
    <2>2. inbox[c][i] \in Requests
      BY DEF TypeOK
    <2>3. inbox[c][i].n \in Nat
      BY <2>2 DEF Requests
    <2> QED
      BY <1>1, <1>5, <2>1, <2>3
  <1>7. req[c] <= req'[c] /\ q.n = req'[c] /\ req'[c] \in Nat
    BY <1>1, <1>3, <1>5
  <1> QED
    BY <1>2, <1>3, <1>4, <1>5, <1>6, <1>7, AppendInbox

LEMMA TimeoutInbox ==
    ASSUME TypeOK, InboxInv, SentInv, NEW c \in Clients, Timeout(c)
    PROVE  InboxInv'
  <1>0. PICK q : q = [op |-> "cancel", n |-> req[c], want |-> 0]
    OBVIOUS
  <1>1. pc[c] = "waiting"
    BY DEF Timeout
  <1>2. req[c] \in 1..MaxRequests /\ req[c] \in Nat
    <2>1. pc[c] # "idle"
      BY <1>1
    <2> QED
      BY <2>1 DEF SentInv, TypeOK
  <1>3. q \in Requests
    BY <1>0, <1>2 DEF Requests
  <1>4. /\ inbox' = [inbox EXCEPT ![c] = Append(@, q)]
        /\ UNCHANGED <<req, late, want>> /\ pc'[c] = "cancelling"
        /\ \A o \in Clients \ {c} : pc'[o] = pc[o]
    BY <1>0 DEF Timeout, TypeOK, refVars
  <1>5. Awaited(c, q)'
    BY <1>0, <1>4 DEF Awaited
  <1>6. q.n = req[c] /\ q.op # "move"
    BY <1>0
  <1>7. \A i \in 1..Len(inbox[c]) : inbox[c][i].n < q.n
    BY <1>1, <1>6, GivenUp
  <1>8. /\ req[c] <= req'[c] /\ q.n = req'[c] /\ req'[c] \in Nat
        /\ q.op = "move" => q.want = want'[c]
        /\ \A o \in Clients \ {c} : req'[o] = req[o] /\ pc'[o] = pc[o] /\ want'[o] = want[o]
    BY <1>2, <1>4, <1>6
  <1> QED
    BY <1>1, <1>3, <1>4, <1>5, <1>7, <1>8, AppendInbox

LEMMA InboxStep ==
    ASSUME TypeOK, InboxInv, SentInv, GoneInv, Next
    PROVE  InboxInv'
  <1>1. ASSUME NEW c \in Clients, NEW n \in Lengths, Start(c, n) PROVE InboxInv'
    <2>1. want'[c] = n /\ \A o \in Clients \ {c} : want'[o] = want[o]
      BY <1>1 DEF Start, TypeOK
    <2>2. n \in Nat
      BY ClientAssumption DEF ClientAssumption
    <2> QED
      BY <1>1, <2>1, <2>2, RequestInbox DEF Start
  <1>2. ASSUME NEW c \in Clients, Client(c) \/ Timeout(c) \/ CallTimesOut(c)
        PROVE  InboxInv'
    <2>1. CASE Retry(c)
      <3>1. CASE alive
        <4>1. want[c] \in Nat
          BY DEF TypeOK
        <4>2. pc[c] = "waiting" /\ Request(c, want[c]) /\ UNCHANGED <<late, want>>
          BY <2>1, <3>1 DEF Retry
        <4> QED
          BY <4>1, <4>2, RequestInbox
      <3>2. CASE ~alive
        BY <2>1, <3>2, ReturnFrame, ReturnInbox DEF Retry, refVars
      <3> QED
        BY <3>1, <3>2
    <2>2. CASE RetryTooLate(c) \/ ReceiveAbort(c) \/ ReceiveDown(c)
      <3>1. pc[c] = "waiting" /\ UNCHANGED <<inbox, req, late>> /\ \E res : Return(c, res, 0)
        BY <2>2 DEF RetryTooLate, ReceiveAbort, ReceiveDown, refVars
      <3> QED
        BY <3>1, ReturnFrame, ReturnInbox
    <2>3. CASE CallFails(c)
      <3>1. inbox[c] = <<>> /\ UNCHANGED <<inbox, req, late>> /\ \E res : Return(c, res, 0)
        BY <2>3 DEF CallFails, CallExits, GoneInv
      <3> QED
        BY <3>1, ReturnFrame, ReturnInbox
    <2>4. CASE CallTimesOut(c)
      <3>1. /\ late' = late \cup {Ref(c, req[c])}
            /\ UNCHANGED <<inbox, req>> /\ \E res : Return(c, res, 0)
        BY <2>4 DEF CallTimesOut, CallExits
      <3> QED
        BY <3>1, ReturnFrame, ReturnInbox
    <2>5. CASE Timeout(c)
      BY <2>5, TimeoutInbox
    <2> QED
      BY <1>2, <2>1, <2>2, <2>3, <2>4, <2>5 DEF Client
  <1>3. ASSUME NEW c \in Clients, Owner(c) PROVE InboxInv'
    BY <1>3, OwnerFrame, TakeInbox DEF refVars
  <1>4. CASE Delivery
    BY <1>4, SameInbox DEF Delivery, Notify, SendAbort, callVars, refVars
  <1>5. CASE Peer
    BY <1>5, SameInbox
    DEF Peer, Arrive, Acknowledged, PeerFin, PeerReset, UserTimeout, callVars, refVars
  <1>6. CASE Others
    <2>1. CASE StackStops \/ StackKilled
      <3>1. \A c \in Clients : inbox'[c] = <<>>
        BY <2>1 DEF StackStops, StackKilled, OwnerGone
      <3> QED
        BY <3>1 DEF InboxInv, Ordered
    <2>2. CASE CloseCall \/ \E ds \in SUBSET Dirs : ShutdownCall(ds)
      BY <2>2, SameInbox DEF CloseCall, ShutdownCall, callVars, refVars
    <2> QED
      BY <1>6, <2>1, <2>2 DEF Others
  <1> QED
    BY <1>1, <1>2, <1>3, <1>4, <1>5, <1>6 DEF Next

LEMMA SentStep ==
    ASSUME TypeOK, SentInv, Next
    PROVE  SentInv'
  <1>1. ASSUME NEW c \in Clients, NEW n \in Lengths, Start(c, n) PROVE SentInv'
    BY <1>1 DEF Start, Request, SentInv, TypeOK
  <1>2. ASSUME NEW c \in Clients, Client(c) \/ Timeout(c) \/ CallTimesOut(c)
        PROVE  SentInv'
    <2>1. CASE Retry(c)
      BY <2>1 DEF Retry, Request, Return, SentInv, TypeOK, refVars
    <2>2. CASE RetryTooLate(c) \/ ReceiveAbort(c) \/ ReceiveDown(c)
      BY <2>2 DEF RetryTooLate, ReceiveAbort, ReceiveDown, Return, SentInv, TypeOK, refVars
    <2>3. CASE CallFails(c) \/ CallTimesOut(c)
      BY <2>3 DEF CallFails, CallTimesOut, CallExits, Return, SentInv, TypeOK
    <2>4. CASE Timeout(c)
      BY <2>4 DEF Timeout, SentInv, TypeOK, refVars
    <2> QED
      BY <1>2, <2>1, <2>2, <2>3, <2>4 DEF Client
  <1>3. ASSUME NEW c \in Clients, Owner(c) PROVE SentInv'
    <2>1. /\ req' = req
          /\ ~Awaited(c, Head(inbox[c])) => pc' = pc
          /\ \A o \in Clients \ {c} : pc'[o] = pc[o]
      BY <1>3, OwnerFrame DEF refVars
    <2>2. Awaited(c, Head(inbox[c])) => pc[c] # "idle"
      BY DEF Awaited
    <2> QED
      BY <2>1, <2>2 DEF SentInv
  <1>4. CASE Delivery
    BY <1>4 DEF Delivery, Notify, SendAbort, callVars, refVars, SentInv
  <1>5. CASE Peer
    BY <1>5
    DEF Peer, Arrive, Acknowledged, PeerFin, PeerReset, UserTimeout, callVars, refVars, SentInv
  <1>6. CASE Others
    BY <1>6
    DEF Others, StackStops, StackKilled, OwnerGone, CloseCall, ShutdownCall, callVars, refVars,
        SentInv
  <1> QED
    BY <1>1, <1>2, <1>3, <1>4, <1>5, <1>6 DEF Next

-----------------------------------------------------------------------------
(* Places *)

\* The owner answers the request q of c to move bytes: its caller, if it waits for the
\* answer, returns.
Answers(c, q) ==
    /\ q.op = "move"
    /\ UNCHANGED <<waitVars, mail>>
    /\ IF Awaited(c, q) THEN pc' = [pc EXCEPT ![c] = "idle"] ELSE pc' = pc

\* It arms a waiter: the caller, if it waits for the answer, waits for a message.
Arms(c, q) ==
    /\ q.op = "move"
    /\ open
    /\ slot[Dir(c)] = NoRef
    /\ slot' = [slot EXCEPT ![Dir(c)] = Ref(c, q.n)]
    /\ UNCHANGED <<owed, mail>>
    /\ IF Awaited(c, q) THEN pc' = [pc EXCEPT ![c] = "waiting"] ELSE pc' = pc

\* It cancels: the waiter is gone, and the caller that waits drains its mailbox.
Cancels(c, q) ==
    /\ q.op = "cancel"
    /\ slot' = IF open /\ slot[Dir(c)] = Ref(c, q.n) THEN [slot EXCEPT ![Dir(c)] = NoRef] ELSE slot
    /\ UNCHANGED owed
    /\ IF Awaited(c, q) THEN Drain(c) /\ pc' = [pc EXCEPT ![c] = "idle"]
       ELSE UNCHANGED <<mail, pc>>

LEMMA RefusalNone ==
    ASSUME NEW d \in Dirs, Refusal(d) = "none", TypeOK
    PROVE  open /\ slot[d] = NoRef
  BY DEF Refusal, TypeOK

LEMMA OwnerCases ==
    ASSUME TypeOK, NEW c \in Clients, Owner(c)
    PROVE  LET q == Head(inbox[c])
           IN  /\ Answers(c, q) \/ Arms(c, q) \/ Cancels(c, q)
               /\ alive /\ Handle(c, q.op)
               /\ UNCHANGED <<open, alive, req, late>>
               /\ downed' \subseteq downed
               /\ c \notin downed' \/ ~Awaited(c, q) \/ downed' = downed
  <1> DEFINE q == Head(inbox[c])
  <1>1. /\ alive /\ Handle(c, q.op) /\ UNCHANGED <<open, alive, req, late>>
    BY DEF Owner, HandleRefused, HandleRecv, HandleSend, HandleCancel, Handle, connVars, refVars
  <1>2. ASSUME NEW res, NEW k, Reply(c, q, res, k)
        PROVE  /\ IF Awaited(c, q) THEN pc' = [pc EXCEPT ![c] = "idle"] ELSE pc' = pc
               /\ downed' \subseteq downed
               /\ c \notin downed' \/ ~Awaited(c, q) \/ downed' = downed
    BY <1>2 DEF Reply, Return
  <1>3. ASSUME NEW k, ReplySelect(c, q, k)
        PROVE  IF Awaited(c, q) THEN pc' = [pc EXCEPT ![c] = "waiting"] ELSE pc' = pc
    BY <1>3 DEF ReplySelect
  <1>4. CASE HandleRefused(c)
    <2>1. q.op = "move" /\ UNCHANGED <<waitVars, mail>> /\ Reply(c, q, Refusal(Dir(c)), 0)
      BY <1>4 DEF HandleRefused, Handle
    <2> QED
      BY <1>1, <1>2, <2>1 DEF Answers
  <1>5. CASE HandleRecv(c)
    <2>1. /\ q.op = "move" /\ UNCHANGED mail /\ Dir(c) = "read" /\ Dir(c) \in Dirs
          /\ Refusal(Dir(c)) = "none"
      BY <1>5 DEF HandleRecv, Handle, Dir, Dirs
    <2>2. open /\ slot[Dir(c)] = NoRef
      BY <2>1, RefusalNone
    <2>3. CASE \E res, k : Reply(c, q, res, k) /\ UNCHANGED waitVars
      BY <1>1, <1>2, <2>1, <2>3 DEF Answers
    <2>4. CASE \E k, r : /\ ArmWaiter("read", Ref(c, q.n), r) /\ ReplySelect(c, q, k)
                         /\ UNCHANGED downed
      BY <1>1, <1>3, <2>1, <2>2, <2>4 DEF Arms, ArmWaiter
    <2> QED
      BY <1>5, <2>3, <2>4, RecvCases
  <1>6. CASE HandleSend(c)
    <2>1. /\ q.op = "move" /\ UNCHANGED mail /\ Dir(c) = "write" /\ Dir(c) \in Dirs
          /\ Refusal(Dir(c)) = "none"
      BY <1>6, ClientAssumption DEF HandleSend, Handle, Dir, Dirs, ClientAssumption
    <2>2. open /\ slot[Dir(c)] = NoRef
      BY <2>1, RefusalNone
    <2>3. CASE \E res, k : Reply(c, q, res, k) /\ UNCHANGED waitVars
      BY <1>1, <1>2, <2>1, <2>3 DEF Answers
    <2>4. CASE \E k, r : /\ ArmWaiter("write", Ref(c, q.n), r) /\ ReplySelect(c, q, k)
                         /\ UNCHANGED downed
      BY <1>1, <1>3, <2>1, <2>2, <2>4 DEF Arms, ArmWaiter
    <2> QED
      BY <1>6, <2>3, <2>4, SendCases
  <1>7. CASE HandleCancel(c)
    <2>1. q.op = "cancel" /\ Reply(c, q, "timeout", 0)
      BY <1>7 DEF HandleCancel, Handle
    <2>2. Cancels(c, q)
      BY <1>2, <1>7, <2>1 DEF HandleCancel, Cancels, ArmWaiter, waitVars
    <2> QED
      BY <1>1, <1>2, <2>1, <2>2
  <1> QED
    BY <1>4, <1>5, <1>6, <1>7 DEF Owner

LEMMA MailType ==
    ASSUME TypeOK, NEW c \in Clients, NEW m \in mail[c]
    PROVE  /\ m \in [kind : {"select", "abort"}, n : 1..MaxRequests]
           /\ m.n \in 1..MaxRequests /\ m.n \in Nat
  <1>1. m \in [kind : {"select", "abort"}, n : 1..MaxRequests]
    BY DEF TypeOK
  <1> QED
    BY <1>1

LEMMA InboxType ==
    ASSUME NEW box \in [Clients -> Seq(Requests)], NEW c \in Clients, NEW i \in 1..Len(box[c])
    PROVE  /\ box[c][i] \in Requests
           /\ box[c][i].n \in 1..MaxRequests /\ box[c][i].n \in Nat
  <1>1. box[c][i] \in Requests
    OBVIOUS
  <1> QED
    BY <1>1 DEF Requests

LEMMA GoneStep ==
    ASSUME TypeOK, GoneInv, Next
    PROVE  GoneInv'
  <1>1. ASSUME NEW c \in Clients, NEW n \in Lengths, Start(c, n) PROVE GoneInv'
    BY <1>1 DEF Start, GoneInv, connVars, waitVars
  <1>2. ASSUME NEW c \in Clients, Client(c) \/ CallTimesOut(c) \/ Timeout(c)
        PROVE  GoneInv'
    <2>1. UNCHANGED <<open, alive, slot, owed>> /\ downed' \subseteq downed
      BY <1>2
      DEF Client, Retry, RetryTooLate, ReceiveAbort, ReceiveDown, CallFails, CallTimesOut,
          CallExits, Timeout, Return, connVars, waitVars
    <2>2. ~alive => inbox' = inbox
      BY <1>2
      DEF Client, Retry, RetryTooLate, ReceiveAbort, ReceiveDown, CallFails, CallTimesOut,
          CallExits, Timeout
    <2> QED
      BY <2>1, <2>2 DEF GoneInv
  <1>3. ASSUME NEW c \in Clients, Owner(c) PROVE GoneInv'
    <2> DEFINE q == Head(inbox[c])
    <2>1. alive /\ UNCHANGED <<open, alive>> /\ downed' \subseteq downed
      BY <1>3, OwnerCases
    <2>2. ~open => slot' = slot
      BY <1>3, OwnerCases DEF Answers, Arms, Cancels, waitVars
    <2> QED
      BY <2>1, <2>2 DEF GoneInv
  <1>4. CASE Delivery
    BY <1>4 DEF Delivery, Notify, SendAbort, GoneInv, connVars, TypeOK
  <1>5. CASE Peer
    BY <1>5
    DEF Peer, Arrive, Acknowledged, PeerFin, PeerReset, UserTimeout, GoneInv, connVars
  <1>6. CASE Others
    <2>1. CASE StackStops \/ StackKilled
      BY <2>1 DEF StackStops, StackKilled, OwnerGone, GoneInv
    <2>2. CASE CloseCall
      BY <2>2 DEF CloseCall, TakeWaiters, GoneInv
    <2>3. ASSUME NEW ds \in SUBSET Dirs, ShutdownCall(ds) PROVE GoneInv'
      BY <2>3 DEF ShutdownCall, TakeWaiters, GoneInv
    <2> QED
      BY <1>6, <2>1, <2>2, <2>3 DEF Others
  <1> QED
    BY <1>1, <1>2, <1>3, <1>4, <1>5, <1>6 DEF Next

-----------------------------------------------------------------------------
(* The theorems *)

\* The buffer never holds more than arrived.
LEMMA RxStep ==
    ASSUME TypeOK, rx <= arrived, Next
    PROVE  rx' <= arrived'
  <1>1. arrived \in Nat /\ rx \in Nat
    BY DEF TypeOK
  <1>2. ASSUME NEW c \in Clients, HandleRecv(c) PROVE rx' <= arrived'
    <2>1. Head(inbox[c]) \in Requests
      BY <1>2, HandleType DEF HandleRecv
    <2>2. PICK k \in Nat : rx' \in {rx, rx - k} /\ arrived' = arrived
      <3>1. RecvBytes(Head(inbox[c])) \in Nat
        BY <2>1, RecvBytesBound
      <3>2. arrived' = arrived
        BY <1>2 DEF HandleRecv
      <3> QED
        BY <1>2, <3>1, <3>2, RecvCases
    <2> QED
      BY <1>1, <2>2
  <1>3. ASSUME NEW c \in Clients,
               \/ \E n \in Lengths : Start(c, n)
               \/ Client(c) \/ Timeout(c) \/ CallTimesOut(c)
        PROVE  UNCHANGED <<rx, arrived>>
    BY <1>3
    DEF Start, Client, Retry, RetryTooLate, ReceiveAbort, ReceiveDown, CallFails, CallExits,
        Timeout, CallTimesOut, byteVars
  <1>4. ASSUME NEW c \in Clients, HandleRefused(c) \/ HandleSend(c) \/ HandleCancel(c)
        PROVE  UNCHANGED <<rx, arrived>>
    BY <1>4 DEF HandleRefused, HandleSend, HandleCancel
  <1>5. CASE Delivery \/ Others
    BY <1>5
    DEF Delivery, Notify, SendAbort, Others, ShutdownCall, CloseCall, StackStops, StackKilled,
        OwnerGone, byteVars
  <1>6. CASE Peer
    <2>1. ASSUME NEW k \in 1..MaxBytes, Arrive(k) PROVE rx' <= arrived'
      BY <1>1, <2>1 DEF Arrive
    <2>2. CASE (\E k \in 1..MaxRoom : Acknowledged(k)) \/ PeerFin \/ PeerReset \/ UserTimeout
      BY <2>2 DEF Acknowledged, PeerFin, PeerReset, UserTimeout, byteVars
    <2> QED
      BY <1>6, <2>1, <2>2 DEF Peer
  <1>7. ASSUME NEW c \in Clients, Owner(c) PROVE rx' <= arrived'
    BY <1>2, <1>4, <1>7 DEF Owner
  <1> QED
    BY <1>3, <1>5, <1>6, <1>7 DEF Next

LEMMA CallInit == Init => CallInv
  <1> SUFFICES ASSUME Init PROVE CallInv
    OBVIOUS
  <1>1. TypeOK
    <2>1. inbox \in [Clients -> Seq(Requests)]
      BY DEF Init
    <2>2. /\ rx \in 0..MaxBytes /\ room \in 0..MaxRoom /\ arrived \in 0..MaxBytes
          /\ 0 \in 0..MaxRequests
      BY ClientAssumption DEF Init, ClientAssumption
    <2> QED
      BY <2>1, <2>2 DEF Init, TypeOK, Results, Dirs
  <1>2. rx <= arrived /\ SentInv /\ InboxInv /\ GoneInv
    BY DEF Init, SentInv, InboxInv, Ordered, GoneInv
  <1> QED
    BY <1>1, <1>2 DEF CallInv

LEMMA CallStep == CallInv /\ [Next]_vars => CallInv'
  <1> SUFFICES ASSUME CallInv, [Next]_vars PROVE CallInv'
    OBVIOUS
  <1>1. CASE Next
    <2>1. TypeOK /\ rx <= arrived /\ SentInv /\ InboxInv /\ GoneInv
      BY DEF CallInv
    <2> QED
      BY <1>1, <2>1, TypeStep, RxStep, SentStep, InboxStep, GoneStep DEF CallInv
  <1>2. CASE UNCHANGED vars
    <2> USE <1>2
        DEF vars, connVars, byteVars, waitVars, refVars, callVars, doneVars, CallInv
    <2>1. TypeOK' /\ rx' <= arrived'
      BY DEF TypeOK
    <2>2. SentInv' /\ GoneInv'
      BY DEF SentInv, GoneInv
    <2>3. InboxInv'
      BY SameInbox
    <2> QED
      BY <2>1, <2>2, <2>3
  <1> QED
    BY <1>1, <1>2

\* Every request in an inbox is the one its caller waits for or was given up, and nothing
\* is left of an owner that is gone, for any clients, any lengths and any bounds.
THEOREM CallInvariant == Spec => []CallInv
  BY CallInit, CallStep, PTL DEF Spec

\* Every variable of the client keeps its type.
THEOREM TypeCorrect == Spec => []TypeOK
  <1>1. CallInv => TypeOK
    BY DEF CallInv
  <1> QED
    BY <1>1, CallInvariant, PTL

-----------------------------------------------------------------------------
(* The bytes: induction and sums *)

\* The least-number principle.
LEMMA LeastNatural ==
    ASSUME NEW T, T \subseteq Nat, T # {}
    PROVE  \E m \in T : \A n \in T : m <= n
  <1> DEFINE R == OpToRel(<, Nat)
  <1>1. IsWellFoundedOn(R, Nat)
    BY NatLessThanWellFounded
  <1> HIDE DEF R
  <1>2. PICK x \in T : \A y \in T : ~(<<y, x>> \in R)
    BY <1>1, WFMin
  <1>3. \A y \in T : ~(y < x)
    BY <1>2 DEF R, OpToRel
  <1> QED
    BY <1>3

\* Induction: a set with 0 that is closed under successor has every natural number.
LEMMA Induction ==
    ASSUME NEW P, 0 \in P, \A n \in Nat : n \in P => n + 1 \in P
    PROVE  Nat \subseteq P
  <1> SUFFICES ASSUME Nat \ P # {} PROVE FALSE
    OBVIOUS
  <1>1. PICK m \in Nat \ P : \A n \in Nat \ P : m <= n
    BY LeastNatural
  <1>2. m # 0
    OBVIOUS
  <1>3. m - 1 \in Nat /\ m - 1 \in P
    BY <1>1, <1>2
  <1>4. m - 1 + 1 \in P
    BY <1>3
  <1> QED
    BY <1>4

\* Induction over the subsets of a finite set.
LEMMA SubsetInduction ==
    ASSUME NEW S, IsFiniteSet(S), NEW P, {} \in P,
           \A s \in SUBSET S : s # {} /\ (\A x \in s : s \ {x} \in P) => s \in P
    PROVE  \A s \in SUBSET S : s \in P
  <1> DEFINE Q == {n \in Nat : \A s \in SUBSET S : Cardinality(s) = n => s \in P}
  <1>1. 0 \in Q
    BY FS_Subset, FS_EmptySet
  <1>2. ASSUME NEW n \in Nat, n \in Q PROVE n + 1 \in Q
    <2> SUFFICES ASSUME NEW s \in SUBSET S, Cardinality(s) = n + 1 PROVE s \in P
      OBVIOUS
    <2>1. IsFiniteSet(s) /\ s # {}
      BY FS_Subset, FS_EmptySet
    <2>2. ASSUME NEW x \in s PROVE s \ {x} \in P
      <3>1. Cardinality(s \ {x}) = n
        <4>1. Cardinality(s \ {x}) = IF x \in s THEN Cardinality(s) - 1 ELSE Cardinality(s)
          BY <2>1, FS_RemoveElement
        <4> QED
          BY <4>1
      <3> QED
        BY <1>2, <3>1
    <2> QED
      BY <2>1, <2>2
  <1>3. Nat \subseteq Q
    BY <1>1, <1>2, Induction
  <1>4. \A s \in SUBSET S : Cardinality(s) \in Nat
    BY FS_Subset, FS_CardinalityType
  <1> QED
    BY <1>3, <1>4

\* One element of a set that is not empty, as MapThenSumSet picks it.
One(s) == CHOOSE x \in s : TRUE

\* sum has the sums of f over the subsets of S.
IsSum(f, S, sum) ==
    sum = [s \in SUBSET S |-> IF s = {} THEN 0 ELSE f[One(s)] + sum[s \ {One(s)}]]

SumOver(f, S) == MapThenSumSet(LAMBDA x : f[x], S)

LEMMA SumOverDef ==
    ASSUME NEW f, NEW S
    PROVE  SumOver(f, S) = (CHOOSE sum : IsSum(f, S, sum))[S]
  BY DEF SumOver, MapThenSumSet, MapThenFoldSet, IsSum, One

LEMMA OneIn ==
    ASSUME NEW s, s # {}
    PROVE  One(s) \in s
  BY DEF One

\* Two functions with the sums of f agree on the subsets they share.
LEMMA SumUnique ==
    ASSUME NEW f, NEW S, IsFiniteSet(S), NEW T \in SUBSET S,
           NEW g, IsSum(f, S, g), NEW h, IsSum(f, T, h)
    PROVE  \A s \in SUBSET T : g[s] = h[s]
  <1> DEFINE P == {s \in SUBSET T : g[s] = h[s]}
  <1>1. IsFiniteSet(T)
    BY FS_Subset
  <1>2. {} \in P
    BY DEF IsSum
  <1>3. ASSUME NEW s \in SUBSET T, s # {}, \A x \in s : s \ {x} \in P PROVE s \in P
    <2>1. s \ {One(s)} \in P
      BY <1>3, OneIn
    <2>2. g[s] = f[One(s)] + g[s \ {One(s)}]
      BY <1>3 DEF IsSum
    <2>3. h[s] = f[One(s)] + h[s \ {One(s)}]
      BY <1>3 DEF IsSum
    <2> QED
      BY <2>1, <2>2, <2>3
  <1> HIDE DEF P
  <1>4. \A s \in SUBSET T : s \in P
    BY <1>1, <1>2, <1>3, SubsetInduction
  <1> QED
    BY <1>4 DEF P

\* Every finite set has a function with the sums of f over its subsets.
LEMMA SumExists ==
    ASSUME NEW f, NEW S, IsFiniteSet(S)
    PROVE  \E g : IsSum(f, S, g)
  <1> DEFINE P == {s \in SUBSET S : \A t \in SUBSET s : \E g : IsSum(f, t, g)}
  <1>1. {} \in P
    <2> DEFINE g == [s \in SUBSET {} |-> 0]
    <2>1. g = [s \in SUBSET {} |-> IF s = {} THEN 0 ELSE f[One(s)] + g[s \ {One(s)}]]
      OBVIOUS
    <2>2. IsSum(f, {}, g)
      BY <2>1 DEF IsSum
    <2> HIDE DEF g
    <2>3. \E h : IsSum(f, {}, h)
      BY <2>2
    <2> QED
      BY <2>3
  <1>2. ASSUME NEW s \in SUBSET S, s # {}, \A x \in s : s \ {x} \in P PROVE s \in P
    <2> DEFINE sub(t) == CHOOSE g : IsSum(f, t, g)
               rest(t) == t \ {One(t)}
    <2>1. \A t \in SUBSET s : t # s => \E g : IsSum(f, t, g)
      <3> SUFFICES ASSUME NEW t \in SUBSET s, t # s PROVE \E g : IsSum(f, t, g)
        OBVIOUS
      <3>1. PICK x \in s : t \subseteq s \ {x}
        OBVIOUS
      <3> QED
        BY <1>2, <3>1
    <2>2. \A t \in SUBSET s : t # s => IsSum(f, t, sub(t))
      BY <2>1
    <2> HIDE DEF sub
    <2>3. \A t \in SUBSET s : t # {} => One(t) \in t /\ rest(t) \in SUBSET s /\ rest(t) # s
      BY OneIn
    <2>4. ASSUME NEW t \in SUBSET s, t # s, t # {}
          PROVE  sub(t)[t] = f[One(t)] + sub(rest(t))[rest(t)]
      <3>1. IsSum(f, t, sub(t)) /\ IsSum(f, rest(t), sub(rest(t)))
        BY <2>2, <2>3, <2>4
      <3>2. sub(t)[t] = f[One(t)] + sub(t)[rest(t)]
        BY <3>1, <2>4 DEF IsSum
      <3>3. IsFiniteSet(t) /\ rest(t) \in SUBSET t
        BY FS_Subset
      <3>4. sub(t)[rest(t)] = sub(rest(t))[rest(t)]
        <4> HIDE DEF rest
        <4> QED
          BY <3>1, <3>3, SumUnique
      <3> QED
        BY <3>2, <3>4
    <2> DEFINE g == [t \in SUBSET s |-> IF t = {} THEN 0 ELSE f[One(t)] + sub(rest(t))[rest(t)]]
    <2>5. \A t \in SUBSET s : t # s => g[t] = sub(t)[t]
      <3>1. sub({})[{}] = 0
        BY <1>2, <2>2 DEF IsSum
      <3> HIDE DEF rest
      <3> QED
        BY <2>4, <3>1
    <2>6. \A t \in SUBSET s : g[t] = IF t = {} THEN 0 ELSE f[One(t)] + g[rest(t)]
      <3> SUFFICES ASSUME NEW t \in SUBSET s, t # {} PROVE g[t] = f[One(t)] + g[rest(t)]
        OBVIOUS
      <3>1. rest(t) \in SUBSET s /\ rest(t) # s
        BY <2>3
      <3> HIDE DEF rest
      <3>2. g[rest(t)] = sub(rest(t))[rest(t)]
        BY <2>5, <3>1
      <3> QED
        BY <3>2
    <2>7. g = [t \in SUBSET s |-> g[t]]
      OBVIOUS
    <2>8. IsSum(f, s, g)
      <3> HIDE DEF g
      <3> QED
        BY <2>6, <2>7 DEF IsSum
    <2> HIDE DEF g
    <2>9. \E h : IsSum(f, s, h)
      BY <2>8
    <2> QED
      BY <2>1, <2>9
  <1>3. \A s \in SUBSET S : s \in P
    <2> HIDE DEF P
    <2> QED
      BY <1>1, <1>2, SubsetInduction
  <1> QED
    BY <1>3

\* The sum of a function over a set whose values are all 0 is 0.
LEMMA SumZero ==
    ASSUME NEW f, NEW S, IsFiniteSet(S), \A x \in S : f[x] = 0
    PROVE  SumOver(f, S) = 0
  <1> DEFINE F == CHOOSE sum : IsSum(f, S, sum)
             P == {s \in SUBSET S : F[s] = 0}
  <1>1. IsSum(f, S, F)
    BY SumExists
  <1> HIDE DEF F
  <1>2. {} \in P
    BY <1>1 DEF IsSum
  <1>3. ASSUME NEW s \in SUBSET S, s # {}, \A x \in s : s \ {x} \in P PROVE s \in P
    <2>1. F[s] = f[One(s)] + F[s \ {One(s)}]
      BY <1>1, <1>3 DEF IsSum
    <2>2. One(s) \in s
      BY <1>3, OneIn
    <2> QED
      BY <1>3, <2>1, <2>2
  <1>4. \A s \in SUBSET S : s \in P
    <2> HIDE DEF P
    <2> QED
      BY <1>2, <1>3, SubsetInduction
  <1> QED
    BY <1>4, SumOverDef DEF F

\* A sum of integers is an integer; when the function changes at one argument
\* the sum changes by as much.
LEMMA SumChange ==
    ASSUME NEW f, NEW g, NEW S, IsFiniteSet(S), NEW x \in S,
           \A y \in S : f[y] \in Int /\ g[y] \in Int,
           \A y \in S \ {x} : g[y] = f[y]
    PROVE  /\ SumOver(f, S) \in Int
           /\ SumOver(g, S) = SumOver(f, S) + g[x] - f[x]
  <1> DEFINE F == CHOOSE sum : IsSum(f, S, sum)
             G == CHOOSE sum : IsSum(g, S, sum)
             P == {s \in SUBSET S : /\ F[s] \in Int
                                    /\ x \notin s => G[s] = F[s]
                                    /\ x \in s => G[s] = F[s] + g[x] - f[x]}
  <1>1. IsSum(f, S, F) /\ IsSum(g, S, G)
    BY SumExists
  <1> HIDE DEF F, G
  <1>2. {} \in P
    BY <1>1 DEF IsSum
  <1>3. ASSUME NEW s \in SUBSET S, s # {}, \A y \in s : s \ {y} \in P PROVE s \in P
    <2> DEFINE o == One(s)
    <2>1. F[s] = f[o] + F[s \ {o}] /\ G[s] = g[o] + G[s \ {o}]
      BY <1>1, <1>3 DEF IsSum
    <2>2. o \in s
      BY <1>3, OneIn
    <2> HIDE DEF o
    <2>3. s \ {o} \in P
      BY <1>3, <2>2
    <2>4. CASE o = x
      BY <2>1, <2>2, <2>3, <2>4
    <2>5. CASE o # x
      <3>1. g[o] = f[o] /\ f[o] \in Int
        BY <2>2, <2>5
      <3>2. x \in s <=> x \in s \ {o}
        BY <2>5
      <3> QED
        BY <2>1, <2>3, <3>1, <3>2
    <2> QED
      BY <2>4, <2>5
  <1>4. \A s \in SUBSET S : s \in P
    <2> HIDE DEF P
    <2> QED
      BY <1>2, <1>3, SubsetInduction
  <1>5. S \in P
    BY <1>4
  <1> QED
    BY <1>5, SumOverDef DEF F, G

\* The sum looks at the function on the set alone.
LEMMA SumSame ==
    ASSUME NEW f, NEW g, NEW S, IsFiniteSet(S), \A y \in S : g[y] = f[y]
    PROVE  SumOver(g, S) = SumOver(f, S)
  <1>1. ASSUME NEW h PROVE IsSum(f, S, h) <=> IsSum(g, S, h)
    <2>1. \A s \in SUBSET S : s # {} => f[One(s)] = g[One(s)]
      BY OneIn
    <2> QED
      BY <2>1 DEF IsSum
  <1>2. SumOver(g, S) = (CHOOSE sum : IsSum(g, S, sum))[S]
    BY SumOverDef
  <1>3. SumOver(f, S) = (CHOOSE sum : IsSum(f, S, sum))[S]
    BY SumOverDef
  <1>4. (CHOOSE sum : IsSum(g, S, sum)) = (CHOOSE sum : IsSum(f, S, sum))
    BY <1>1
  <1> QED
    BY <1>2, <1>3, <1>4

-----------------------------------------------------------------------------
(* Bytes *)

LEMMA HeldIsSum ==
    ASSUME NEW m
    PROVE  Held(m) = SumOver(m, Readers)
  BY DEF Held, SumOver

LEMMA HeldInt ==
    ASSUME TypeOK
    PROVE  Held(moved) \in Int
  <1>1. IsFiniteSet(Readers)
    BY ClientAssumption DEF ClientAssumption
  <1>2. CASE Readers = {}
    <2>1. \A x \in Readers : moved[x] = 0
      BY <1>2
    <2> QED
      BY <1>1, <2>1, SumZero, HeldIsSum
  <1>3. CASE Readers # {}
    <2>1. \A y \in Readers : moved[y] \in Int
      BY DEF TypeOK, Clients
    <2> QED
      BY <1>1, <1>3, <2>1, SumChange, HeldIsSum
  <1> QED
    BY <1>2, <1>3

LEMMA HeldChange ==
    ASSUME TypeOK, NEW c \in Clients, NEW v \in Nat, moved' = [moved EXCEPT ![c] = v]
    PROVE  /\ Held(moved) \in Int
           /\ Held(moved') = IF c \in Readers THEN Held(moved) + v - moved[c] ELSE Held(moved)
  <1>1. IsFiniteSet(Readers)
    BY ClientAssumption DEF ClientAssumption
  <1>2. /\ \A y \in Readers : moved[y] \in Int /\ moved'[y] \in Int
        /\ \A y \in Readers \ {c} : moved'[y] = moved[y]
        /\ moved'[c] = v
    BY DEF TypeOK, Clients
  <1>3. SumOver(moved, Readers) \in Int
    BY HeldInt, HeldIsSum
  <1>4. CASE c \in Readers
    <2>1. SumOver(moved', Readers) = SumOver(moved, Readers) + moved'[c] - moved[c]
      <3>1. PICK f, g : f = moved /\ g = moved'
        OBVIOUS
      <3>2. /\ \A y \in Readers : f[y] \in Int /\ g[y] \in Int
            /\ \A y \in Readers \ {c} : g[y] = f[y]
        BY <1>2, <3>1
      <3>3. SumOver(g, Readers) = SumOver(f, Readers) + g[c] - f[c]
        BY <1>1, <1>4, <3>2, SumChange
      <3> QED
        BY <3>1, <3>3
    <2> QED
      BY <1>2, <1>3, <1>4, <2>1, HeldIsSum
  <1>5. CASE c \notin Readers
    <2>1. \A y \in Readers : moved'[y] = moved[y]
      BY <1>2, <1>5
    <2>2. SumOver(moved', Readers) = SumOver(moved, Readers)
      <3>1. PICK f, g : f = moved /\ g = moved'
        OBVIOUS
      <3>2. \A y \in Readers : g[y] = f[y]
        BY <2>1, <3>1
      <3>3. SumOver(g, Readers) = SumOver(f, Readers)
        BY <1>1, <3>2, SumSame
      <3> QED
        BY <3>1, <3>3
    <2> QED
      BY <1>3, <1>5, <2>2, HeldIsSum
  <1> QED
    BY <1>4, <1>5

LEMMA ReturnBytes ==
    ASSUME TypeOK, NEW c \in Clients, NEW res, NEW k \in Nat, Return(c, res, k)
    PROVE  /\ Held(moved) \in Int /\ Held(moved') \in Int /\ total' \in Int
           /\ Held(moved') + total' = Held(moved) + total + (IF c \in Readers THEN k ELSE 0)
  <1>1. moved' = [moved EXCEPT ![c] = 0] /\ 0 \in Nat
    BY DEF Return
  <1>2. Held(moved) \in Int /\ Held(moved') = IF c \in Readers THEN Held(moved) + 0 - moved[c] ELSE Held(moved)
    BY <1>1, HeldChange
  <1>3. total' = IF c \in Readers THEN total + moved[c] + k ELSE total
    BY DEF Return
  <1>4. total \in Nat /\ moved[c] \in Nat
    BY DEF TypeOK
  <1> QED
    BY <1>2, <1>3, <1>4

\* A reply hands k bytes on, or they are lost for a request nobody waits for.
LEMMA ReplyBytes ==
    ASSUME TypeOK, NEW c \in Clients, NEW q, NEW res, NEW k \in Nat, Reply(c, q, res, k)
    PROVE  /\ Held(moved) \in Int /\ Held(moved') \in Int /\ total' \in Int /\ lost' \in Int
           /\ Held(moved') + total' + lost' = Held(moved) + total + lost + (IF c \in Readers THEN k ELSE 0)
           /\ lost' > 0 => lost > 0 \/ (c \in Readers /\ ~Awaited(c, q))
  <1>0. total \in Nat /\ lost \in Nat
    BY DEF TypeOK
  <1>1. CASE Awaited(c, q)
    <2>0. Return(c, res, k)
      BY <1>1 DEF Reply
    <2>1. lost' = lost
      BY <1>1 DEF Reply
    <2> DEFINE e == IF c \in Readers THEN k ELSE 0
    <2>2. /\ Held(moved) \in Int /\ Held(moved') \in Int /\ total' \in Int /\ e \in Int
          /\ Held(moved') + total' = Held(moved) + total + e
      BY <2>0, ReturnBytes
    <2> HIDE DEF e
    <2>3. Held(moved') + total' + lost' = Held(moved) + total + lost + e
      BY <1>0, <2>1, <2>2
    <2> QED
      BY <1>0, <2>1, <2>2, <2>3 DEF e
  <1>2. CASE ~Awaited(c, q)
    <2>1. lost' = (IF c \in Readers THEN lost + k ELSE lost) /\ moved' = moved /\ total' = total
      BY <1>2 DEF Reply, doneVars
    <2>2. Held(moved) \in Int /\ Held(moved') = Held(moved)
      BY <2>1, HeldInt
    <2> QED
      BY <1>0, <1>2, <2>1, <2>2
  <1> QED
    BY <1>1, <1>2

LEMMA ReplySelectBytes ==
    ASSUME TypeOK, NEW c \in Clients, NEW q, NEW k \in Nat, ReplySelect(c, q, k)
    PROVE  /\ Held(moved) \in Int /\ Held(moved') \in Int /\ lost' \in Int
           /\ Held(moved') + lost' = Held(moved) + lost + (IF c \in Readers THEN k ELSE 0)
           /\ lost' > 0 => lost > 0 \/ (c \in Readers /\ ~Awaited(c, q))
  <1>0. moved[c] \in Nat /\ lost \in Nat
    BY DEF TypeOK
  <1>1. CASE Awaited(c, q)
    <2>1. moved' = [moved EXCEPT ![c] = moved[c] + k] /\ moved[c] + k \in Nat /\ lost' = lost
      BY <1>0, <1>1 DEF ReplySelect
    <2>2. Held(moved) \in Int /\ Held(moved') = IF c \in Readers THEN Held(moved) + (moved[c] + k) - moved[c] ELSE Held(moved)
      BY <2>1, HeldChange
    <2> QED
      BY <1>0, <2>1, <2>2
  <1>2. CASE ~Awaited(c, q)
    <2>1. lost' = (IF c \in Readers THEN lost + k ELSE lost) /\ moved' = moved
      BY <1>2 DEF ReplySelect
    <2>2. Held(moved) \in Int /\ Held(moved') = Held(moved)
      BY <2>1, HeldInt
    <2> QED
      BY <1>0, <1>2, <2>1, <2>2
  <1> QED
    BY <1>1, <1>2

ByteInv == rx <= arrived /\ BytesConserved

\* What changes no count of bytes keeps them.
LEMMA SameBytes ==
    ASSUME ByteInv, UNCHANGED <<byteVars, late, moved, total>>
    PROVE  ByteInv'
  <1>1. /\ arrived = rx + total + lost + Held(moved)
        /\ lost > 0 => \E r \in late : r.client \in Readers
        /\ rx <= arrived
    BY DEF ByteInv, BytesConserved
  <1>2. moved' = moved /\ arrived' = arrived /\ rx' = rx /\ lost' = lost /\ total' = total
    BY DEF byteVars
  <1>3. Held(moved') = Held(moved)
    BY <1>2
  <1>4. /\ arrived' = rx' + total' + lost' + Held(moved')
        /\ lost' > 0 => \E r \in late' : r.client \in Readers
        /\ rx' <= arrived'
    BY <1>1, <1>2, <1>3
  <1> QED
    BY <1>4 DEF ByteInv, BytesConserved

\* A call that ends with no bytes hands those it has to its caller.
LEMMA ReturnKeepsBytes ==
    ASSUME TypeOK, ByteInv, NEW c \in Clients, NEW res, Return(c, res, 0),
           UNCHANGED byteVars, late \subseteq late'
    PROVE  ByteInv'
  <1>1. /\ Held(moved) \in Int /\ Held(moved') \in Int /\ total' \in Int
        /\ Held(moved') + total' = Held(moved) + total + (IF c \in Readers THEN 0 ELSE 0)
    BY ReturnBytes
  <1>2. /\ arrived = rx + total + lost + Held(moved)
        /\ lost > 0 => \E r \in late : r.client \in Readers
        /\ rx <= arrived
    BY DEF ByteInv, BytesConserved
  <1>3. arrived' = arrived /\ rx' = rx /\ lost' = lost
    BY DEF byteVars
  <1>4. total \in Int /\ lost \in Int /\ rx \in Int /\ arrived \in Int
    BY DEF TypeOK
  <1>5. arrived' = rx' + total' + lost' + Held(moved')
    BY <1>1, <1>2, <1>3, <1>4
  <1>6. rx' <= arrived'
    BY <1>2, <1>3
  <1>7. lost' > 0 => \E r \in late' : r.client \in Readers
    BY <1>2, <1>3
  <1> QED
    BY <1>5, <1>6, <1>7 DEF ByteInv, BytesConserved

\* A reply to a request that took k bytes from the buffer.
LEMMA ReplyKeepsBytes ==
    ASSUME TypeOK, ByteInv, InboxInv, NEW c \in Clients, NEW op, Handle(c, op), NEW res,
           NEW k \in Nat, k <= rx, rx' = rx - (IF c \in Readers THEN k ELSE 0),
           UNCHANGED <<arrived, late>>,
           \/ Reply(c, Head(inbox[c]), res, k)
           \/ ReplySelect(c, Head(inbox[c]), k) /\ UNCHANGED total
    PROVE  ByteInv'
  <1> DEFINE q == Head(inbox[c])
             e == IF c \in Readers THEN k ELSE 0
  <1>1. total \in Int /\ lost \in Int /\ rx \in Int /\ arrived \in Int /\ e \in Nat
    BY DEF TypeOK
  <1>2. /\ Held(moved) \in Int /\ Held(moved') \in Int /\ total' \in Int /\ lost' \in Int
        /\ Held(moved') + total' + lost' = Held(moved) + total + lost + e
        /\ lost' > 0 => lost > 0 \/ (c \in Readers /\ ~Awaited(c, q))
    <2>1. CASE Reply(c, q, res, k)
      BY <2>1, ReplyBytes
    <2>2. CASE ReplySelect(c, q, k) /\ UNCHANGED total
      <3>1. /\ Held(moved) \in Int /\ Held(moved') \in Int /\ lost' \in Int
            /\ Held(moved') + lost' = Held(moved) + lost + e
            /\ lost' > 0 => lost > 0 \/ (c \in Readers /\ ~Awaited(c, q))
        BY <2>2, ReplySelectBytes
      <3> HIDE DEF e
      <3>2. Held(moved') + total' + lost' = Held(moved) + total + lost + e
        BY <1>1, <2>2, <3>1
      <3> QED
        BY <1>1, <2>2, <3>1, <3>2
    <2> QED
      BY <2>1, <2>2
  <1>3. /\ arrived = rx + total + lost + Held(moved)
        /\ lost > 0 => \E r \in late : r.client \in Readers
        /\ rx <= arrived
    BY DEF ByteInv, BytesConserved
  <1>4. rx' = rx - e /\ arrived' = arrived /\ late' = late
    OBVIOUS
  <1> HIDE DEF e
  <1>5. arrived' = rx' + total' + lost' + Held(moved')
    BY <1>1, <1>2, <1>3, <1>4
  <1>6. rx' <= arrived'
    BY <1>1, <1>3, <1>4
  <1>7. ASSUME c \in Readers, ~Awaited(c, q) PROVE \E r \in late : r.client \in Readers
    <2>1. q = inbox[c][1] /\ 1 \in 1..Len(inbox[c])
      BY HandleType
    <2>2. Ref(c, q.n) \in late
      BY <1>7, <2>1 DEF InboxInv, Accounted
    <2> QED
      BY <1>7, <2>2 DEF Ref
  <1>8. lost' > 0 => \E r \in late' : r.client \in Readers
    BY <1>2, <1>3, <1>4, <1>7
  <1> QED
    BY <1>5, <1>6, <1>8 DEF ByteInv, BytesConserved

LEMMA RecvKeepsBytes ==
    ASSUME TypeOK, ByteInv, InboxInv, NEW c \in Clients, HandleRecv(c)
    PROVE  ByteInv'
  <1> DEFINE q == Head(inbox[c])
             k == RecvBytes(q)
  <1>1. c \in Readers /\ Handle(c, "move") /\ UNCHANGED <<arrived, late>>
    BY DEF HandleRecv, refVars
  <1>2. q \in Requests
    BY <1>1, HandleType
  <1>3. k \in Nat /\ k <= rx /\ 0 <= rx /\ rx \in Int
    BY <1>2, RecvBytesBound DEF TypeOK
  <1> HIDE DEF k
  <1>4. ASSUME NEW j \in {0, k}, NEW res, rx' = rx - j,
               Reply(c, q, res, j) \/ (ReplySelect(c, q, j) /\ UNCHANGED total)
        PROVE  ByteInv'
    <2>1. j \in Nat /\ j <= rx /\ rx' = rx - (IF c \in Readers THEN j ELSE 0)
      BY <1>1, <1>3, <1>4
    <2> QED
      BY <1>1, <1>4, <2>1, ReplyKeepsBytes
  <1>5. rx - 0 = rx
    BY <1>3
  <1> QED
    BY <1>4, <1>5, RecvCases DEF k, doneVars

LEMMA SendKeepsBytes ==
    ASSUME TypeOK, ByteInv, InboxInv, NEW c \in Clients, HandleSend(c)
    PROVE  ByteInv'
  <1> DEFINE q == Head(inbox[c])
             k == SendBytes(q)
  <1>1. c \notin Readers /\ UNCHANGED <<rx, arrived, late>>
    BY ClientAssumption DEF HandleSend, refVars, ClientAssumption
  <1>2. q \in Requests
    BY HandleType DEF HandleSend
  <1>3. k \in Nat
    BY <1>2, SendBytesBound
  <1> HIDE DEF k
  <1>4. ASSUME NEW j \in {0, k}, NEW res,
               Reply(c, q, res, j) \/ (ReplySelect(c, q, j) /\ UNCHANGED total)
        PROVE  ByteInv'
    <2>1. j \in Nat /\ total \in Int /\ lost \in Int /\ rx \in Int /\ arrived \in Int
      BY <1>3, <1>4 DEF TypeOK
    <2>2. /\ Held(moved) \in Int /\ Held(moved') \in Int /\ total' \in Int /\ lost' \in Int
          /\ Held(moved') + total' + lost' = Held(moved) + total + lost
          /\ lost' > 0 => lost > 0
      <3>1. CASE Reply(c, q, res, j)
        BY <1>1, <2>1, <3>1, ReplyBytes
      <3>2. CASE ReplySelect(c, q, j) /\ UNCHANGED total
        <4>1. /\ Held(moved) \in Int /\ Held(moved') \in Int /\ lost' \in Int
              /\ Held(moved') + lost' = Held(moved) + lost + 0
              /\ lost' > 0 => lost > 0
          BY <1>1, <2>1, <3>2, ReplySelectBytes
        <4> QED
          BY <2>1, <3>2, <4>1
      <3> QED
        BY <1>4, <3>1, <3>2
    <2>3. /\ arrived = rx + total + lost + Held(moved)
          /\ lost > 0 => \E r \in late : r.client \in Readers
          /\ rx <= arrived
      BY DEF ByteInv, BytesConserved
    <2>4. arrived' = rx' + total' + lost' + Held(moved')
      BY <1>1, <2>1, <2>2, <2>3
    <2>5. /\ rx' <= arrived'
          /\ lost' > 0 => \E r \in late' : r.client \in Readers
      BY <1>1, <2>2, <2>3
    <2> QED
      BY <2>4, <2>5 DEF ByteInv, BytesConserved
  <1> QED
    BY <1>4, SendCases DEF k, doneVars

LEMMA ByteStep ==
    ASSUME TypeOK, ByteInv, InboxInv, Next
    PROVE  ByteInv'
  <1>1. ASSUME NEW c \in Clients, NEW n \in Lengths, Start(c, n) PROVE ByteInv'
    BY <1>1, SameBytes DEF Start
  <1>2. ASSUME NEW c \in Clients, Client(c) \/ Owner(c) \/ Timeout(c) \/ CallTimesOut(c)
        PROVE  ByteInv'
    <2>1. CASE Retry(c)
      <3>1. CASE alive
        BY <2>1, <3>1, SameBytes DEF Retry, doneVars
      <3>2. CASE ~alive
        BY <2>1, <3>2, ReturnKeepsBytes DEF Retry, refVars
      <3> QED
        BY <3>1, <3>2
    <2>2. CASE RetryTooLate(c) \/ ReceiveAbort(c) \/ ReceiveDown(c)
      BY <2>2, ReturnKeepsBytes DEF RetryTooLate, ReceiveAbort, ReceiveDown, refVars
    <2>3. CASE CallFails(c) \/ CallTimesOut(c)
      BY <2>3, ReturnKeepsBytes DEF CallFails, CallTimesOut, CallExits
    <2>4. CASE Timeout(c)
      BY <2>4, SameBytes DEF Timeout, doneVars, refVars
    <2>5. CASE HandleRefused(c) \/ HandleCancel(c)
      <3>1. PICK op, res : Handle(c, op) /\ Reply(c, Head(inbox[c]), res, 0)
        BY <2>5 DEF HandleRefused, HandleCancel
      <3>2. 0 <= rx /\ rx' = rx - (IF c \in Readers THEN 0 ELSE 0) /\ UNCHANGED <<arrived, late>>
        <4>1. rx' = rx /\ UNCHANGED <<arrived, late>>
          BY <2>5 DEF HandleRefused, HandleCancel, refVars
        <4>2. rx \in Nat
          BY DEF TypeOK
        <4> QED
          BY <4>1, <4>2
      <3> QED
        BY <3>1, <3>2, ReplyKeepsBytes
    <2> QED
      BY <1>2, <2>1, <2>2, <2>3, <2>4, <2>5, RecvKeepsBytes, SendKeepsBytes DEF Client, Owner
  <1>3. CASE Delivery
    BY <1>3, SameBytes DEF Delivery, Notify, SendAbort, callVars, refVars, doneVars
  <1>4. CASE Peer
    <2>1. ASSUME NEW k \in 1..MaxBytes, Arrive(k) PROVE ByteInv'
      <3>1. /\ arrived = rx + total + lost + Held(moved)
            /\ lost > 0 => \E r \in late : r.client \in Readers
            /\ rx <= arrived
        BY DEF ByteInv, BytesConserved
      <3>2. /\ arrived' = arrived + k /\ rx' = rx + k
            /\ UNCHANGED <<lost, total, moved, late>>
        BY <2>1 DEF Arrive, callVars, refVars, doneVars
      <3>3. /\ total \in Int /\ lost \in Int /\ rx \in Int /\ arrived \in Int
            /\ Held(moved) \in Int /\ Held(moved') = Held(moved)
        BY <3>2, HeldInt DEF TypeOK
      <3>4. arrived' = rx' + total' + lost' + Held(moved')
        BY <3>1, <3>2, <3>3
      <3>5. rx' <= arrived'
        BY <3>1, <3>2, <3>3
      <3> QED
        BY <3>1, <3>2, <3>4, <3>5 DEF ByteInv, BytesConserved
    <2>2. ASSUME NEW k \in 1..MaxRoom, Acknowledged(k) PROVE ByteInv'
      BY <2>2 DEF Acknowledged, ByteInv, BytesConserved, callVars, refVars, doneVars
    <2>3. CASE PeerFin \/ PeerReset \/ UserTimeout
      BY <2>3, SameBytes DEF PeerFin, PeerReset, UserTimeout, callVars, refVars, doneVars
    <2> QED
      BY <1>4, <2>1, <2>2, <2>3 DEF Peer
  <1>5. CASE Others
    BY <1>5, SameBytes
    DEF Others, ShutdownCall, CloseCall, StackStops, StackKilled, OwnerGone, callVars, refVars,
        doneVars
  <1> QED
    BY <1>1, <1>2, <1>3, <1>4, <1>5 DEF Next

-----------------------------------------------------------------------------
(* The theorem *)

LEMMA ByteInit == Init => BytesConserved
  <1> SUFFICES ASSUME Init PROVE BytesConserved
    OBVIOUS
  <1>1. \A x \in Readers : moved[x] = 0
    BY DEF Init, Clients
  <1>2. SumOver(moved, Readers) = 0
    BY <1>1, SumZero, ClientAssumption DEF ClientAssumption
  <1>3. Held(moved) = 0
    BY <1>2, HeldIsSum
  <1> QED
    BY <1>3 DEF Init, BytesConserved

\* Every byte that arrived is in the buffer, in a call's hands, handed to a caller, or
\* lost to a call given up in the owner's mailbox.
THEOREM NoByteLost == Spec => []BytesConserved
  <1>1. CallInv /\ BytesConserved /\ [Next]_vars => BytesConserved'
    <2> SUFFICES ASSUME CallInv, BytesConserved, [Next]_vars PROVE BytesConserved'
      OBVIOUS
    <2>1. TypeOK /\ ByteInv /\ InboxInv
      BY DEF CallInv, ByteInv
    <2>2. CASE Next
      BY <2>1, <2>2, ByteStep DEF ByteInv
    <2>3. CASE UNCHANGED vars
      BY <2>1, <2>3, SameBytes DEF vars, refVars, callVars, doneVars, ByteInv
    <2> QED
      BY <2>2, <2>3
  <1> QED
    BY <1>1, ByteInit, CallInvariant, PTL DEF Spec

=============================================================================

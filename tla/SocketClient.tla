---------------------------- MODULE SocketClient ----------------------------
(***************************************************************************)
(* The blocking calls on one connected stream socket: recv and send of     *)
(* socket.ex, each a loop of nowait calls to the stack owner and waits for *)
(* a select message, with its deadline, its cancel and the drain after it; *)
(* and, of the stack, tcp_recv, tcp_send, cancel, tcp_shutdown, tcp_close  *)
(* and what becomes of a waiter (stack.rs, module Readiness).              *)
(*                                                                         *)
(* Every client is a process that makes one call at a time; its requests   *)
(* reach the owner in the order they were sent, and the owner handles the  *)
(* requests of different clients in any order.  A reply is received when   *)
(* it is sent: nothing the caller does before it matters.  Bytes are       *)
(* counted.  A select reference is the number of the client's request.     *)
(***************************************************************************)
EXTENDS Integers, Sequences, FiniteSetsExt

CONSTANTS Readers, Writers, \* processes that call recv, and send
          Lengths,          \* byte counts asked for; a recv of 0 takes what there is
          CopyLimit,        \* limits.bytes_copied
          MaxBytes,         \* bound: bytes that arrive
          MaxRoom,          \* the send buffer's size
          MaxRequests,      \* bound: requests of a client
          Finite,           \* whether calls have a deadline
          MaxLate,          \* bound on the calls that time out in the owner's mailbox
          Crowded           \* whether the waiters of other sockets may reach their limit

ASSUME ClientAssumption ==
    /\ Readers \cap Writers = {}
    /\ IsFiniteSet(Readers)
    /\ Lengths \subseteq Nat
    /\ CopyLimit \in Nat \ {0}
    /\ MaxBytes \in Nat
    /\ MaxRoom \in Nat
    /\ MaxRequests \in Nat
    /\ Finite \in BOOLEAN
    /\ MaxLate \in Nat
    /\ Crowded \in BOOLEAN

Clients == Readers \cup Writers
Dirs == {"read", "write"}
Dir(c) == IF c \in Readers THEN "read" ELSE "write"

Refs == [client : Clients, n : 1..MaxRequests]
NoRef == [client |-> "none", n |-> 0]
Requests == [op : {"move", "cancel"}, n : 1..MaxRequests, want : Nat]

VARIABLES
    tcp,      \* the smoltcp socket: "established", "finWait" after a local FIN,
              \* "closeWait" after the peer's, "done" after both, or "closed" by a
              \* reset or a timeout
    fin,      \* the peer's FIN has arrived
    failed,   \* the failure ensure_connected reports, or "no"
    open,     \* the public socket has an entry in the table
    shut,     \* directions shut down locally
    alive,    \* the stack owner runs
    rx,       \* bytes in the receive buffer
    room,     \* bytes that fit the send buffer
    arrived,  \* bytes that ever arrived in the receive buffer
    slot,     \* the waiter of each direction
    flag,     \* its ready flag
    owed,     \* waiters taken whose abort is still to be sent
    inbox,    \* requests on their way from each client
    mail,     \* select and abort messages in a client's mailbox
    downed,   \* clients with the DOWN of their monitor in the mailbox
    pc,       \* "idle", "calling", "waiting" for a message, or "cancelling"
    req,      \* the number of the client's last request
    late,     \* requests whose call timed out before the owner had replied
    want,     \* bytes the call has yet to move, 0 for any
    moved,    \* bytes it has moved
    total,    \* bytes handed to the callers of recv
    lost,     \* bytes taken for a call whose caller had given up
    result    \* the result of each client's last call

connVars == <<tcp, fin, failed, open, shut, alive>>
byteVars == <<rx, room, arrived, lost>>
waitVars == <<slot, flag, owed>>
refVars == <<req, late>>
callVars == <<pc, refVars, want, moved>>
doneVars == <<total, result>>
vars == <<connVars, byteVars, waitVars, inbox, mail, downed, callVars, doneVars>>

Results == {"none", "ok", "eof", "closed", "reset", "etimedout", "busy", "limit", "timeout"}

TypeOK ==
    /\ tcp \in {"established", "finWait", "closeWait", "done", "closed"}
    /\ fin \in BOOLEAN
    /\ failed \in {"no", "reset", "etimedout"}
    /\ open \in BOOLEAN
    /\ shut \subseteq Dirs
    /\ alive \in BOOLEAN
    /\ rx \in 0..MaxBytes
    /\ room \in 0..MaxRoom
    /\ arrived \in 0..MaxBytes
    /\ slot \in [Dirs -> Refs \cup {NoRef}]
    /\ flag \in [Dirs -> BOOLEAN]
    /\ owed \subseteq Refs
    /\ inbox \in [Clients -> Seq(Requests)]
    /\ mail \in [Clients -> SUBSET [kind : {"select", "abort"}, n : 1..MaxRequests]]
    /\ downed \subseteq Clients
    /\ pc \in [Clients -> {"idle", "calling", "waiting", "cancelling"}]
    /\ req \in [Clients -> 0..MaxRequests]
    /\ late \subseteq Refs
    /\ want \in [Clients -> Nat]
    /\ moved \in [Clients -> Nat]
    /\ total \in Nat
    /\ lost \in Nat
    /\ result \in [Clients -> Results]

Init ==
    /\ tcp = "established"
    /\ fin = FALSE
    /\ failed = "no"
    /\ open = TRUE
    /\ shut = {}
    /\ alive = TRUE
    /\ rx = 0
    /\ room = 0
    /\ arrived = 0
    /\ slot = [d \in Dirs |-> NoRef]
    /\ flag = [d \in Dirs |-> FALSE]
    /\ owed = {}
    /\ inbox = [c \in Clients |-> <<>>]
    /\ mail = [c \in Clients |-> {}]
    /\ downed = {}
    /\ pc = [c \in Clients |-> "idle"]
    /\ req = [c \in Clients |-> 0]
    /\ late = {}
    /\ want = [c \in Clients |-> 0]
    /\ moved = [c \in Clients |-> 0]
    /\ total = 0
    /\ lost = 0
    /\ result = [c \in Clients |-> "none"]

Min2(a, b) == IF a < b THEN a ELSE b

-----------------------------------------------------------------------------
(* The client *)

Ref(c, n) == [client |-> c, n |-> n]
Message(kind, n) == [kind |-> kind, n |-> n]

\* Messages that a wait on the client's last reference matches.
Matching(c) == {m \in mail[c] : m.n = req[c]}

\* Mutant: an error drops the bytes received before it.
ReturnDropping(c, res, k) ==
    /\ pc' = [pc EXCEPT ![c] = "idle"]
    /\ moved' = [moved EXCEPT ![c] = 0]
    /\ want' = [want EXCEPT ![c] = 0]
    /\ total' = IF c \in Readers /\ res = "ok" THEN total + moved[c] + k ELSE total
    /\ result' = [result EXCEPT ![c] = res]
    /\ downed' = downed \ {c}

\* The call returns res with the k bytes of its last reply and those before, as data,
\* or as the rest an error reports; the monitor and its message go (synchronous).
Return(c, res, k) ==
    /\ pc' = [pc EXCEPT ![c] = "idle"]
    /\ moved' = [moved EXCEPT ![c] = 0]
    /\ want' = [want EXCEPT ![c] = 0]
    /\ total' = IF c \in Readers THEN total + moved[c] + k ELSE total
    /\ result' = [result EXCEPT ![c] = res]
    /\ downed' = downed \ {c}

\* The client sends a request for n bytes with a new reference.
Request(c, n) ==
    /\ req[c] < MaxRequests
    /\ req' = [req EXCEPT ![c] = @ + 1]
    /\ inbox' = [inbox EXCEPT ![c] = Append(@, [op |-> "move", n |-> req[c] + 1, want |-> n])]
    /\ pc' = [pc EXCEPT ![c] = "calling"]

\* recv or send of n bytes.  (A stack that is gone is reported as closed by the
\* call, and its monitor's message goes with the call.)
Start(c, n) ==
    /\ pc[c] = "idle"
    /\ alive
    /\ c \in Writers => n > 0
    /\ Request(c, n)
    /\ want' = [want EXCEPT ![c] = n]
    /\ result' = [result EXCEPT ![c] = "none"]
    /\ UNCHANGED <<connVars, byteVars, waitVars, mail, downed, late, moved, total>>

\* await_select takes the select message, and the loop retries.
Retry(c) ==
    /\ pc[c] = "waiting"
    /\ Message("select", req[c]) \in mail[c]
    /\ mail' = [mail EXCEPT ![c] = @ \ {Message("select", req[c])}]
    /\ IF alive
       THEN Request(c, want[c]) /\ UNCHANGED <<downed, late, want, moved, doneVars>>
       ELSE Return(c, "closed", 0) /\ UNCHANGED <<inbox, refVars>>
    /\ UNCHANGED <<connVars, byteVars, waitVars>>

\* prepare_retry: the deadline has passed.
RetryTooLate(c) ==
    /\ Finite
    /\ pc[c] = "waiting"
    /\ Message("select", req[c]) \in mail[c]
    /\ mail' = [mail EXCEPT ![c] = @ \ {Message("select", req[c])}]
    /\ Return(c, "timeout", 0)
    /\ UNCHANGED <<connVars, byteVars, waitVars, inbox, refVars>>

\* await_select takes the abort message.
ReceiveAbort(c) ==
    /\ pc[c] = "waiting"
    /\ Message("abort", req[c]) \in mail[c]
    /\ mail' = [mail EXCEPT ![c] = @ \ {Message("abort", req[c])}]
    /\ Return(c, "closed", 0)
    /\ UNCHANGED <<connVars, byteVars, waitVars, inbox, refVars>>

\* await_select takes the monitor's message, which the stack's are ahead of.
ReceiveDown(c) ==
    /\ pc[c] = "waiting"
    /\ Matching(c) = {}
    /\ c \in downed
    /\ Return(c, "closed", 0)
    /\ UNCHANGED <<connVars, byteVars, waitVars, inbox, mail, refVars>>

\* The deadline passes with no message that matches: the client asks for a cancel.
Timeout(c) ==
    /\ Finite
    /\ pc[c] = "waiting"
    /\ Matching(c) = {}
    /\ c \notin downed
    /\ alive
    /\ pc' = [pc EXCEPT ![c] = "cancelling"]
    /\ inbox' = [inbox EXCEPT ![c] = Append(@, [op |-> "cancel", n |-> req[c], want |-> 0])]
    /\ UNCHANGED <<connVars, byteVars, waitVars, mail, downed, refVars, want, moved, doneVars>>

\* Mutant: the messages that raced the cancel are left in the mailbox.
DrainNothing(c) == UNCHANGED mail

\* drain_select_message: whatever the cancel's result, a message that is there is
\* taken.
Drain(c) == mail' = [mail EXCEPT ![c] = @ \ Matching(c)]

\* A GenServer.call exits, and is reported as closed; that of a cancel is ignored.
CallExits(c) ==
    /\ \/ /\ pc[c] = "calling"
          /\ Return(c, "closed", 0)
          /\ UNCHANGED mail
       \/ /\ pc[c] = "cancelling"
          /\ Drain(c)
          /\ Return(c, "timeout", 0)
    /\ UNCHANGED <<connVars, byteVars, waitVars, inbox, req>>

\* The owner is gone.
CallFails(c) == ~alive /\ CallExits(c) /\ UNCHANGED late

\* The call times out: its request is still on its way.
CallTimesOut(c) ==
    /\ Cardinality(late) < MaxLate
    /\ alive
    /\ CallExits(c)
    /\ late' = late \cup {Ref(c, req[c])}

-----------------------------------------------------------------------------
(* The stack: requests *)

Receiving == tcp \in {"established", "finWait"}
MaySend == tcp \in {"established", "closeWait"}

\* The error that ends tcp_recv or tcp_send before it moves anything, or "none".
Refusal(d) ==
    CASE ~open -> "closed"
      [] open /\ slot[d] # NoRef -> "busy"
      [] open /\ slot[d] = NoRef /\ failed # "no" -> failed
      [] open /\ slot[d] = NoRef /\ failed = "no"
           /\ (d \in shut \/ (d = "write" /\ ~MaySend)) -> "closed"
      [] OTHER -> "none"

\* The owner takes the first request of a client, which is for `op'.
Handle(c, op) ==
    /\ alive
    /\ inbox[c] # <<>>
    /\ Head(inbox[c]).op = op
    /\ inbox' = [inbox EXCEPT ![c] = Tail(@)]

\* The client waits for the reply to its request q.
Awaited(c, q) == q.n = req[c] /\ pc[c] = (IF q.op = "move" THEN "calling" ELSE "cancelling")

\* The reply to q ends the call with k more bytes; nobody receives that of a call
\* given up.
Reply(c, q, res, k) ==
    IF Awaited(c, q)
    THEN Return(c, res, k) /\ UNCHANGED lost
    ELSE /\ lost' = IF c \in Readers THEN lost + k ELSE lost
         /\ UNCHANGED <<pc, moved, want, doneVars, downed>>

\* The reply to q is a select with the k bytes moved, or the rest: the client waits.
ReplySelect(c, q, k) ==
    IF Awaited(c, q)
    THEN /\ pc' = [pc EXCEPT ![c] = "waiting"]
         /\ moved' = [moved EXCEPT ![c] = @ + k]
         /\ want' = [want EXCEPT ![c] = IF @ = 0 THEN 0 ELSE @ - k]
         /\ UNCHANGED lost
    ELSE /\ lost' = IF c \in Readers THEN lost + k ELSE lost
         /\ UNCHANGED <<pc, moved, want>>

\* arm_tcp_waiter; `ready' when the direction could go on at once.
ArmWaiter(d, ref, ready) ==
    /\ slot' = [slot EXCEPT ![d] = ref]
    /\ flag' = [flag EXCEPT ![d] = ready]
    /\ UNCHANGED owed

HandleRefused(c) ==
    /\ Handle(c, "move")
    /\ Refusal(Dir(c)) # "none"
    /\ Reply(c, Head(inbox[c]), Refusal(Dir(c)), 0)
    /\ UNCHANGED <<connVars, rx, room, arrived, waitVars, mail, refVars>>

\* tcp_recv, and handle_recv_result: k bytes are there to be taken; the end of the
\* stream completes a recv that has some.  A wait that finds the waiters at their
\* limit leaves the bytes where they are.
HandleRecv(c) ==
    LET q    == Head(inbox[c])
        k    == Min2(IF q.want = 0 THEN CopyLimit ELSE Min2(q.want, CopyLimit), rx)
        more == Receiving \/ rx - k > 0
        complete == IF q.want = 0 THEN k > 0 ELSE k = q.want \/ (~more /\ k > 0)
    IN
    /\ c \in Readers
    /\ Handle(c, "move")
    /\ Refusal("read") = "none"
    /\ \/ /\ complete
          /\ rx' = rx - k
          /\ Reply(c, q, "ok", k)
          /\ UNCHANGED waitVars
       \/ /\ ~complete
          /\ ~more
          /\ Reply(c, q, IF moved[c] > 0 THEN "ok" ELSE "eof", 0)
          /\ UNCHANGED <<rx, waitVars>>
       \/ /\ ~complete
          /\ more
          /\ Crowded
          /\ Reply(c, q, "limit", 0)
          /\ UNCHANGED <<rx, waitVars>>
       \/ /\ ~complete
          /\ more
          /\ rx' = rx - k
          /\ ArmWaiter("read", Ref(c, q.n), rx' > 0)
          /\ ReplySelect(c, q, k)
          /\ UNCHANGED <<doneVars, downed>>
    /\ UNCHANGED <<connVars, room, arrived, mail, refVars>>

\* tcp_send, and handle_send_result.
HandleSend(c) ==
    LET q == Head(inbox[c])
        k == Min2(Min2(q.want, CopyLimit), room)
    IN
    /\ c \in Writers
    /\ Handle(c, "move")
    /\ Refusal("write") = "none"
    /\ \/ /\ k = q.want
          /\ room' = room - k
          /\ Reply(c, q, "ok", k)
          /\ UNCHANGED waitVars
       \/ /\ k < q.want
          /\ Crowded
          /\ Reply(c, q, "limit", 0)
          /\ UNCHANGED <<room, waitVars>>
       \/ /\ k < q.want
          /\ room' = room - k
          /\ ArmWaiter("write", Ref(c, q.n), room' > 0)
          /\ ReplySelect(c, q, k)
          /\ UNCHANGED <<doneVars, downed>>
    /\ UNCHANGED <<connVars, rx, arrived, mail, refVars>>

\* Mutant: the waiter stays.
HandleCancelNothing(c) ==
    /\ Handle(c, "cancel")
    /\ IF Awaited(c, Head(inbox[c])) THEN Drain(c) ELSE UNCHANGED mail
    /\ Reply(c, Head(inbox[c]), "timeout", 0)
    /\ UNCHANGED <<connVars, rx, room, arrived, waitVars, refVars>>

\* cancel: the waiter leaves its slot if it is still there; the client drains its
\* mailbox and returns.
HandleCancel(c) ==
    LET q == Head(inbox[c])
        d == Dir(c)
    IN
    /\ Handle(c, "cancel")
    /\ IF open /\ slot[d] = Ref(c, q.n)
       THEN ArmWaiter(d, NoRef, FALSE)
       ELSE UNCHANGED waitVars
    /\ IF Awaited(c, q) THEN Drain(c) ELSE UNCHANGED mail
    /\ Reply(c, q, "timeout", 0)
    /\ UNCHANGED <<connVars, rx, room, arrived, refVars>>

-----------------------------------------------------------------------------
(* The stack: other calls, polls and the peer *)

\* The wakers of the directions ds fire; only a direction with a waiter has one.
Wake(ds) == flag' = [d \in Dirs |-> flag[d] \/ (d \in ds /\ slot[d] # NoRef)]

\* A ready waiter is sent its select message (deliver_ready), in any native call.
Notify(d) ==
    /\ alive
    /\ flag[d]
    /\ slot[d] # NoRef
    /\ mail' = [mail EXCEPT ![slot[d].client] = @ \cup {Message("select", slot[d].n)}]
    /\ slot' = [slot EXCEPT ![d] = NoRef]
    /\ flag' = [flag EXCEPT ![d] = FALSE]
    /\ UNCHANGED <<connVars, byteVars, owed, inbox, downed, callVars, doneVars>>

\* Mutant: the abort looks its socket up in the table, where a closed one is no more.
SendAbortOpen(r) ==
    /\ alive
    /\ open
    /\ r \in owed
    /\ owed' = owed \ {r}
    /\ mail' = [mail EXCEPT ![r.client] = @ \cup {Message("abort", r.n)}]
    /\ UNCHANGED <<connVars, byteVars, slot, flag, inbox, downed, callVars, doneVars>>

\* An abort is sent: by the call that took the waiter, or by a later one when that
\* had no budget left (finish_call).
SendAbort(r) ==
    /\ alive
    /\ r \in owed
    /\ owed' = owed \ {r}
    /\ mail' = [mail EXCEPT ![r.client] = @ \cup {Message("abort", r.n)}]
    /\ UNCHANGED <<connVars, byteVars, slot, flag, inbox, downed, callVars, doneVars>>

\* Mutant: the waiters are dropped.
TakeWaitersSilent(ds) ==
    /\ slot' = [d \in Dirs |-> IF d \in ds THEN NoRef ELSE slot[d]]
    /\ UNCHANGED owed

\* The waiters of the directions ds are taken, to be sent an abort.
TakeWaiters(ds) ==
    /\ owed' = (owed \cup {slot[d] : d \in ds}) \ {NoRef}
    /\ slot' = [d \in Dirs |-> IF d \in ds THEN NoRef ELSE slot[d]]

\* tcp_shutdown of the directions ds, by any process.
ShutdownCall(ds) ==
    LET closes == "write" \in ds /\ "write" \notin shut
    IN
    /\ alive
    /\ open
    /\ failed = "no"
    /\ ds # {}
    /\ shut' = shut \cup ds
    /\ tcp' = CASE closes /\ tcp = "established" -> "finWait"
                [] closes /\ tcp = "closeWait" -> "done"
                [] OTHER -> tcp
    /\ TakeWaiters(ds)
    /\ flag' = [d \in Dirs |-> IF d \in ds THEN FALSE
                               ELSE flag[d] \/ (tcp' # tcp /\ slot[d] # NoRef)]
    /\ UNCHANGED <<fin, failed, open, alive, byteVars, inbox, mail, downed, callVars, doneVars>>

\* tcp_close, by any process.  What the smoltcp socket does after it is not seen.
CloseCall ==
    /\ alive
    /\ open
    /\ open' = FALSE
    /\ TakeWaiters(Dirs)
    /\ flag' = [d \in Dirs |-> FALSE]
    /\ UNCHANGED <<tcp, fin, failed, shut, alive, byteVars, inbox, mail, downed, callVars,
                   doneVars>>

\* The owner is gone; the monitors of the calls in progress fire.
OwnerGone ==
    /\ alive
    /\ alive' = FALSE
    /\ slot' = [d \in Dirs |-> NoRef]
    /\ flag' = [d \in Dirs |-> FALSE]
    /\ owed' = {}
    /\ inbox' = [c \in Clients |-> <<>>]
    /\ downed' = {c \in Clients : pc[c] # "idle"}
    /\ UNCHANGED <<tcp, fin, failed, open, shut, byteVars, callVars, doneVars>>

\* It terminates: every waiter is sent its abort first.
StackStops ==
    LET rs == (owed \cup {slot[d] : d \in Dirs}) \ {NoRef}
    IN  /\ OwnerGone
        /\ mail' = [c \in Clients |->
                       mail[c] \cup {Message("abort", r.n) : r \in {x \in rs : x.client = c}}]

\* It is killed.
StackKilled == OwnerGone /\ UNCHANGED mail

\* Bytes arrive.
Arrive(k) ==
    /\ alive
    /\ open
    /\ Receiving
    /\ arrived + k <= MaxBytes
    /\ arrived' = arrived + k
    /\ rx' = rx + k
    /\ Wake({"read"})
    /\ UNCHANGED <<connVars, room, lost, slot, owed, inbox, mail, downed, callVars, doneVars>>

\* Bytes sent are acknowledged.
Acknowledged(k) ==
    /\ alive
    /\ open
    /\ MaySend
    /\ room + k <= MaxRoom
    /\ room' = room + k
    /\ Wake({"write"})
    /\ UNCHANGED <<connVars, rx, arrived, lost, slot, owed, inbox, mail, downed, callVars,
                   doneVars>>

\* The peer ends its stream.
PeerFin ==
    /\ alive
    /\ open
    /\ Receiving
    /\ fin' = TRUE
    /\ tcp' = IF tcp = "established" THEN "closeWait" ELSE "done"
    /\ Wake(Dirs)
    /\ UNCHANGED <<failed, open, shut, alive, byteVars, slot, owed, inbox, mail, downed,
                   callVars, doneVars>>

\* A reset arrives: inbound_reset records it for an established connection only.
PeerReset ==
    /\ alive
    /\ open
    /\ tcp # "closed"
    /\ failed' = IF tcp = "established" THEN "reset" ELSE failed
    /\ tcp' = "closed"
    /\ Wake(Dirs)
    /\ UNCHANGED <<fin, open, shut, alive, byteVars, slot, owed, inbox, mail, downed, callVars,
                   doneVars>>

\* smoltcp gives the connection up (aborted_by_timeout).
UserTimeout ==
    /\ alive
    /\ open
    /\ tcp # "closed"
    /\ failed' = "etimedout"
    /\ tcp' = "closed"
    /\ Wake(Dirs)
    /\ UNCHANGED <<fin, open, shut, alive, byteVars, slot, owed, inbox, mail, downed, callVars,
                   doneVars>>

-----------------------------------------------------------------------------
Client(c) ==
    \/ Retry(c)
    \/ RetryTooLate(c)
    \/ ReceiveAbort(c)
    \/ ReceiveDown(c)
    \/ CallFails(c)

Owner(c) ==
    \/ HandleRefused(c)
    \/ HandleRecv(c)
    \/ HandleSend(c)
    \/ HandleCancel(c)

Delivery ==
    \/ \E d \in Dirs : Notify(d)
    \/ \E r \in Refs : SendAbort(r)

Peer ==
    \/ \E k \in 1..MaxBytes : Arrive(k)
    \/ \E k \in 1..MaxRoom : Acknowledged(k)
    \/ PeerFin
    \/ PeerReset
    \/ UserTimeout

Others ==
    \/ \E ds \in SUBSET Dirs : ShutdownCall(ds)
    \/ CloseCall
    \/ StackStops
    \/ StackKilled

Next ==
    \/ \E c \in Clients, n \in Lengths : Start(c, n)
    \/ \E c \in Clients : Client(c) \/ Owner(c) \/ Timeout(c) \/ CallTimesOut(c)
    \/ Delivery
    \/ Peer
    \/ Others

Spec == Init /\ [][Next]_vars

-----------------------------------------------------------------------------
(* Properties *)

\* A client that waits is answered: its waiter is in place, its abort is owed, its
\* message has come, or its monitor's has (await_select waits for nothing else).
WaitIsAnswerable ==
    \A c \in Clients : pc[c] = "waiting" =>
        \/ slot[Dir(c)] = Ref(c, req[c])
        \/ Ref(c, req[c]) \in owed
        \/ Matching(c) # {}
        \/ c \in downed

\* A waiter in place belongs to a client that waits for it or is cancelling it: no
\* call leaves the socket busy behind it, but one that timed out in the owner's
\* mailbox.
WaiterIsAwaited ==
    \A d \in Dirs : slot[d] # NoRef =>
        LET c == slot[d].client
        IN  \/ slot[d] = Ref(c, req[c]) /\ pc[c] \in {"waiting", "cancelling"}
            \/ slot[d] \in late

\* The bytes in the hands of calls to recv, of which each has moved m[c].
Held(m) == MapThenSumSet(LAMBDA c : m[c], Readers)

\* "An exact receive that times out or fails after reading bytes returns
\* {:error, {reason, partial_data}}" (ADR 0005): every byte that arrived is in the
\* buffer, in a call's hands or handed to a caller, however calls end; but for
\* requests the caller gave up on.
BytesConserved ==
    /\ arrived = rx + total + lost + Held(moved)
    /\ lost > 0 => \E r \in late : r.client \in Readers

\* "Timeout cancels the exact select reference and drains a racing matching
\* notification" (ADR 0005): no select message is left behind by a call, but one that
\* timed out in the owner's mailbox.  (An abort that a close or a shutdown retained
\* may be: drain_select_message looks once.)
LeftoverIsAbort ==
    \A c \in Clients : \A m \in mail[c] :
        \/ m.kind = "abort"
        \/ m.n = req[c] /\ pc[c] \in {"waiting", "cancelling"}
        \/ Ref(c, m.n) \in late

\* "An inbound RST remains the distinct :connection_reset error" (ADR 0005): the end
\* of the stream is reported only when the peer ended it.
EndOfStreamIsFin ==
    \A c \in Readers : result[c] = "eof" => fin
=============================================================================

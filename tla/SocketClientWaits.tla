------------------------- MODULE SocketClientWaits --------------------------
(***************************************************************************)
(* Proofs about SocketClient, for any number of clients, any lengths and   *)
(* any bounds: a wait can be answered, no call leaves its waiter behind,   *)
(* and no select message is left over.                                     *)
(*                                                                         *)
(* The argument: a reference is at one place at a time.  Its request is in *)
(* the inbox, or its waiter in a slot, or its abort owed, or one message   *)
(* with it in the mailbox (SlotInv, OwedInv, MailInv, FreshInv), on top of *)
(* what SocketClientProofs proves of the inboxes.                          *)
(***************************************************************************)
EXTENDS SocketClientProofs

\* Most leaves are first-order and short: Zenon is asked first, then the SMT solver.
USE ZenonT(3), SMTT(20), ZenonT(30)

\* A waiter in place is a reference that was sent, in its own direction; its abort is
\* not owed.
SlotInv ==
    \A d \in Dirs : slot[d] # NoRef =>
        /\ Dir(slot[d].client) = d
        /\ slot[d].n <= req[slot[d].client]
        /\ slot[d] \notin owed

OwedInv == \A r \in owed : r.n <= req[r.client]

\* A reference with a message has no waiter in place, no abort owed, and no other
\* message.
MailInv ==
    \A c \in Clients : \A m \in mail[c] :
        /\ m.n <= req[c]
        /\ Ref(c, m.n) \notin owed
        /\ \A d \in Dirs : slot[d] # Ref(c, m.n)
        /\ \A k \in mail[c] : k.n = m.n => k = m

\* A request to move bytes that is not handled yet has no waiter, abort or message.
FreshInv ==
    \A c \in Clients : \A i \in 1..Len(inbox[c]) : inbox[c][i].op = "move" =>
        /\ Ref(c, inbox[c][i].n) \notin owed
        /\ \A d \in Dirs : slot[d] # Ref(c, inbox[c][i].n)
        /\ \A m \in mail[c] : m.n # inbox[c][i].n

PlaceInv == SlotInv /\ OwedInv /\ MailInv /\ FreshInv

WaitInv == WaitIsAnswerable /\ WaiterIsAwaited /\ LeftoverIsAbort

IInv == CallInv /\ PlaceInv /\ WaitInv

-----------------------------------------------------------------------------
(* Places *)

\* Every place keeps or drops its references, and new requests have new numbers.
LEMMA PlacesShrink ==
    ASSUME TypeOK, TypeOK', PlaceInv,
           \A d \in Dirs : slot'[d] \in {slot[d], NoRef},
           owed' \subseteq owed,
           \A c \in Clients : mail'[c] \subseteq mail[c] /\ req[c] <= req'[c],
           \A c \in Clients : \A i \in 1..Len(inbox'[c]) : inbox'[c][i].op = "move" =>
               \/ \E j \in 1..Len(inbox[c]) : inbox'[c][i] = inbox[c][j]
               \/ req[c] < inbox'[c][i].n
    PROVE  PlaceInv'
  <1>0. \A c \in Clients : req[c] \in Nat /\ req'[c] \in Nat
    BY DEF TypeOK
  <1>1. SlotInv'
    <2> SUFFICES ASSUME NEW d \in Dirs, slot'[d] # NoRef
                 PROVE  /\ Dir(slot'[d].client) = d
                        /\ slot'[d].n <= req'[slot'[d].client]
                        /\ slot'[d] \notin owed'
      BY DEF SlotInv
    <2>1. slot'[d] = slot[d] /\ slot[d] \in Refs
      BY DEF TypeOK
    <2>2. slot[d].client \in Clients /\ slot[d].n \in Nat
      BY <2>1 DEF Refs
    <2> QED
      BY <1>0, <2>1, <2>2 DEF PlaceInv, SlotInv
  <1>2. OwedInv'
    <2> SUFFICES ASSUME NEW r \in owed' PROVE r.n <= req'[r.client]
      BY DEF OwedInv
    <2>1. r \in owed
      OBVIOUS
    <2>2. r \in Refs
      BY <2>1 DEF TypeOK
    <2>3. r.client \in Clients /\ r.n \in Nat
      BY <2>2 DEF Refs
    <2> QED
      BY <1>0, <2>1, <2>3 DEF PlaceInv, OwedInv
  <1>3. MailInv'
    <2> SUFFICES ASSUME NEW c \in Clients, NEW m \in mail'[c]
                 PROVE  /\ m.n <= req'[c]
                        /\ Ref(c, m.n) \notin owed'
                        /\ \A d \in Dirs : slot'[d] # Ref(c, m.n)
                        /\ \A k \in mail'[c] : k.n = m.n => k = m
      BY DEF MailInv
    <2>1. m \in mail[c] /\ m.n \in 1..MaxRequests /\ m.n \in Nat
      BY MailType
    <2>2. Ref(c, m.n) # NoRef
      BY <2>1 DEF Ref, NoRef
    <2> QED
      BY <1>0, <2>1, <2>2 DEF PlaceInv, MailInv
  <1>4. FreshInv'
    <2> SUFFICES ASSUME NEW c \in Clients, NEW i \in 1..Len(inbox'[c]), inbox'[c][i].op = "move"
                 PROVE  /\ Ref(c, inbox'[c][i].n) \notin owed'
                        /\ \A d \in Dirs : slot'[d] # Ref(c, inbox'[c][i].n)
                        /\ \A m \in mail'[c] : m.n # inbox'[c][i].n
      BY DEF FreshInv
    <2> DEFINE n == inbox'[c][i].n
    <2>0. n \in Nat /\ n # 0
      <3>1. inbox' \in [Clients -> Seq(Requests)]
        BY DEF TypeOK
      <3> QED
        BY <3>1, InboxType
    <2>1. Ref(c, n) # NoRef
      BY <2>0 DEF Ref, NoRef
    <2>2. CASE \E j \in 1..Len(inbox[c]) : inbox'[c][i] = inbox[c][j]
      BY <2>1, <2>2 DEF PlaceInv, FreshInv
    <2>3. CASE req[c] < n
      <3>1. Ref(c, n) \notin owed
        BY <1>0, <2>0, <2>3 DEF PlaceInv, OwedInv, Ref
      <3>2. \A d \in Dirs : slot[d] # Ref(c, n)
        BY <1>0, <2>0, <2>1, <2>3 DEF PlaceInv, SlotInv, Ref
      <3>3. \A m \in mail[c] : m.n # n
        BY <1>0, <2>0, <2>3 DEF PlaceInv, MailInv
      <3> QED
        BY <2>1, <3>1, <3>2, <3>3
    <2> QED
      BY <2>2, <2>3
  <1> QED
    BY <1>1, <1>2, <1>3, <1>4 DEF PlaceInv

LEMMA RefEq ==
    /\ \A c, n : Ref(c, n).client = c /\ Ref(c, n).n = n
    /\ \A c, n, o, k : Ref(c, n) = Ref(o, k) => c = o /\ n = k
    /\ \A r \in Refs : r = Ref(r.client, r.n) /\ r.client \in Clients /\ r.n \in 1..MaxRequests
    /\ \A c \in Clients, n \in 1..MaxRequests : Ref(c, n) \in Refs
  BY DEF Ref, Refs

LEMMA DirType == \A c : Dir(c) \in Dirs
  BY DEF Dir, Dirs

\* What the inbox has after the owner took a request from it.
LEMMA TakenInbox ==
    ASSUME TypeOK, InboxInv, NEW c \in Clients, NEW op, Handle(c, op),
           NEW o \in Clients, NEW i \in 1..Len(inbox'[o])
    PROVE  \E j \in 1..Len(inbox[o]) :
               /\ inbox'[o][i] = inbox[o][j]
               /\ o = c => Head(inbox[c]).n < inbox[o][j].n
  <1>1. CASE o = c
    <2>1. inbox[c] \in Seq(Requests) /\ inbox[c] # <<>> /\ inbox'[c] = Tail(inbox[c])
      BY DEF Handle, TypeOK
    <2>2. inbox'[c][i] = inbox[c][i + 1] /\ i + 1 \in 1..Len(inbox[c])
      BY <1>1, <2>1, TailIndex
    <2>3. Head(inbox[c]) = inbox[c][1] /\ 1 \in 1..Len(inbox[c]) /\ 1 < i + 1
      BY <1>1, <2>1
    <2>4. inbox[c][1].n < inbox[c][i + 1].n
      BY <2>2, <2>3 DEF InboxInv, Ordered
    <2> QED
      BY <1>1, <2>2, <2>3, <2>4
  <1>2. CASE o # c
    <2>1. inbox'[o] = inbox[o]
      BY <1>2 DEF Handle, TypeOK
    <2> QED
      BY <1>2, <2>1
  <1> QED
    BY <1>1, <1>2

LEMMA ArmPlace ==
    ASSUME TypeOK, InboxInv, PlaceInv, NEW c \in Clients, NEW op, Handle(c, op),
           Arms(c, Head(inbox[c])), req' = req
    PROVE  PlaceInv'
  <1>1. PICK q : q = Head(inbox[c])
    OBVIOUS
  <1>2. /\ q = inbox[c][1] /\ 1 \in 1..Len(inbox[c]) /\ q.op = "move"
        /\ q.n \in 1..MaxRequests /\ q.n \in Nat
    <2>1. q = inbox[c][1] /\ 1 \in 1..Len(inbox[c]) /\ q \in Requests
      BY <1>1, HandleType
    <2> QED
      BY <1>1, <2>1 DEF Arms, Requests
  <1>3. /\ q.n <= req[c]
        /\ Ref(c, q.n) \notin owed
        /\ \A d \in Dirs : slot[d] # Ref(c, q.n)
        /\ \A m \in mail[c] : m.n # q.n
    BY <1>2 DEF InboxInv, Accounted, PlaceInv, FreshInv
  <1>4. /\ \A d \in Dirs : slot'[d] = IF d = Dir(c) THEN Ref(c, q.n) ELSE slot[d]
        /\ owed' = owed /\ mail' = mail
    BY <1>1 DEF Arms, TypeOK
  <1>5. SlotInv'
    BY <1>3, <1>4, RefEq DEF PlaceInv, SlotInv
  <1>6. OwedInv'
    BY <1>4 DEF PlaceInv, OwedInv
  <1>7. MailInv'
    <2>1. \A o \in Clients : \A m \in mail[o] : Ref(o, m.n) # Ref(c, q.n)
      BY <1>3, RefEq
    <2> QED
      BY <1>4, <2>1 DEF PlaceInv, MailInv
  <1>8. FreshInv'
    <2> SUFFICES ASSUME NEW o \in Clients, NEW i \in 1..Len(inbox'[o]), inbox'[o][i].op = "move"
                 PROVE  /\ Ref(o, inbox'[o][i].n) \notin owed'
                        /\ \A d \in Dirs : slot'[d] # Ref(o, inbox'[o][i].n)
                        /\ \A m \in mail'[o] : m.n # inbox'[o][i].n
      BY DEF FreshInv
    <2>1. PICK j \in 1..Len(inbox[o]) : /\ inbox'[o][i] = inbox[o][j]
                                        /\ o = c => q.n < inbox[o][j].n
      BY <1>1, TakenInbox
    <2>2. inbox[o][j].n \in Nat
      BY InboxType DEF TypeOK
    <2>3. Ref(o, inbox[o][j].n) # Ref(c, q.n)
      BY <1>2, <2>1, <2>2, RefEq
    <2> QED
      BY <1>4, <2>1, <2>3 DEF PlaceInv, FreshInv
  <1> QED
    BY <1>5, <1>6, <1>7, <1>8 DEF PlaceInv

\* References leave their slots and the aborts owed for mailboxes, one message each.
LEMMA PlacesDelivered ==
    ASSUME TypeOK, TypeOK', PlaceInv, req' = req,
           NEW kind \in {"select", "abort"}, NEW rs \in SUBSET Refs,
           \A r \in rs : r \in owed \/ \E d \in Dirs : slot[d] = r,
           owed' = owed \ rs,
           \A d \in Dirs : slot'[d] = IF slot[d] \in rs THEN NoRef ELSE slot[d],
           \A c \in Clients : mail'[c] = mail[c] \cup {Message(kind, r.n) : r \in {x \in rs : x.client = c}},
           \A c \in Clients : inbox'[c] \in {inbox[c], <<>>}
    PROVE  PlaceInv'
  <1>0. \A r \in rs : r.n <= req[r.client]
    BY NoRefNotRef DEF PlaceInv, SlotInv, OwedInv
  <1>1. SlotInv'
    BY DEF PlaceInv, SlotInv
  <1>2. OwedInv'
    BY DEF PlaceInv, OwedInv
  <1>3. MailInv'
    <2> SUFFICES ASSUME NEW c \in Clients, NEW m \in mail'[c]
                 PROVE  /\ m.n <= req[c]
                        /\ Ref(c, m.n) \notin owed'
                        /\ \A d \in Dirs : slot'[d] # Ref(c, m.n)
                        /\ \A k \in mail'[c] : k.n = m.n => k = m
      BY DEF MailInv
    <2>1. ASSUME NEW k \in mail'[c], k \notin mail[c]
          PROVE  Ref(c, k.n) \in rs /\ k = Message(kind, k.n)
      <3>1. PICK r \in rs : r.client = c /\ k = Message(kind, r.n)
        BY <2>1
      <3>2. k.n = r.n
        BY <3>1 DEF Message
      <3> QED
        BY <3>1, <3>2, RefEq
    <2>2. \A k \in mail[c] : Ref(c, k.n) \notin rs
      BY DEF PlaceInv, MailInv
    <2>3. \A k \in mail'[c] : k.n = m.n => k = m
      <3> SUFFICES ASSUME NEW k \in mail'[c], k.n = m.n PROVE k = m
        OBVIOUS
      <3>1. k \in mail[c] <=> m \in mail[c]
        BY <2>1, <2>2
      <3>2. CASE m \in mail[c]
        BY <3>1, <3>2 DEF PlaceInv, MailInv
      <3>3. CASE m \notin mail[c]
        BY <2>1, <3>1, <3>3
      <3> QED
        BY <3>2, <3>3
    <2>4. CASE m \in mail[c]
      <3>1. Ref(c, m.n) # NoRef
        BY <2>4, MailType DEF Ref, NoRef
      <3> QED
        BY <2>3, <2>4, <3>1 DEF PlaceInv, MailInv
    <2>5. CASE m \notin mail[c]
      <3>1. Ref(c, m.n) \in rs
        BY <2>1, <2>5
      <3>2. m.n <= req[c]
        BY <1>0, <3>1, RefEq
      <3>3. \A d \in Dirs : slot'[d] # Ref(c, m.n)
        BY <3>1, NoRefNotRef
      <3> QED
        BY <2>3, <3>1, <3>2, <3>3
    <2> QED
      BY <2>4, <2>5
  <1>4. FreshInv'
    <2> SUFFICES ASSUME NEW c \in Clients, NEW i \in 1..Len(inbox'[c]), inbox'[c][i].op = "move"
                 PROVE  /\ Ref(c, inbox'[c][i].n) \notin owed'
                        /\ \A d \in Dirs : slot'[d] # Ref(c, inbox'[c][i].n)
                        /\ \A m \in mail'[c] : m.n # inbox'[c][i].n
      BY DEF FreshInv
    <2>1. inbox'[c] = inbox[c] /\ i \in 1..Len(inbox[c])
      OBVIOUS
    <2> DEFINE n == inbox[c][i].n
    <2>2. /\ Ref(c, n) \notin owed
          /\ \A d \in Dirs : slot[d] # Ref(c, n)
          /\ \A m \in mail[c] : m.n # n
      BY <2>1 DEF PlaceInv, FreshInv
    <2>3. n \in 1..MaxRequests
      BY <2>1, InboxType DEF TypeOK
    <2>4. Ref(c, n) # NoRef /\ Ref(c, n) \notin rs
      BY <2>2, <2>3 DEF Ref, NoRef
    <2> HIDE DEF n
    <2>5. \A m \in mail'[c] : m.n # n
      <3> SUFFICES ASSUME NEW m \in mail'[c], m.n = n PROVE FALSE
        OBVIOUS
      <3>1. PICK r \in rs : r.client = c /\ m = Message(kind, r.n)
        BY <2>2
      <3>2. m.n = r.n
        BY <3>1 DEF Message
      <3> QED
        BY <2>4, <3>1, <3>2, RefEq
    <2> QED
      BY <2>1, <2>2, <2>4, <2>5 DEF n
  <1> QED
    BY <1>1, <1>2, <1>3, <1>4 DEF PlaceInv

\* Waiters are taken for their aborts.
LEMMA TakePlace ==
    ASSUME TypeOK, PlaceInv, NEW ds \in SUBSET Dirs, TakeWaiters(ds),
           UNCHANGED <<mail, inbox, req>>
    PROVE  PlaceInv'
  <1>1. \A d \in Dirs : slot'[d] = IF d \in ds THEN NoRef ELSE slot[d]
    BY DEF TakeWaiters
  <1>2. \A r \in owed' : r \in owed \/ (r # NoRef /\ \E d \in ds : slot[d] = r)
    BY DEF TakeWaiters
  <1>3. SlotInv'
    <2> SUFFICES ASSUME NEW d \in Dirs, slot'[d] # NoRef
                 PROVE  /\ Dir(slot[d].client) = d
                        /\ slot[d].n <= req[slot[d].client]
                        /\ slot[d] \notin owed'
      BY <1>1 DEF SlotInv
    <2>1. d \notin ds /\ slot[d] # NoRef
      BY <1>1
    <2>2. slot[d] \notin owed /\ Dir(slot[d].client) = d
      BY <2>1 DEF PlaceInv, SlotInv
    <2>3. \A e \in ds : slot[e] # NoRef => Dir(slot[e].client) = e
      BY DEF PlaceInv, SlotInv
    <2>4. slot[d] \notin owed'
      BY <1>2, <2>1, <2>2, <2>3
    <2> QED
      BY <2>1, <2>4 DEF PlaceInv, SlotInv
  <1>4. OwedInv'
    BY <1>2 DEF PlaceInv, OwedInv, SlotInv
  <1>5. MailInv'
    <2> SUFFICES ASSUME NEW c \in Clients, NEW m \in mail[c]
                 PROVE  /\ m.n <= req[c]
                        /\ Ref(c, m.n) \notin owed'
                        /\ \A d \in Dirs : slot'[d] # Ref(c, m.n)
                        /\ \A k \in mail[c] : k.n = m.n => k = m
      BY DEF MailInv
    <2>1. Ref(c, m.n) # NoRef
      BY MailType DEF Ref, NoRef
    <2> QED
      BY <1>1, <1>2, <2>1 DEF PlaceInv, MailInv
  <1>6. FreshInv'
    <2> SUFFICES ASSUME NEW c \in Clients, NEW i \in 1..Len(inbox[c]), inbox[c][i].op = "move"
                 PROVE  /\ Ref(c, inbox[c][i].n) \notin owed'
                        /\ \A d \in Dirs : slot'[d] # Ref(c, inbox[c][i].n)
                        /\ \A m \in mail[c] : m.n # inbox[c][i].n
      BY DEF FreshInv
    <2>1. inbox[c][i].n \in 1..MaxRequests
      BY InboxType DEF TypeOK
    <2>2. Ref(c, inbox[c][i].n) # NoRef
      BY <2>1 DEF Ref, NoRef
    <2> QED
      BY <1>1, <1>2, <2>2 DEF PlaceInv, FreshInv
  <1> QED
    BY <1>3, <1>4, <1>5, <1>6 DEF PlaceInv

\* What is in the inbox after a request was sent to it.
LEMMA SentInbox ==
    ASSUME TypeOK, NEW c \in Clients, NEW q, inbox' = [inbox EXCEPT ![c] = Append(@, q)],
           NEW o \in Clients, NEW i \in 1..Len(inbox'[o])
    PROVE  \/ \E j \in 1..Len(inbox[o]) : inbox'[o][i] = inbox[o][j]
           \/ o = c /\ inbox'[o][i] = q
  <1>1. CASE o = c
    <2>1. inbox[c] \in Seq(Requests) /\ inbox'[c] = Append(inbox[c], q)
      BY DEF TypeOK
    <2>2. CASE i <= Len(inbox[c])
      BY <1>1, <2>1, <2>2, AppendIndex
    <2>3. CASE ~(i <= Len(inbox[c]))
      BY <1>1, <2>1, <2>3, AppendIndex
    <2> QED
      BY <2>2, <2>3
  <1>2. CASE o # c
    BY <1>2 DEF TypeOK
  <1> QED
    BY <1>1, <1>2

\* A client's step: its mailbox may lose messages, and a new request has a new number.
LEMMA ClientPlace ==
    ASSUME TypeOK, TypeOK', PlaceInv, NEW c \in Clients,
           Client(c) \/ CallTimesOut(c) \/ Timeout(c) \/ \E n \in Lengths : Start(c, n)
    PROVE  PlaceInv'
  <1>1. UNCHANGED waitVars
    BY DEF Client, Retry, RetryTooLate, ReceiveAbort, ReceiveDown, CallFails, CallTimesOut,
           CallExits, Timeout, Start
  <1>2. \A o \in Clients : mail'[o] \subseteq mail[o]
    <2>1. UNCHANGED mail \/ \E ms : mail' = [mail EXCEPT ![c] = @ \ ms]
      BY DEF Client, Retry, RetryTooLate, ReceiveAbort, ReceiveDown, CallFails, CallTimesOut,
             CallExits, Timeout, Start, Drain
    <2> QED
      BY <2>1, ZenonT(60) DEF TypeOK
  <1>3. \/ UNCHANGED <<inbox, req>>
        \/ /\ req' = req
           /\ \E q : q.op = "cancel" /\ inbox' = [inbox EXCEPT ![c] = Append(@, q)]
        \/ \E n : Request(c, n)
    <2>1. CASE Retry(c)
      BY <2>1 DEF Retry, refVars
    <2>2. CASE RetryTooLate(c) \/ ReceiveAbort(c) \/ ReceiveDown(c)
      BY <2>2 DEF RetryTooLate, ReceiveAbort, ReceiveDown, refVars
    <2>3. CASE CallFails(c) \/ CallTimesOut(c)
      BY <2>3 DEF CallFails, CallTimesOut, CallExits
    <2>4. CASE Timeout(c)
      BY <2>4 DEF Timeout, refVars
    <2>5. CASE \E n \in Lengths : Start(c, n)
      BY <2>5 DEF Start
    <2> QED
      BY <2>1, <2>2, <2>3, <2>4, <2>5 DEF Client
  <1>4. \A o \in Clients : req[o] \in Nat
    BY DEF TypeOK
  <1>5. \A o \in Clients : req[o] <= req'[o]
    <2>1. req' = req \/ req' = [req EXCEPT ![c] = @ + 1]
      BY <1>3 DEF Request
    <2>2. \A o \in Clients : req'[o] \in {req[o], req[o] + 1}
      BY <2>1, ZenonT(60) DEF TypeOK
    <2> QED
      BY <1>4, <2>2
  <1>6. ASSUME NEW o \in Clients, NEW i \in 1..Len(inbox'[o]), inbox'[o][i].op = "move"
        PROVE  \/ \E j \in 1..Len(inbox[o]) : inbox'[o][i] = inbox[o][j]
               \/ req[o] < inbox'[o][i].n
    <2>1. CASE UNCHANGED inbox
      BY <2>1
    <2>2. CASE \E q : q.op = "cancel" /\ inbox' = [inbox EXCEPT ![c] = Append(@, q)]
      BY <1>6, <2>2, SentInbox
    <2>3. CASE \E n : Request(c, n)
      <3>1. PICK q : q.n = req[c] + 1 /\ inbox' = [inbox EXCEPT ![c] = Append(@, q)]
        BY <2>3 DEF Request
      <3> QED
        BY <1>4, <3>1, SentInbox
    <2> QED
      BY <1>3, <2>1, <2>2, <2>3
  <1>7. /\ \A d \in Dirs : slot'[d] \in {slot[d], NoRef}
        /\ owed' \subseteq owed
    BY <1>1 DEF waitVars
  <1> QED
    BY <1>2, <1>5, <1>6, <1>7, PlacesShrink

LEMMA OwnerPlace ==
    ASSUME TypeOK, TypeOK', InboxInv, PlaceInv, NEW c \in Clients, Owner(c)
    PROVE  PlaceInv'
  <1> DEFINE q == Head(inbox[c])
  <1>1. /\ Answers(c, q) \/ Arms(c, q) \/ Cancels(c, q)
        /\ Handle(c, q.op)
        /\ req' = req
    BY OwnerCases
  <1>2. CASE Arms(c, q)
    BY <1>1, <1>2, ArmPlace
  <1>3. CASE Answers(c, q) \/ Cancels(c, q)
    <2>1. \A d \in Dirs : slot'[d] \in {slot[d], NoRef}
      BY <1>3 DEF Answers, Cancels, waitVars, TypeOK
    <2>2. owed' \subseteq owed
      BY <1>3 DEF Answers, Cancels, waitVars
    <2>3. \A o \in Clients : mail'[o] \subseteq mail[o]
      <3>1. UNCHANGED mail \/ \E ms : mail' = [mail EXCEPT ![c] = @ \ ms]
        BY <1>3 DEF Answers, Cancels, Drain
      <3>2. mail \in [Clients -> SUBSET [kind : {"select", "abort"}, n : 1..MaxRequests]]
        BY DEF TypeOK
      <3> QED
        BY <3>1, <3>2
    <2>4. \A o \in Clients : req[o] <= req'[o]
      BY <1>1 DEF TypeOK
    <2>5. \A o \in Clients : \A i \in 1..Len(inbox'[o]) :
              \E j \in 1..Len(inbox[o]) : inbox'[o][i] = inbox[o][j]
      <3>1. PICK op : Handle(c, op)
        BY <1>1
      <3> QED
        BY <3>1, TakenInbox
    <2> QED
      BY <2>1, <2>2, <2>3, <2>4, <2>5, PlacesShrink
  <1> QED
    BY <1>1, <1>2, <1>3

LEMMA NotifyPlace ==
    ASSUME TypeOK, TypeOK', PlaceInv, NEW d \in Dirs, Notify(d)
    PROVE  PlaceInv'
  <1>1. slot[d] \in Refs /\ slot[d] # NoRef
    BY DEF Notify, TypeOK
  <1>2. PICK r \in Refs : r = slot[d]
    BY <1>1
  <1>3. \A e \in Dirs : slot[e] = r <=> e = d
    BY <1>1, <1>2 DEF PlaceInv, SlotInv
  <1>4. r \notin owed
    BY <1>1, <1>2 DEF PlaceInv, SlotInv
  <1>5. /\ \A e \in Dirs : slot'[e] = IF slot[e] \in {r} THEN NoRef ELSE slot[e]
        /\ owed' = owed \ {r}
        /\ req' = req /\ inbox' = inbox
    BY <1>3, <1>4 DEF Notify, TypeOK, callVars, refVars
  <1>6. ASSUME NEW c \in Clients
        PROVE  mail'[c] = mail[c] \cup {Message("select", x.n) : x \in {y \in {r} : y.client = c}}
    <2>1. mail' = [mail EXCEPT ![r.client] = @ \cup {Message("select", r.n)}]
      BY <1>2 DEF Notify
    <2>2. mail'[c] = IF c = r.client THEN mail[c] \cup {Message("select", r.n)} ELSE mail[c]
      BY <2>1 DEF TypeOK
    <2> QED
      BY <2>2
  <1>7. {r} \in SUBSET Refs /\ \A x \in {r} : x \in owed \/ \E e \in Dirs : slot[e] = x
    BY <1>2
  <1>8. \A c \in Clients : inbox'[c] \in {inbox[c], <<>>}
    BY <1>5
  <1> QED
    BY <1>5, <1>6, <1>7, <1>8, PlacesDelivered

LEMMA SendAbortPlace ==
    ASSUME TypeOK, TypeOK', PlaceInv, NEW r \in Refs, SendAbort(r)
    PROVE  PlaceInv'
  <1>1. r \in owed
    BY DEF SendAbort
  <1>2. \A e \in Dirs : slot[e] # r
    BY <1>1, NoRefNotRef DEF PlaceInv, SlotInv
  <1>3. /\ \A e \in Dirs : slot'[e] = IF slot[e] \in {r} THEN NoRef ELSE slot[e]
        /\ owed' = owed \ {r}
        /\ req' = req /\ inbox' = inbox
    BY <1>2 DEF SendAbort, callVars, refVars
  <1>4. ASSUME NEW c \in Clients
        PROVE  mail'[c] = mail[c] \cup {Message("abort", x.n) : x \in {y \in {r} : y.client = c}}
    <2>1. mail'[c] = IF c = r.client THEN mail[c] \cup {Message("abort", r.n)} ELSE mail[c]
      BY DEF SendAbort, TypeOK
    <2> QED
      BY <2>1
  <1>5. {r} \in SUBSET Refs /\ \A x \in {r} : x \in owed \/ \E e \in Dirs : slot[e] = x
    BY <1>1
  <1>6. \A c \in Clients : inbox'[c] \in {inbox[c], <<>>}
    BY <1>3
  <1> QED
    BY <1>3, <1>4, <1>5, <1>6, PlacesDelivered

LEMMA StopsPlace ==
    ASSUME TypeOK, TypeOK', PlaceInv, StackStops
    PROVE  PlaceInv'
  <1>1. PICK rs : rs = (owed \cup {slot[d] : d \in Dirs}) \ {NoRef}
    OBVIOUS
  <1>2. rs \in SUBSET Refs /\ \A r \in rs : r \in owed \/ \E d \in Dirs : slot[d] = r
    BY <1>1 DEF TypeOK
  <1>3. /\ owed' = owed \ rs
        /\ \A d \in Dirs : slot'[d] = IF slot[d] \in rs THEN NoRef ELSE slot[d]
        /\ req' = req
        /\ \A c \in Clients : inbox'[c] \in {inbox[c], <<>>}
    BY <1>1, NoRefNotRef DEF StackStops, OwnerGone, callVars, refVars, TypeOK
  <1>4. \A c \in Clients :
            mail'[c] = mail[c] \cup {Message("abort", r.n) : r \in {x \in rs : x.client = c}}
    BY <1>1 DEF StackStops
  <1> QED
    BY <1>2, <1>3, <1>4, PlacesDelivered

LEMMA PlaceStep ==
    ASSUME TypeOK, TypeOK', InboxInv, PlaceInv, Next
    PROVE  PlaceInv'
  <1>1. CASE \E c \in Clients : \/ Client(c) \/ CallTimesOut(c) \/ Timeout(c)
                                \/ \E n \in Lengths : Start(c, n)
    BY <1>1, ClientPlace
  <1>2. CASE \E c \in Clients : Owner(c)
    BY <1>2, OwnerPlace
  <1>3. CASE Delivery
    BY <1>3, NotifyPlace, SendAbortPlace DEF Delivery
  <1>4. CASE Peer
    <2>1. UNCHANGED <<slot, owed, mail, inbox, req>>
      BY <1>4
      DEF Peer, Arrive, Acknowledged, PeerFin, PeerReset, UserTimeout, callVars, refVars
    <2> QED
      BY <2>1 DEF PlaceInv, SlotInv, OwedInv, MailInv, FreshInv
  <1>5. CASE Others
    <2>1. CASE StackKilled
      <3>1. /\ \A d \in Dirs : slot'[d] = NoRef
            /\ owed' = {} /\ mail' = mail /\ req' = req
            /\ \A c \in Clients : inbox'[c] = <<>>
        BY <2>1 DEF StackKilled, OwnerGone, callVars, refVars
      <3>2. \A c \in Clients : mail'[c] \subseteq mail[c] /\ req[c] <= req'[c]
        BY <3>1 DEF TypeOK
      <3> QED
        BY <3>1, <3>2, PlacesShrink
    <2>2. CASE CloseCall \/ \E ds \in SUBSET Dirs : ShutdownCall(ds)
      <3>1. PICK ds \in SUBSET Dirs : TakeWaiters(ds)
        BY <2>2 DEF CloseCall, ShutdownCall
      <3>2. UNCHANGED <<mail, inbox, req>>
        BY <2>2 DEF CloseCall, ShutdownCall, callVars, refVars
      <3> QED
        BY <3>1, <3>2, TakePlace
    <2> QED
      BY <1>5, <2>1, <2>2, StopsPlace DEF Others
  <1> QED
    BY <1>1, <1>2, <1>3, <1>4, <1>5 DEF Next

-----------------------------------------------------------------------------
(* Waits *)

\* A step of the client c that leaves it not waiting: the waiter and the messages of
\* the reference it waited for are gone, or given up, or it is cancelling it.
LEMMA ClientWait ==
    ASSUME TypeOK, WaitInv, NEW c \in Clients,
           UNCHANGED <<slot, owed>>, late \subseteq late', downed \ {c} \subseteq downed',
           \A o \in Clients \ {c} : pc'[o] = pc[o] /\ req'[o] = req[o] /\ mail'[o] = mail[o],
           pc'[c] # "waiting",
           mail'[c] \subseteq mail[c],
           \/ /\ \A d \in Dirs : slot[d] = Ref(c, req[c]) => slot[d] \in late' \cup {NoRef}
              /\ \A m \in mail'[c] : m.n = req[c] => m.kind = "abort" \/ Ref(c, m.n) \in late'
           \/ pc'[c] = "cancelling" /\ req'[c] = req[c]
    PROVE  WaitInv'
  <1>1. WaitIsAnswerable'
    <2> SUFFICES ASSUME NEW o \in Clients, pc'[o] = "waiting"
                 PROVE  \/ slot'[Dir(o)] = Ref(o, req'[o])
                        \/ Ref(o, req'[o]) \in owed'
                        \/ Matching(o)' # {}
                        \/ o \in downed'
      BY DEF WaitIsAnswerable
    <2>1. o # c
      OBVIOUS
    <2>2. Matching(o)' = Matching(o)
      BY <2>1 DEF Matching
    <2> QED
      BY <2>1, <2>2 DEF WaitInv, WaitIsAnswerable
  <1>2. WaiterIsAwaited'
    <2> SUFFICES ASSUME NEW d \in Dirs, slot[d] # NoRef
                 PROVE  \/ /\ slot[d] = Ref(slot[d].client, req'[slot[d].client])
                           /\ pc'[slot[d].client] \in {"waiting", "cancelling"}
                        \/ slot[d] \in late'
      BY DEF WaiterIsAwaited
    <2>1. slot[d].client \in Clients
      BY RefEq DEF TypeOK
    <2> QED
      BY <2>1 DEF WaitInv, WaiterIsAwaited
  <1>3. LeftoverIsAbort'
    BY DEF WaitInv, LeftoverIsAbort
  <1> QED
    BY <1>1, <1>2, <1>3 DEF WaitInv

LEMMA AliveNotDowned ==
    ASSUME GoneInv, alive
    PROVE  downed = {}
  BY DEF GoneInv

\* The message a client waits for is the only trace of its reference.
LEMMA MessageIsAlone ==
    ASSUME PlaceInv, NEW c \in Clients, NEW kind, Message(kind, req[c]) \in mail[c]
    PROVE  /\ \A d \in Dirs : slot[d] # Ref(c, req[c])
           /\ \A m \in mail[c] : m.n = req[c] => m = Message(kind, req[c])
  <1>1. Message(kind, req[c]).n = req[c]
    BY DEF Message
  <1> QED
    BY <1>1 DEF PlaceInv, MailInv

LEMMA ClientWaits ==
    ASSUME TypeOK, InboxInv, GoneInv, PlaceInv, WaitInv, NEW c \in Clients,
           Client(c) \/ CallTimesOut(c) \/ Timeout(c) \/ \E n \in Lengths : Start(c, n)
    PROVE  WaitInv'
  <1>0. UNCHANGED <<slot, owed>> /\ late \subseteq late'
    BY DEF Client, Retry, RetryTooLate, ReceiveAbort, ReceiveDown, CallFails, CallTimesOut,
           CallExits, Timeout, Start, waitVars, refVars
  <1>1. downed \ {c} \subseteq downed'
    BY DEF Client, Retry, RetryTooLate, ReceiveAbort, ReceiveDown, CallFails, CallTimesOut,
           CallExits, Timeout, Start, Return
  <1>2. \A o \in Clients \ {c} : pc'[o] = pc[o] /\ req'[o] = req[o]
    BY DEF Client, Retry, RetryTooLate, ReceiveAbort, ReceiveDown, CallFails, CallTimesOut,
           CallExits, Timeout, Start, Request, Return, refVars, TypeOK
  <1>3. /\ mail'[c] \subseteq mail[c]
        /\ \A o \in Clients \ {c} : mail'[o] = mail[o]
    <2>1. UNCHANGED mail \/ \E ms : mail' = [mail EXCEPT ![c] = @ \ ms]
      BY DEF Client, Retry, RetryTooLate, ReceiveAbort, ReceiveDown, CallFails, CallTimesOut,
             CallExits, Timeout, Start, Drain
    <2> QED
      BY <2>1 DEF TypeOK
  <1>4. pc'[c] # "waiting"
    BY DEF Client, Retry, RetryTooLate, ReceiveAbort, ReceiveDown, CallFails, CallTimesOut,
           CallExits, Timeout, Start, Request, Return, TypeOK
  <1>5. \A d \in Dirs : slot[d] = Ref(c, req[c]) =>
            slot[d] \in late \cup {NoRef} \/ pc[c] \in {"waiting", "cancelling"}
    BY RefEq DEF WaitInv, WaiterIsAwaited
  <1>6. \A m \in mail[c] : m.n = req[c] =>
            m.kind = "abort" \/ Ref(c, m.n) \in late \/ pc[c] \in {"waiting", "cancelling"}
    BY DEF WaitInv, LeftoverIsAbort
  <1>7. CASE pc[c] \in {"idle", "calling"}
    BY <1>0, <1>1, <1>2, <1>3, <1>4, <1>5, <1>6, <1>7, ClientWait
  <1>8. CASE pc[c] = "waiting"
    <2>1. CASE Timeout(c)
      <3>1. pc'[c] = "cancelling" /\ req'[c] = req[c]
        BY <2>1 DEF Timeout, refVars, TypeOK
      <3> QED
        BY <1>0, <1>1, <1>2, <1>3, <1>4, <3>1, ClientWait
    <2>2. CASE ReceiveDown(c)
      <3>1. \A d \in Dirs : slot[d] = NoRef
        BY <2>2 DEF ReceiveDown, GoneInv
      <3>2. \A m \in mail[c] : m.n # req[c]
        BY <2>2 DEF ReceiveDown, Matching
      <3> QED
        BY <1>0, <1>1, <1>2, <1>3, <1>4, <3>1, <3>2, ClientWait
    <2>3. CASE Retry(c) \/ RetryTooLate(c) \/ ReceiveAbort(c)
      <3>1. PICK kind : /\ Message(kind, req[c]) \in mail[c]
                        /\ mail' = [mail EXCEPT ![c] = @ \ {Message(kind, req[c])}]
        BY <2>3 DEF Retry, RetryTooLate, ReceiveAbort
      <3>2. Message(kind, req[c]) \notin mail'[c]
        BY <3>1 DEF TypeOK
      <3>3. \A d \in Dirs : slot[d] # Ref(c, req[c])
        BY <3>1, MessageIsAlone
      <3>4. \A m \in mail'[c] : m.n # req[c]
        BY <1>3, <3>1, <3>2, MessageIsAlone
      <3> QED
        BY <1>0, <1>1, <1>2, <1>3, <1>4, <3>3, <3>4, ClientWait
    <2>4. ~(CallFails(c) \/ CallTimesOut(c) \/ \E n \in Lengths : Start(c, n))
      BY <1>8 DEF CallFails, CallTimesOut, CallExits, Start
    <2> QED
      BY <2>1, <2>2, <2>3, <2>4 DEF Client
  <1>9. CASE pc[c] = "cancelling"
    <2>1. CallFails(c) \/ CallTimesOut(c)
      BY <1>9 DEF Client, Retry, RetryTooLate, ReceiveAbort, ReceiveDown, Timeout, Start
    <2>2. \A d \in Dirs : slot[d] = Ref(c, req[c]) => slot[d] \in late' \cup {NoRef}
      BY <2>1 DEF CallFails, CallTimesOut, GoneInv
    <2>3. Drain(c)
      BY <1>9, <2>1 DEF CallFails, CallTimesOut, CallExits
    <2>4. \A m \in mail'[c] : m.n # req[c]
      BY <2>3 DEF Drain, Matching, TypeOK
    <2> QED
      BY <1>0, <1>1, <1>2, <1>3, <1>4, <2>2, <2>4, ClientWait
  <1> QED
    BY <1>7, <1>8, <1>9 DEF TypeOK

LEMMA CallingSent ==
    ASSUME TypeOK, SentInv, NEW c \in Clients, pc[c] # "idle"
    PROVE  req[c] \in 1..MaxRequests /\ req[c] # 0 /\ Ref(c, req[c]) # NoRef
  <1>1. req[c] \in 1..MaxRequests
    BY DEF SentInv, TypeOK
  <1> QED
    BY <1>1 DEF Ref, NoRef

LEMMA OwnerWaits ==
    ASSUME TypeOK, SentInv, InboxInv, GoneInv, PlaceInv, WaitInv, NEW c \in Clients, Owner(c)
    PROVE  WaitInv'
  <1>1. PICK q : q = Head(inbox[c])
    OBVIOUS
  <1>2. /\ Answers(c, q) \/ Arms(c, q) \/ Cancels(c, q)
        /\ alive /\ Handle(c, q.op)
        /\ UNCHANGED <<open, alive, req, late>>
    BY <1>1, OwnerCases
  <1>3. /\ q = inbox[c][1] /\ 1 \in 1..Len(inbox[c]) /\ q.n \in 1..MaxRequests /\ q.n \in Nat
        /\ Ref(c, q.n) \in Refs
    <2>1. q \in Requests /\ q = inbox[c][1] /\ 1 \in 1..Len(inbox[c])
      BY <1>1, <1>2, HandleType
    <2> QED
      BY <2>1, RefType DEF Requests
  <1>4. ~Awaited(c, q) => Ref(c, q.n) \in late /\ (q.n < req[c] \/ pc[c] = "idle")
    BY <1>3 DEF InboxInv, Accounted
  <1>5. Dir(c) \in Dirs /\ req[c] \in Nat /\ downed = {}
    BY <1>2, DirType, AliveNotDowned DEF TypeOK
  <1>6. \A o \in Clients \ {c} : pc'[o] = pc[o] /\ mail'[o] = mail[o]
    BY <1>2 DEF Answers, Arms, Cancels, Drain, TypeOK
  <1>7. owed' = owed
    BY <1>2 DEF Answers, Arms, Cancels, waitVars
  <1>8. \/ slot' = slot /\ q.op = "move"
        \/ slot[Dir(c)] = NoRef /\ slot' = [slot EXCEPT ![Dir(c)] = Ref(c, q.n)] /\ Arms(c, q)
        \/ /\ slot' = IF open /\ slot[Dir(c)] = Ref(c, q.n) THEN [slot EXCEPT ![Dir(c)] = NoRef]
                      ELSE slot
           /\ Cancels(c, q)
    BY <1>2 DEF Answers, Arms, Cancels, waitVars
  <1>9. \A d \in Dirs : slot'[d] \in {slot[d], NoRef, Ref(c, q.n)}
    BY <1>8 DEF TypeOK
  <1>10. WaitIsAnswerable'
    <2> SUFFICES ASSUME NEW o \in Clients, pc'[o] = "waiting"
                 PROVE  \/ slot'[Dir(o)] = Ref(o, req[o])
                        \/ Ref(o, req[o]) \in owed
                        \/ Matching(o)' # {}
      BY <1>2, <1>7 DEF WaitIsAnswerable
    <2>0. Dir(o) \in Dirs
      BY DirType
    <2>1. CASE o # c
      <3>1. Matching(o)' = Matching(o)
        BY <1>2, <1>6, <2>1 DEF Matching
      <3>2. slot[Dir(o)] = Ref(o, req[o]) => slot'[Dir(o)] = Ref(o, req[o]) \/ Ref(o, req[o]) = NoRef
        BY <1>8, <2>0, <2>1, RefEq DEF TypeOK
      <3>3. pc[o] = "waiting"
        BY <1>6, <2>1
      <3>4. req[o] # 0
        BY <3>3, CallingSent
      <3>5. Ref(o, req[o]) # NoRef
        BY <3>4 DEF Ref, NoRef
      <3> QED
        BY <1>5, <3>1, <3>2, <3>3, <3>5 DEF WaitInv, WaitIsAnswerable
    <2>2. CASE o = c
      <3>1. CASE Awaited(c, q)
        <4>1. Arms(c, q)
          BY <1>2, <2>2, <3>1 DEF Answers, Cancels, TypeOK
        <4>2. slot'[Dir(c)] = Ref(c, req[c])
          BY <1>5, <3>1, <4>1 DEF Arms, Awaited, TypeOK
        <4> QED
          BY <2>2, <4>2
      <3>2. CASE ~Awaited(c, q)
        <4>1. pc[c] = "waiting" /\ mail' = mail
          BY <1>2, <2>2, <3>2 DEF Answers, Arms, Cancels
        <4>2. q.n < req[c] /\ req[c] # 0
          BY <1>4, <3>2, <4>1, CallingSent
        <4>3. Ref(c, q.n) # Ref(c, req[c]) /\ Ref(c, req[c]) # NoRef
          BY <1>3, <1>5, <4>2, RefEq DEF Ref, NoRef
        <4>4. slot[Dir(c)] = Ref(c, req[c]) => slot'[Dir(c)] = Ref(c, req[c])
          BY <1>8, <4>3
        <4>5. Matching(c)' = Matching(c)
          BY <1>2, <4>1 DEF Matching
        <4> QED
          BY <1>5, <2>2, <4>1, <4>4, <4>5 DEF WaitInv, WaitIsAnswerable
      <3> QED
        BY <3>1, <3>2
    <2> QED
      BY <2>1, <2>2
  <1>11. WaiterIsAwaited'
    <2> SUFFICES ASSUME NEW d \in Dirs, slot'[d] # NoRef
                 PROVE  \/ /\ slot'[d] = Ref(slot'[d].client, req[slot'[d].client])
                           /\ pc'[slot'[d].client] \in {"waiting", "cancelling"}
                        \/ slot'[d] \in late
      BY <1>2 DEF WaiterIsAwaited
    <2>1. CASE slot'[d] = slot[d]
      <3>1. PICK o : o = slot[d].client
        OBVIOUS
      <3>2. o \in Clients /\ d = Dir(o)
        BY <2>1, <3>1, RefEq DEF TypeOK, PlaceInv, SlotInv
      <3>3. \/ slot[d] = Ref(o, req[o]) /\ pc[o] \in {"waiting", "cancelling"}
            \/ slot[d] \in late
        BY <2>1, <3>1 DEF WaitInv, WaiterIsAwaited
      <3>4. CASE o # c
        BY <1>6, <2>1, <3>1, <3>2, <3>3, <3>4
      <3>5. CASE o = c /\ ~Awaited(c, q)
        <4>1. pc' = pc
          BY <1>2, <3>5 DEF Answers, Arms, Cancels
        <4> QED
          BY <2>1, <3>1, <3>3, <4>1
      <3>6. CASE o = c /\ Awaited(c, q) /\ slot[d] \notin late
        <4>1. pc[c] = "cancelling" /\ q.n = req[c] /\ q.op # "move"
          BY <3>3, <3>6 DEF Awaited
        <4>2. open
          BY <2>1 DEF GoneInv
        <4>3. Cancels(c, q) /\ slot[Dir(c)] = Ref(c, q.n)
          BY <1>2, <3>2, <3>3, <3>6, <4>1 DEF Answers, Arms
        <4>4. slot'[Dir(c)] = NoRef
          BY <1>5, <4>2, <4>3 DEF Cancels, TypeOK
        <4> QED
          BY <3>2, <3>6, <4>4
      <3> QED
        BY <2>1, <3>4, <3>5, <3>6
    <2>2. CASE slot'[d] # slot[d]
      <3>1. Arms(c, q) /\ slot'[d] = Ref(c, q.n)
        BY <1>8, <2>2 DEF TypeOK
      <3>2. slot'[d].client = c
        BY <3>1, RefEq
      <3>3. CASE Awaited(c, q)
        BY <3>1, <3>2, <3>3 DEF Arms, Awaited, TypeOK
      <3>4. CASE ~Awaited(c, q)
        BY <1>4, <3>1, <3>4
      <3> QED
        BY <3>3, <3>4
    <2> QED
      BY <2>1, <2>2
  <1>12. LeftoverIsAbort'
    <2> SUFFICES ASSUME NEW o \in Clients, NEW m \in mail'[o]
                 PROVE  \/ m.kind = "abort"
                        \/ m.n = req[o] /\ pc'[o] \in {"waiting", "cancelling"}
                        \/ Ref(o, m.n) \in late
      BY <1>2 DEF LeftoverIsAbort
    <2>1. CASE o # c
      BY <1>6, <2>1 DEF WaitInv, LeftoverIsAbort
    <2>2. CASE o = c /\ ~Awaited(c, q)
      <3>1. pc' = pc /\ mail' = mail
        BY <1>2, <2>2 DEF Answers, Arms, Cancels
      <3> QED
        BY <3>1 DEF WaitInv, LeftoverIsAbort
    <2>3. CASE o = c /\ Awaited(c, q)
      <3>1. CASE Answers(c, q) \/ Arms(c, q)
        <4>1. pc[c] = "calling" /\ mail' = mail
          BY <2>3, <3>1 DEF Answers, Arms, Awaited
        <4> QED
          BY <2>3, <4>1 DEF WaitInv, LeftoverIsAbort
      <3>2. CASE Cancels(c, q)
        <4>1. Drain(c)
          BY <2>3, <3>2 DEF Cancels
        <4>2. m \in mail[c] /\ m.n # req[c]
          BY <2>3, <4>1 DEF Drain, Matching, TypeOK
        <4> QED
          BY <2>3, <4>2 DEF WaitInv, LeftoverIsAbort
      <3> QED
        BY <1>2, <3>1, <3>2
    <2> QED
      BY <2>1, <2>2, <2>3
  <1> QED
    BY <1>10, <1>11, <1>12 DEF WaitInv

LEMMA NotifyWaits ==
    ASSUME TypeOK, SentInv, PlaceInv, WaitInv, NEW d \in Dirs, Notify(d)
    PROVE  WaitInv'
  <1>1. PICK c, n : c = slot[d].client /\ n = slot[d].n
    OBVIOUS
  <1>2. slot[d] # NoRef /\ slot[d] = Ref(c, n) /\ c \in Clients
    BY <1>1, RefEq DEF Notify, TypeOK
  <1>3. /\ slot' = [slot EXCEPT ![d] = NoRef]
        /\ UNCHANGED <<owed, downed, pc, req, late>>
    BY DEF Notify, callVars, refVars
  <1>4. \A o \in Clients :
            mail'[o] = IF o = c THEN mail[o] \cup {Message("select", n)} ELSE mail[o]
    BY <1>1, <1>2 DEF Notify, TypeOK
  <1>5. \/ n = req[c] /\ pc[c] \in {"waiting", "cancelling"}
        \/ Ref(c, n) \in late
    <2>1. \/ slot[d] = Ref(c, req[c]) /\ pc[c] \in {"waiting", "cancelling"}
          \/ slot[d] \in late
      BY <1>1, <1>2 DEF WaitInv, WaiterIsAwaited
    <2> QED
      BY <1>2, <2>1, RefEq
  <1>6. Message("select", n).n = n
    BY DEF Message
  <1>7. WaitIsAnswerable'
    <2> SUFFICES ASSUME NEW o \in Clients, pc[o] = "waiting"
                 PROVE  \/ slot'[Dir(o)] = Ref(o, req[o])
                        \/ Ref(o, req[o]) \in owed
                        \/ Matching(o)' # {}
                        \/ o \in downed
      BY <1>3 DEF WaitIsAnswerable
    <2>0. Dir(o) \in Dirs
      BY DirType
    <2>1. CASE slot[Dir(o)] = Ref(o, req[o]) /\ Dir(o) = d
      <3>1. o = c /\ n = req[c]
        BY <1>2, <2>1, RefEq
      <3>2. Message("select", n) \in mail'[o]
        BY <1>4, <3>1
      <3> QED
        BY <1>3, <1>6, <3>1, <3>2 DEF Matching
    <2>2. CASE slot[Dir(o)] = Ref(o, req[o]) /\ Dir(o) # d
      BY <1>3, <2>0, <2>2 DEF TypeOK
    <2>3. CASE Matching(o) # {}
      BY <1>3, <1>4, <2>3 DEF Matching
    <2> QED
      BY <2>1, <2>2, <2>3 DEF WaitInv, WaitIsAnswerable
  <1>8. WaiterIsAwaited'
    BY <1>3 DEF WaitInv, WaiterIsAwaited, TypeOK
  <1>9. LeftoverIsAbort'
    BY <1>3, <1>4, <1>5, <1>6 DEF WaitInv, LeftoverIsAbort
  <1> QED
    BY <1>7, <1>8, <1>9 DEF WaitInv

LEMMA SendAbortWaits ==
    ASSUME TypeOK, WaitInv, NEW r \in Refs, SendAbort(r)
    PROVE  WaitInv'
  <1>1. PICK c, n : c = r.client /\ n = r.n
    OBVIOUS
  <1>2. r = Ref(c, n) /\ c \in Clients
    BY <1>1, RefEq
  <1>3. owed' = owed \ {r} /\ UNCHANGED <<slot, downed, pc, req, late>>
    BY DEF SendAbort, callVars, refVars
  <1>4. \A o \in Clients :
            mail'[o] = IF o = c THEN mail[o] \cup {Message("abort", n)} ELSE mail[o]
    BY <1>1, <1>2 DEF SendAbort, TypeOK
  <1>5. Message("abort", n).n = n /\ Message("abort", n).kind = "abort"
    BY DEF Message
  <1>6. WaitIsAnswerable'
    <2> SUFFICES ASSUME NEW o \in Clients, pc[o] = "waiting"
                 PROVE  \/ slot[Dir(o)] = Ref(o, req[o])
                        \/ Ref(o, req[o]) \in owed'
                        \/ Matching(o)' # {}
                        \/ o \in downed
      BY <1>3 DEF WaitIsAnswerable
    <2>1. CASE Ref(o, req[o]) = r
      <3>1. o = c /\ n = req[c]
        BY <1>2, <2>1, RefEq
      <3>2. Message("abort", n) \in mail'[o]
        BY <1>4, <3>1
      <3> QED
        BY <1>3, <1>5, <3>1, <3>2 DEF Matching
    <2>2. CASE Matching(o) # {}
      BY <1>3, <1>4, <2>2 DEF Matching
    <2> QED
      BY <1>3, <2>1, <2>2 DEF WaitInv, WaitIsAnswerable
  <1>7. WaiterIsAwaited'
    BY <1>3 DEF WaitInv, WaiterIsAwaited
  <1>8. LeftoverIsAbort'
    BY <1>3, <1>4, <1>5 DEF WaitInv, LeftoverIsAbort
  <1> QED
    BY <1>6, <1>7, <1>8 DEF WaitInv

LEMMA TakeWaits ==
    ASSUME TypeOK, SentInv, WaitInv, NEW ds \in SUBSET Dirs, TakeWaiters(ds),
           UNCHANGED <<mail, downed, pc, req, late>>
    PROVE  WaitInv'
  <1>1. \A d \in Dirs : slot'[d] = IF d \in ds THEN NoRef ELSE slot[d]
    BY DEF TakeWaiters
  <1>2. \A r : r \in owed \/ (r # NoRef /\ \E d \in ds : slot[d] = r) => r \in owed'
    BY NoRefNotRef DEF TakeWaiters, TypeOK
  <1>3. WaitIsAnswerable'
    <2> SUFFICES ASSUME NEW o \in Clients, pc[o] = "waiting"
                 PROVE  \/ slot'[Dir(o)] = Ref(o, req[o])
                        \/ Ref(o, req[o]) \in owed'
                        \/ Matching(o) # {}
                        \/ o \in downed
      BY DEF WaitIsAnswerable, Matching
    <2>1. Dir(o) \in Dirs /\ Ref(o, req[o]) # NoRef
      BY DirType, CallingSent
    <2> QED
      BY <1>1, <1>2, <2>1 DEF WaitInv, WaitIsAnswerable
  <1>4. WaiterIsAwaited'
    BY <1>1 DEF WaitInv, WaiterIsAwaited
  <1>5. LeftoverIsAbort'
    BY DEF WaitInv, LeftoverIsAbort
  <1> QED
    BY <1>3, <1>4, <1>5 DEF WaitInv

LEMMA GoneWaits ==
    ASSUME TypeOK, WaitInv, OwnerGone,
           \A c \in Clients : \A m \in mail'[c] : m \in mail[c] \/ m.kind = "abort"
    PROVE  WaitInv'
  <1>1. /\ \A d \in Dirs : slot'[d] = NoRef
        /\ downed' = {c \in Clients : pc[c] # "idle"}
        /\ UNCHANGED <<pc, req, late>>
    BY DEF OwnerGone, callVars, refVars
  <1>2. WaitIsAnswerable'
    BY <1>1 DEF WaitIsAnswerable
  <1>3. WaiterIsAwaited'
    BY <1>1 DEF WaiterIsAwaited
  <1>4. LeftoverIsAbort'
    BY <1>1 DEF WaitInv, LeftoverIsAbort
  <1> QED
    BY <1>2, <1>3, <1>4 DEF WaitInv

LEMMA WaitStep ==
    ASSUME TypeOK, SentInv, InboxInv, GoneInv, PlaceInv, WaitInv, Next
    PROVE  WaitInv'
  <1>1. CASE \E c \in Clients : \/ Client(c) \/ CallTimesOut(c) \/ Timeout(c)
                                \/ \E n \in Lengths : Start(c, n)
    BY <1>1, ClientWaits
  <1>2. CASE \E c \in Clients : Owner(c)
    BY <1>2, OwnerWaits
  <1>3. CASE Delivery
    BY <1>3, NotifyWaits, SendAbortWaits DEF Delivery
  <1>4. CASE Peer
    <2>1. UNCHANGED <<slot, owed, mail, downed, pc, req, late>>
      BY <1>4
      DEF Peer, Arrive, Acknowledged, PeerFin, PeerReset, UserTimeout, callVars, refVars
    <2> QED
      BY <2>1 DEF WaitInv, WaitIsAnswerable, WaiterIsAwaited, LeftoverIsAbort, Matching
  <1>5. CASE Others
    <2>1. CASE StackKilled
      BY <2>1, GoneWaits DEF StackKilled
    <2>2. CASE StackStops
      <3>1. \A c \in Clients : \A m \in mail'[c] : m \in mail[c] \/ m.kind = "abort"
        BY <2>2 DEF StackStops, Message
      <3> QED
        BY <2>2, <3>1, GoneWaits DEF StackStops
    <2>3. CASE CloseCall \/ \E ds \in SUBSET Dirs : ShutdownCall(ds)
      <3>1. PICK ds \in SUBSET Dirs : TakeWaiters(ds)
        BY <2>3 DEF CloseCall, ShutdownCall
      <3>2. UNCHANGED <<mail, downed, pc, req, late>>
        BY <2>3 DEF CloseCall, ShutdownCall, callVars, refVars
      <3> QED
        BY <3>1, <3>2, TakeWaits
    <2> QED
      BY <1>5, <2>1, <2>2, <2>3 DEF Others
  <1> QED
    BY <1>1, <1>2, <1>3, <1>4, <1>5 DEF Next

-----------------------------------------------------------------------------
(* The theorems *)

LEMMA InitInv == Init => IInv
  <1> SUFFICES ASSUME Init PROVE IInv
    OBVIOUS
  <1>1. PlaceInv
    BY DEF Init, PlaceInv, SlotInv, OwedInv, MailInv, FreshInv
  <1>2. WaitInv
    BY DEF Init, WaitInv, WaitIsAnswerable, WaiterIsAwaited, LeftoverIsAbort
  <1> QED
    BY <1>1, <1>2, CallInit DEF IInv

LEMMA NextInv == IInv /\ [Next]_vars => IInv'
  <1> SUFFICES ASSUME IInv, [Next]_vars PROVE IInv'
    OBVIOUS
  <1>1. CallInv /\ CallInv'
    BY CallStep DEF IInv
  <1>2. CASE Next
    <2>1. /\ TypeOK /\ TypeOK' /\ SentInv /\ InboxInv /\ GoneInv
          /\ PlaceInv /\ WaitInv
      BY <1>1 DEF IInv, CallInv
    <2>2. PlaceInv'
      BY <1>2, <2>1, PlaceStep
    <2>3. WaitInv'
      BY <1>2, <2>1, WaitStep
    <2> QED
      BY <1>1, <2>2, <2>3 DEF IInv
  <1>3. CASE UNCHANGED vars
    <2> USE <1>3
        DEF vars, connVars, byteVars, waitVars, refVars, callVars, doneVars, IInv
    <2>1. PlaceInv'
      BY DEF PlaceInv, SlotInv, OwedInv, MailInv, FreshInv
    <2>2. WaitInv'
      BY DEF WaitInv, WaitIsAnswerable, WaiterIsAwaited, LeftoverIsAbort, Matching
    <2> QED
      BY <1>1, <2>1, <2>2
  <1> QED
    BY <1>2, <1>3

\* The inductive invariant holds for any clients, any lengths and any bounds.
THEOREM ClientInvariant == Spec => []IInv
  BY InitInv, NextInv, PTL DEF Spec

\* A client that waits is answered by the waiter in place, an abort owed, a message
\* or the monitor: recv and send never wait for what nobody will send.
THEOREM WaitsAnswerable == Spec => []WaitIsAnswerable
  <1>1. IInv => WaitIsAnswerable
    BY DEF IInv, WaitInv
  <1> QED
    BY <1>1, ClientInvariant, PTL

\* A waiter in place belongs to a call that waits for it or is cancelling it, or one
\* given up in the owner's mailbox: a call that returned does not leave the socket
\* busy.
THEOREM WaitersAwaited == Spec => []WaiterIsAwaited
  <1>1. IInv => WaiterIsAwaited
    BY DEF IInv, WaitInv
  <1> QED
    BY <1>1, ClientInvariant, PTL

\* The cancel and its drain leave no select message in the mailbox.
THEOREM OnlyAbortsLeft == Spec => []LeftoverIsAbort
  <1>1. IInv => LeftoverIsAbort
    BY DEF IInv, WaitInv
  <1> QED
    BY <1>1, ClientInvariant, PTL

=============================================================================

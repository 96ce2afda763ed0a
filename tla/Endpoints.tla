----------------------------- MODULE Endpoints ------------------------------
(***************************************************************************)
(* Ports, connections and how a connection ends (stack.rs, tcp.rs): which  *)
(* socket holds a local port, the index from a connection's four-tuple to  *)
(* its record, by which a reset is told to its socket, and the phases of a *)
(* connect whose caller retries when its waiter is woken.                  *)
(*                                                                         *)
(* The interface has one address of each family, so that a port stands for *)
(* a local endpoint.  smoltcp's socket is its state: "closing" stands for  *)
(* those after a close of our side, "synSent" for SYN-RECEIVED as well,    *)
(* which the code treats alike.  A listener's pool, backlog and limits are *)
(* module Maintenance; here a child appears when its record does.          *)
(***************************************************************************)
EXTENDS Naturals, FiniteSets

CONSTANTS
    Ids,         \* socket ids, never used twice
    Families,
    Remotes,     \* remote endpoints
    Ports,       \* local ports
    First, Last  \* EPHEMERAL_PORT_FIRST, EPHEMERAL_PORT_LAST

ASSUME EndpointsAssumption ==
    /\ Ids \subseteq Nat \ {0} /\ Ports \subseteq Nat \ {0}
    /\ First \in Nat /\ Last \in Nat /\ First <= Last /\ First..Last \subseteq Ports
    /\ "none" \notin Families \cup Remotes

VARIABLES
    sock,    \* tcp_records, tcp_listeners and udp_records by id
    state,   \* of the smoltcp socket of a TCP record
    parent,  \* the listener whose queue a child is in; 0
    conns,   \* tcp_connections: the id for a key; 0
    cursor,  \* next_ephemeral_port, next_udp_ephemeral_port
    call,    \* the last connect of a socket: "wait", "woken" or its answer
    cause,   \* history: what an RST did to a connection
    clashed  \* history: keys that two records of one time have had

vars == <<sock, state, parent, conns, cursor, call, cause, clashed>>

Kinds == {"tcp", "udp"}
Keys == Families \X Ports \X Remotes
Failures == {"refused", "reset", "timedOut"}

Blank(phase) == [kind |-> "none", family |-> "none", phase |-> phase, port |-> 0,
                 remote |-> "none", accepted |-> FALSE]

HasKey(s) == s.kind = "tcp" /\ s.remote # "none"
Key(s) == <<s.family, s.port, s.remote>>

Init ==
    /\ sock = [i \in Ids |-> Blank("none")]
    /\ state = [i \in Ids |-> "idle"]
    /\ parent = [i \in Ids |-> 0]
    /\ conns = [k \in Keys |-> 0]
    /\ cursor = [kind \in Kinds |-> First]
    /\ call = [i \in Ids |-> "none"]
    /\ cause = [i \in Ids |-> "none"]
    /\ clashed = {}

Holders(k) == {i \in Ids : HasKey(sock[i]) /\ Key(sock[i]) = k}

\* Of the steps that give records keys or remove them.
Remember ==
    clashed' = {k \in Keys : \/ Holders(k)' # {} /\ k \in clashed
                             \/ \E i, j \in Holders(k)' : i # j}

\* SocketTable::insert: ids grow.
NextId(i) == sock[i].phase = "none" /\ \A j \in Ids : j < i => sock[j].phase # "none"

-----------------------------------------------------------------------------
(* Ports. *)

\* Mutant of PortInUse: listeners are forgotten.
PortInUseRecords(kind, family, port, i) ==
    \E j \in Ids \ {i} :
        /\ sock[j].kind = kind /\ sock[j].family = family
        /\ sock[j].phase # "listener"
        /\ ~sock[j].accepted /\ sock[j].port = port

\* A port an accepted connection has come in by is free.
PortInUse(kind, family, port, i) ==
    \E j \in Ids \ {i} :
        /\ sock[j].kind = kind /\ sock[j].family = family
        /\ ~sock[j].accepted /\ sock[j].port = port

Used(kind, family) ==
    {sock[j].port : j \in {n \in Ids : sock[n].kind = kind /\ sock[n].family = family}}

Candidate(kind, offset) == First + ((cursor[kind] - First + offset) % (Last - First + 1))

\* The first port from the cursor on that no socket of the family has, accepted ones included.
AllocateEphemeral(kind, family, port) ==
    \E offset \in 0..Last - First :
        /\ port = Candidate(kind, offset)
        /\ port \notin Used(kind, family)
        /\ \A o \in 0..offset - 1 : Candidate(kind, o) \in Used(kind, family)

\* Mutant of Advance: no wrap.
AdvanceOn(kind, port) == cursor' = [cursor EXCEPT ![kind] = port + 1]

Advance(kind, port) ==
    cursor' = [cursor EXCEPT ![kind] = IF port = Last THEN First ELSE port + 1]

Open(i, kind, family) ==
    /\ NextId(i)
    /\ sock' = [sock EXCEPT ![i] = [Blank("open") EXCEPT !.kind = kind, !.family = family]]
    /\ UNCHANGED <<state, parent, conns, cursor, call, cause, clashed>>

Bind(i, port) ==
    /\ sock[i].phase = "open"
    /\ ~PortInUse(sock[i].kind, sock[i].family, port, i)
    /\ sock' = [sock EXCEPT ![i] = [@ EXCEPT !.phase = "bound", !.port = port]]
    /\ UNCHANGED <<state, parent, conns, cursor, call, cause, clashed>>

BindEphemeral(i, port) ==
    /\ sock[i].phase = "open"
    /\ AllocateEphemeral(sock[i].kind, sock[i].family, port)
    /\ Advance(sock[i].kind, port)
    /\ sock' = [sock EXCEPT ![i] = [@ EXCEPT !.phase = "bound", !.port = port]]
    /\ UNCHANGED <<state, parent, conns, call, cause, clashed>>

\* A bind or a connect that fails after it has allocated a port: for want of an address, or
\* of room for the members of a UDP socket.
PortWasted(i, port) ==
    /\ sock[i].phase = "open"
    /\ AllocateEphemeral(sock[i].kind, sock[i].family, port)
    /\ Advance(sock[i].kind, port)
    /\ UNCHANGED <<sock, state, parent, conns, call, cause, clashed>>

UdpConnect(i, remote) ==
    /\ sock[i].kind = "udp" /\ sock[i].phase = "bound"
    /\ sock' = [sock EXCEPT ![i].remote = remote]
    /\ UNCHANGED <<state, parent, conns, cursor, call, cause, clashed>>

-----------------------------------------------------------------------------
(* Connect and its retries. *)

Woken(i) == IF call[i] = "wait" THEN [call EXCEPT ![i] = "woken"] ELSE call

Connect(i, remote, port) ==
    LET s == [sock[i] EXCEPT !.phase = "connecting", !.port = port, !.remote = remote]
    IN /\ sock[i].kind = "tcp" /\ sock[i].phase \in {"open", "bound"}
       /\ IF sock[i].port = 0
          THEN AllocateEphemeral("tcp", sock[i].family, port) /\ Advance("tcp", port)
          ELSE port = sock[i].port /\ UNCHANGED cursor
       /\ ~PortInUse("tcp", sock[i].family, port, i)
       /\ sock' = [sock EXCEPT ![i] = s]
       /\ state' = [state EXCEPT ![i] = "synSent"]
       /\ conns' = [conns EXCEPT ![Key(s)] = i]
       /\ call' = [call EXCEPT ![i] = "wait"]
       /\ Remember
       /\ UNCHANGED <<parent, cause>>

\* Mutant of Retry: the waiter is armed before the state is looked at.
RetryArms(i) ==
    /\ sock[i].kind = "tcp" /\ sock[i].phase = "connecting" /\ call[i] # "wait"
    /\ call' = [call EXCEPT ![i] = "wait"]
    /\ UNCHANGED <<sock, state, parent, conns, cursor, cause, clashed>>

\* tcp_connect of a socket that is connecting or has failed, finalize_or_arm_connect.
Retry(i) ==
    LET answer ==
            IF sock[i].phase \in Failures THEN sock[i].phase
            ELSE CASE state[i] = "established" -> "connected"
                   [] state[i] = "synSent" -> "wait"
                   [] state[i] = "closed" -> "timedOut"
                   [] OTHER -> "invalid"
    IN /\ sock[i].kind = "tcp" /\ sock[i].phase \in {"connecting"} \cup Failures
       /\ call[i] # "wait"
       /\ call' = [call EXCEPT ![i] = answer]
       /\ sock' = IF answer \in {"wait", "invalid"}
                  THEN sock ELSE [sock EXCEPT ![i].phase = answer]
       /\ UNCHANGED <<state, parent, conns, cursor, cause, clashed>>

\* The caller gives up, or its message comes too late.
Cancel(i) ==
    /\ call[i] \in {"wait", "woken"}
    /\ call' = [call EXCEPT ![i] = "none"]
    /\ UNCHANGED <<sock, state, parent, conns, cursor, cause, clashed>>

-----------------------------------------------------------------------------
(* Listeners. *)

Listen(i) ==
    /\ sock[i].kind = "tcp" /\ sock[i].phase = "bound"
    /\ sock' = [sock EXCEPT ![i].phase = "listener"]
    /\ UNCHANGED <<state, parent, conns, cursor, call, cause, clashed>>

\* refresh_listener_member makes a record for a connection that a member of the pool has.
\* Its four-tuple may be that of another record: a segment goes to the first socket of the
\* set that accepts it, and a listening one accepts a SYN.
Promote(l, i, remote) ==
    LET s == [sock[l] EXCEPT !.phase = "connected", !.remote = remote, !.accepted = TRUE]
    IN /\ sock[l].phase = "listener"
       /\ NextId(i)
       /\ sock' = [sock EXCEPT ![i] = s]
       /\ state' \in {[state EXCEPT ![i] = st] : st \in {"established", "closeWait"}}
       /\ parent' = [parent EXCEPT ![i] = l]
       /\ conns' = [conns EXCEPT ![Key(s)] = i]
       /\ Remember
       /\ UNCHANGED <<cursor, call, cause>>

Accept(i) ==
    /\ parent[i] # 0
    /\ parent' = [parent EXCEPT ![i] = 0]
    /\ UNCHANGED <<sock, state, conns, cursor, call, cause, clashed>>

-----------------------------------------------------------------------------
(* Segments and timers. *)

PeerSynAck(i) ==
    /\ state[i] = "synSent"
    /\ state' = [state EXCEPT ![i] = "established"]
    /\ call' = Woken(i)
    /\ UNCHANGED <<sock, parent, conns, cursor, cause, clashed>>

PeerFin(i) ==
    /\ state[i] = "established"
    /\ state' = [state EXCEPT ![i] = "closeWait"]
    /\ call' = Woken(i)
    /\ UNCHANGED <<sock, parent, conns, cursor, cause, clashed>>

\* Mutant of InboundReset: a connection that is not established is not looked at.
InboundResetEstablished(o) ==
    IF o # 0 /\ state[o] = "established" THEN "reset" ELSE "none"

\* What a reset is to the record that the index has for its key.
InboundReset(o) ==
    CASE o # 0 /\ state[o] = "established" -> "reset"
      [] o # 0 /\ state[o] = "synSent" -> "refused"
      [] OTHER -> "none"

\* Mutant of RecordInboundReset: whichever socket the segment went to.
RecordInboundResetAny(o, failure, after) ==
    IF failure # "none" THEN [sock EXCEPT ![o].phase = failure] ELSE sock

\* The record is marked only if its socket is closed now.
RecordInboundReset(o, failure, after) ==
    IF failure # "none" /\ after[o] = "closed"
    THEN [sock EXCEPT ![o].phase = failure] ELSE sock

\* A reset that socket i takes: the first of those with its four-tuple.
Reset(i) ==
    LET owner == conns[Key(sock[i])]
    IN /\ state[i] \notin {"idle", "closed"}
       /\ state' = [state EXCEPT ![i] = "closed"]
       /\ sock' = RecordInboundReset(owner, InboundReset(owner), state')
       /\ cause' = [cause EXCEPT ![i] = CASE state[i] = "synSent" -> "refused"
                                          [] state[i] = "established" -> "reset"
                                          [] OTHER -> "none"]
       /\ call' = Woken(i)
       /\ UNCHANGED <<parent, conns, cursor, clashed>>

GivesUp(i) ==
    /\ state' = [state EXCEPT ![i] = "closed"]
    /\ call' = Woken(i)
    /\ UNCHANGED <<sock, parent, conns, cursor, cause, clashed>>

\* CONNECT_TIMEOUT_MILLIS.
ConnectTimeout(i) == state[i] = "synSent" /\ GivesUp(i)

\* The user timeout, the keep-alive, or the end of a closing connection.
Expire(i) == state[i] \in {"established", "closeWait", "closing"} /\ GivesUp(i)

-----------------------------------------------------------------------------
(* Close. *)

\* Mutant of Unindexed: the queued children of a listener stay.
UnindexedAccepted(ids) ==
    [k \in Keys |-> IF \E i \in ids : HasKey(sock[i]) /\ Key(sock[i]) = k /\ parent[i] = 0
                    THEN 0 ELSE conns[k]]

\* remove_tcp_record: the entry of its key goes, whichever record it is for.
Unindexed(ids) ==
    [k \in Keys |-> IF \E i \in ids : HasKey(sock[i]) /\ Key(sock[i]) = k THEN 0 ELSE conns[k]]

Removed(ids) ==
    /\ sock' = [i \in Ids |-> IF i \in ids THEN Blank("gone") ELSE sock[i]]
    /\ state' = [i \in Ids |-> IF i \in ids THEN "idle" ELSE state[i]]
    /\ parent' = [i \in Ids |-> IF i \in ids THEN 0 ELSE parent[i]]
    /\ conns' = Unindexed(ids)
    /\ Remember

Queued(l) == {i \in Ids : parent[i] = l}

\* A connected socket closes gracefully and keeps its record; any other goes at once, a
\* listener with the children in its queue.  A waiter is aborted.
Close(i) ==
    /\ sock[i].phase \notin {"none", "gone", "closing"}
    /\ parent[i] = 0
    /\ call' = [call EXCEPT ![i] = "none"]
    /\ IF sock[i].phase = "connected"
       THEN /\ sock' = [sock EXCEPT ![i].phase = "closing"]
            /\ state' = [state EXCEPT ![i] = IF @ = "closed" THEN @ ELSE "closing"]
            /\ UNCHANGED <<parent, conns, clashed>>
       ELSE Removed({i} \cup Queued(i))
    /\ UNCHANGED <<cursor, cause>>

\* reap_closing_tcp.
Reap(i) ==
    /\ sock[i].phase = "closing" /\ state[i] = "closed"
    /\ Removed({i})
    /\ UNCHANGED <<cursor, call, cause>>

-----------------------------------------------------------------------------
Step(i) ==
    \/ \E kind \in Kinds, family \in Families : Open(i, kind, family)
    \/ \E port \in Ports :
        \/ Bind(i, port) \/ BindEphemeral(i, port) \/ PortWasted(i, port)
        \/ \E remote \in Remotes : Connect(i, remote, port)
    \/ \E remote \in Remotes :
        UdpConnect(i, remote) \/ \E l \in Ids : Promote(l, i, remote)
    \/ Retry(i) \/ Cancel(i) \/ Listen(i) \/ Accept(i)
    \/ PeerSynAck(i) \/ PeerFin(i) \/ Reset(i) \/ ConnectTimeout(i) \/ Expire(i)
    \/ Close(i) \/ Reap(i)

Next == \E i \in Ids : Step(i)

Spec == Init /\ [][Next]_vars

\* A woken caller retries, and the handshake timer is among the deadlines the owner polls for.
LiveSpec ==
    /\ Spec
    /\ \A i \in Ids : /\ WF_vars(call[i] = "woken" /\ Retry(i))
                      /\ WF_vars(ConnectTimeout(i))

-----------------------------------------------------------------------------
(* Properties *)

Phases == {"none", "open", "bound", "connecting", "connected", "listener", "closing", "gone"}
            \cup Failures

TypeOK ==
    /\ sock \in [Ids -> [kind : Kinds \cup {"none"}, family : Families \cup {"none"},
                         phase : Phases, port : Ports \cup {0},
                         remote : Remotes \cup {"none"}, accepted : BOOLEAN]]
    /\ state \in [Ids -> {"idle", "synSent", "established", "closeWait", "closing", "closed"}]
    /\ parent \in [Ids -> Ids \cup {0}]
    /\ conns \in [Keys -> Ids \cup {0}]
    /\ cursor \in [Kinds -> First..Last]
    /\ call \in [Ids -> {"none", "wait", "woken", "connected", "invalid"} \cup Failures]
    /\ cause \in [Ids -> {"none"} \cup Failures]
    /\ clashed \subseteq Keys

\* No two sockets of a kind and family have a local port, other than for a connection a
\* listener has accepted: bind, connect and listen each hand the port on without a gap.
PortsExclusive ==
    \A i, j \in Ids :
        /\ i # j /\ sock[i].port # 0 /\ ~sock[i].accepted /\ ~sock[j].accepted
        /\ sock[i].kind = sock[j].kind /\ sock[i].family = sock[j].family
        => sock[i].port # sock[j].port

\* The index never leads to a record that is gone or has another key, whatever order records
\* that shared a key were removed in; and it leads to every record whose key was its own.
IndexExact ==
    /\ \A k \in Keys : conns[k] # 0 => conns[k] \in Holders(k)
    /\ \A i \in Ids : HasKey(sock[i]) /\ Key(sock[i]) \notin clashed => conns[Key(sock[i])] = i

\* A socket says it was refused or reset only if a reset did that to its own connection.
ResetIsTrue == \A i \in Ids : sock[i].phase \in {"refused", "reset"} => cause[i] = sock[i].phase

\* A reset that ends a connection in SYN-SENT or ESTABLISHED is told as what it was, if the
\* four-tuple was the connection's own: not as a timeout, nor not at all.
ResetIsTold ==
    \A i \in Ids :
        /\ HasKey(sock[i]) /\ Key(sock[i]) \notin clashed /\ cause[i] # "none"
        => sock[i].phase = cause[i]

\* Who waits for a connection has an answer: a retry never arms a waiter that no change of
\* the socket's state is left to wake.
ConnectSettles ==
    \A i \in Ids : call[i] \in {"wait", "woken"} ~> call[i] \notin {"wait", "woken"}

\* ADR 0004: "Retrying after the one-shot notification returns `:ok`, a stable failure, or
\* another select hint after a spurious wake."
RetryIsDecisive == \A i \in Ids : call[i] # "invalid"
=============================================================================

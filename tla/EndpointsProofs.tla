-------------------------- MODULE EndpointsProofs ---------------------------
(***************************************************************************)
(* Ports, the index of connections and resets, for any number of sockets,  *)
(* families, ports and remote endpoints.                                   *)
(*                                                                         *)
(* The index is exact only because a key that two records share is known   *)
(* to be clashed (ClashSeen), and a reset is told rightly only because a   *)
(* record that has failed has a closed socket (LocalInv): no second reset  *)
(* can find it.                                                            *)
(***************************************************************************)
EXTENDS Endpoints, TLAPS

\* Most leaves are first-order and short: Zenon is asked first, then the SMT solver.
USE ZenonT(3), SMTT(20), ZenonT(30)

Sockets == [kind : Kinds \cup {"none"}, family : Families \cup {"none"},
            phase : Phases, port : Ports \cup {0},
            remote : Remotes \cup {"none"}, accepted : BOOLEAN]

\* What a socket's phase says of its record s, of smoltcp's state st and of its history c.
Local(s, st, c) ==
    /\ s.phase \in {"none", "gone"} => s = Blank(s.phase) /\ st = "idle"
    /\ s.phase \notin {"none", "gone"} => s.kind \in Kinds /\ s.family \in Families
    /\ s.phase \in {"none", "open", "bound", "listener"} =>
        st = "idle" /\ c = "none" /\ ~HasKey(s)
    /\ s.phase \in {"bound", "listener"} => s.port # 0
    /\ s.phase = "listener" => s.kind = "tcp"
    /\ s.phase \in {"connecting", "connected", "closing"} \cup Failures =>
        HasKey(s) /\ s.port # 0
    /\ s.phase \in Failures => st = "closed"
    /\ s.phase \in {"refused", "reset"} => c = s.phase

LocalInv == \A i \in Ids : Local(sock[i], state[i], cause[i])

\* Two records that have a key at one time make it clashed.
ClashSeen ==
    \A i, j \in Ids :
        i # j /\ HasKey(sock[i]) /\ HasKey(sock[j]) /\ Key(sock[i]) = Key(sock[j])
            => Key(sock[i]) \in clashed

Index == IndexExact /\ ClashSeen

EndpointsInv ==
    TypeOK /\ LocalInv /\ PortsExclusive /\ Index /\ ResetIsTold

\* Socket i becomes s, and no other changes.
Becomes(i, s) == s \in Sockets /\ sock' = [sock EXCEPT ![i] = s]

\* No socket but i, and none that was accepted, has port.
Free(i, kind, family, port) ==
    \A j \in Ids \ {i} :
        sock[j].kind = kind /\ sock[j].family = family /\ ~sock[j].accepted
            => sock[j].port # port

-----------------------------------------------------------------------------
(* Ports. *)

\* A remainder is less than its divisor.
LEMMA Remainder ==
    ASSUME NEW a \in Nat, NEW n \in Nat \ {0}
    PROVE  a % n \in 0..n - 1
  OBVIOUS

\* allocate_ephemeral answers a port of the ephemeral range that is free.
LEMMA AllocatedIsFree ==
    ASSUME TypeOK, NEW i \in Ids, NEW kind \in Kinds, NEW family, NEW port,
           AllocateEphemeral(kind, family, port)
    PROVE  port \in First..Last /\ port \in Ports /\ Free(i, kind, family, port)
<1>1. PICK offset \in 0..Last - First :
        port = Candidate(kind, offset) /\ port \notin Used(kind, family)
  BY DEF AllocateEphemeral
<1>2. cursor[kind] \in First..Last
  BY DEF TypeOK
<1>3. cursor[kind] - First + offset \in Nat /\ Last - First + 1 \in Nat \ {0}
  BY <1>2, EndpointsAssumption
<1>4. (cursor[kind] - First + offset) % (Last - First + 1) \in 0..Last - First
  <2>1. (cursor[kind] - First + offset) % (Last - First + 1) \in 0..(Last - First + 1) - 1
    BY <1>3, Remainder
  <2> QED
    BY <2>1, EndpointsAssumption
<1>5. port \in First..Last
  BY <1>1, <1>4, EndpointsAssumption DEF Candidate
<1>6. Free(i, kind, family, port)
  BY <1>1 DEF Used, Free
<1> QED
  BY <1>5, <1>6, EndpointsAssumption

\* The cursor stays in the range.
LEMMA AdvanceInRange ==
    ASSUME TypeOK, NEW kind \in Kinds, NEW port \in First..Last, Advance(kind, port)
    PROVE  cursor' \in [Kinds -> First..Last]
  BY EndpointsAssumption DEF TypeOK, Advance

\* port_in_use looks at every other socket of the kind and family.
LEMMA NotInUseIsFree ==
    ASSUME NEW i, NEW kind, NEW family, NEW port, ~PortInUse(kind, family, port, i)
    PROVE  Free(i, kind, family, port)
  BY DEF PortInUse, Free

\* A socket that changes keeps ports exclusive if its port is its own or no claim.
LEMMA PortsKept ==
    ASSUME TypeOK, PortsExclusive, NEW i \in Ids, NEW s, Becomes(i, s),
           \/ s.port = 0
           \/ s.accepted
           \/ Free(i, s.kind, s.family, s.port)
           \/ /\ s.kind = sock[i].kind /\ s.family = sock[i].family
              /\ s.port = sock[i].port /\ s.accepted = sock[i].accepted
    PROVE  PortsExclusive'
<1> SUFFICES ASSUME NEW a \in Ids, NEW b \in Ids, a # b, sock'[a].port # 0,
                    ~sock'[a].accepted, ~sock'[b].accepted,
                    sock'[a].kind = sock'[b].kind, sock'[a].family = sock'[b].family,
                    sock'[a].port = sock'[b].port
             PROVE  FALSE
  BY DEF PortsExclusive
<1>1. sock'[i] = s /\ \A j \in Ids \ {i} : sock'[j] = sock[j]
  BY DEF Becomes, TypeOK
<1>2. CASE a = i
  BY <1>1, <1>2 DEF PortsExclusive, Free
<1>3. CASE b = i
  BY <1>1, <1>3 DEF PortsExclusive, Free
<1>4. CASE a # i /\ b # i
  BY <1>1, <1>4 DEF PortsExclusive
<1> QED
  BY <1>2, <1>3, <1>4

-----------------------------------------------------------------------------
(* The index. *)

\* A change that leaves a record's key alone.
LEMMA IndexKept ==
    ASSUME TypeOK, Index, NEW i \in Ids, NEW s, Becomes(i, s),
           (HasKey(s) <=> HasKey(sock[i])), HasKey(s) => Key(s) = Key(sock[i]),
           conns' = conns, clashed' = clashed
    PROVE  Index'
<1>1. sock'[i] = s /\ \A j \in Ids \ {i} : sock'[j] = sock[j]
  BY DEF Becomes, TypeOK
<1>2. \A j \in Ids : /\ HasKey(sock'[j]) <=> HasKey(sock[j])
                     /\ HasKey(sock[j]) => Key(sock'[j]) = Key(sock[j])
  BY <1>1
<1>3. \A k \in Keys : Holders(k)' = Holders(k)
  BY <1>2 DEF Holders
<1>4. IndexExact'
  BY <1>2, <1>3 DEF Index, IndexExact
<1>5. ClashSeen'
  BY <1>2 DEF Index, ClashSeen
<1> QED
  BY <1>4, <1>5 DEF Index

\* A record's key is one of Keys.
LEMMA KeyInKeys ==
    ASSUME TypeOK, LocalInv, NEW i \in Ids, HasKey(sock[i])
    PROVE  Key(sock[i]) \in Keys
<1>1. sock[i] \in Sockets
  BY DEF TypeOK, Sockets
<1>2. sock[i].phase \notin {"none", "open", "bound", "listener", "gone"}
  <2>1. sock[i].phase \notin {"none", "open", "bound", "listener"}
    BY DEF LocalInv, Local
  <2>2. ASSUME sock[i].phase = "gone" PROVE FALSE
    <3>1. sock[i] = Blank("gone")
      BY <2>2 DEF LocalInv, Local
    <3> QED
      BY <3>1 DEF HasKey, Blank
  <2> QED
    BY <2>1, <2>2
<1>3. sock[i].phase \in {"connecting", "connected", "closing"} \cup Failures
  BY <1>1, <1>2 DEF Sockets, Phases
<1>4. sock[i].family \in Families /\ sock[i].port # 0
  BY <1>2, <1>3 DEF LocalInv, Local
<1> QED
  BY <1>1, <1>4 DEF Sockets, Keys, Key, HasKey

\* A key that was clashed is, while a record has it.
LEMMA ClashLasts ==
    ASSUME Remember, NEW i \in Ids, HasKey(sock'[i]), NEW k \in Keys, Key(sock'[i]) = k,
           k \in clashed
    PROVE  k \in clashed'
  BY DEF Remember, Holders

\* What Remember is for.
LEMMA ClashRemembered ==
    ASSUME Remember, \A i \in Ids : HasKey(sock'[i]) => Key(sock'[i]) \in Keys
    PROVE  ClashSeen'
  BY DEF Remember, ClashSeen, Holders

\* A record that gains a key takes over its entry.
LEMMA IndexGained ==
    ASSUME TypeOK, LocalInv, Index, NEW i \in Ids, NEW s, Becomes(i, s),
           ~HasKey(sock[i]), HasKey(s), Key(s) \in Keys,
           conns' = [conns EXCEPT ![Key(s)] = i], Remember
    PROVE  Index'
<1>1. sock'[i] = s /\ \A j \in Ids \ {i} : sock'[j] = sock[j]
  BY DEF Becomes, TypeOK
<1>2. conns'[Key(s)] = i /\ \A k \in Keys \ {Key(s)} : conns'[k] = conns[k]
  BY DEF TypeOK
<1>3. \A j \in Ids : HasKey(sock'[j]) => Key(sock'[j]) \in Keys
  BY <1>1, KeyInKeys
<1>4. ClashSeen'
  BY <1>3, ClashRemembered
<1>5. ASSUME NEW k \in Keys, conns'[k] # 0 PROVE conns'[k] \in Holders(k)'
  <2>1. CASE k = Key(s)
    BY <1>1, <1>2, <2>1 DEF Holders
  <2>2. CASE k # Key(s)
    <3>1. conns'[k] \in Holders(k)
      BY <1>2, <1>5, <2>2 DEF Index, IndexExact
    <3> QED
      BY <1>1, <3>1 DEF Holders
  <2> QED
    BY <2>1, <2>2
<1>6. ASSUME NEW j \in Ids, HasKey(sock'[j]), Key(sock'[j]) \notin clashed'
      PROVE  conns'[Key(sock'[j])] = j
  <2>1. CASE j = i
    BY <1>1, <1>2, <2>1
  <2>2. CASE j # i
    <3>1. Key(sock'[j]) # Key(s)
      BY <1>1, <1>4, <1>6, <2>2 DEF ClashSeen
    <3>2. Key(sock'[j]) \notin clashed
      BY <1>3, <1>6, ClashLasts
    <3> QED
      BY <1>1, <1>2, <1>3, <1>6, <2>2, <3>1, <3>2 DEF Index, IndexExact
  <2> QED
    BY <2>1, <2>2
<1> QED
  BY <1>4, <1>5, <1>6 DEF Index, IndexExact

\* remove_tcp_record drops the entry of a key whichever record it is for, and yet no record
\* whose key is its own loses its entry.
LEMMA IndexRemoved ==
    ASSUME TypeOK, LocalInv, Index, NEW ids \in SUBSET Ids, Removed(ids)
    PROVE  Index'
<1>1. \A j \in Ids : sock'[j] = IF j \in ids THEN Blank("gone") ELSE sock[j]
  BY DEF Removed
<1>2. \A k \in Keys : conns'[k] =
        IF \E i \in ids : HasKey(sock[i]) /\ Key(sock[i]) = k THEN 0 ELSE conns[k]
  BY DEF Removed, Unindexed
<1>3. ~HasKey(Blank("gone"))
  BY DEF HasKey, Blank
<1>4. \A j \in Ids : HasKey(sock'[j]) => j \notin ids /\ sock'[j] = sock[j]
  BY <1>1, <1>3
<1>5. \A j \in Ids : HasKey(sock'[j]) => Key(sock'[j]) \in Keys
  BY <1>4, KeyInKeys
<1>6. Remember
  BY DEF Removed
<1>7. ClashSeen'
  BY <1>5, <1>6, ClashRemembered
<1>8. ASSUME NEW k \in Keys, conns'[k] # 0 PROVE conns'[k] \in Holders(k)'
  <2>1. conns'[k] = conns[k] /\ ~\E i \in ids : HasKey(sock[i]) /\ Key(sock[i]) = k
    BY <1>2, <1>8
  <2>2. conns[k] \in Holders(k)
    BY <1>8, <2>1 DEF Index, IndexExact
  <2>3. conns[k] \in Ids \ ids
    BY <2>1, <2>2 DEF Holders
  <2> QED
    BY <1>1, <2>1, <2>2, <2>3 DEF Holders
<1>9. ASSUME NEW j \in Ids, HasKey(sock'[j]), Key(sock'[j]) \notin clashed'
      PROVE  conns'[Key(sock'[j])] = j
  <2>1. HasKey(sock[j]) /\ Key(sock[j]) \in Keys /\ sock'[j] = sock[j] /\ j \notin ids
    BY <1>4, <1>5, <1>9
  <2>2. Key(sock[j]) \notin clashed
    BY <1>5, <1>6, <1>9, <2>1, ClashLasts
  <2>3. conns[Key(sock[j])] = j
    BY <2>1, <2>2 DEF Index, IndexExact
  <2>4. ~\E i \in ids : HasKey(sock[i]) /\ Key(sock[i]) = Key(sock[j])
    BY <2>1, <2>2 DEF Index, ClashSeen
  <2> QED
    BY <1>2, <2>1, <2>3, <2>4
<1> QED
  BY <1>7, <1>8, <1>9 DEF Index, IndexExact

-----------------------------------------------------------------------------
(* One socket changes. *)

\* A change of one socket that leaves its key and its claim to a port alone.
LEMMA OneSocket ==
    ASSUME EndpointsInv, TypeOK', NEW i \in Ids, NEW s, Becomes(i, s),
           \A j \in Ids \ {i} : state'[j] = state[j] /\ cause'[j] = cause[j],
           Local(s, state'[i], cause'[i]),
           \/ s.port = 0
           \/ Free(i, s.kind, s.family, s.port)
           \/ /\ s.kind = sock[i].kind /\ s.family = sock[i].family
              /\ s.port = sock[i].port /\ s.accepted = sock[i].accepted,
           (HasKey(s) <=> HasKey(sock[i])), HasKey(s) => Key(s) = Key(sock[i]),
           conns' = conns, clashed' = clashed,
           HasKey(s) /\ Key(s) \notin clashed /\ cause'[i] # "none" => s.phase = cause'[i]
    PROVE  EndpointsInv'
<1>1. sock'[i] = s /\ \A j \in Ids \ {i} : sock'[j] = sock[j]
  BY DEF Becomes, TypeOK, EndpointsInv
<1>2. LocalInv'
  BY <1>1 DEF LocalInv, EndpointsInv
<1>3. PortsExclusive'
  BY PortsKept DEF EndpointsInv
<1>4. Index'
  BY IndexKept DEF EndpointsInv
<1>5. ResetIsTold'
  BY <1>1 DEF ResetIsTold, EndpointsInv
<1> QED
  BY <1>2, <1>3, <1>4, <1>5 DEF EndpointsInv

\* A record whose phase alone changes.
LEMMA Rephased ==
    ASSUME TypeOK, NEW i \in Ids, NEW p \in Phases, NEW s,
           s = [sock[i] EXCEPT !.phase = p]
    PROVE  /\ s \in Sockets /\ s.phase = p
           /\ s.kind = sock[i].kind /\ s.family = sock[i].family /\ s.port = sock[i].port
           /\ s.accepted = sock[i].accepted /\ s.remote = sock[i].remote
           /\ (HasKey(s) <=> HasKey(sock[i])) /\ Key(s) = Key(sock[i])
<1>1. sock[i] \in Sockets
  BY DEF TypeOK, Sockets
<1>2. /\ s \in Sockets /\ s.phase = p
      /\ s.kind = sock[i].kind /\ s.family = sock[i].family /\ s.port = sock[i].port
      /\ s.accepted = sock[i].accepted /\ s.remote = sock[i].remote
  BY <1>1 DEF Sockets
<1> QED
  BY <1>2 DEF HasKey, Key

\* A step that changes no record, and smoltcp's state only of a connection that lives.
LEMMA RecordsStay ==
    ASSUME EndpointsInv, TypeOK', NEW i \in Ids, UNCHANGED <<sock, conns, cause, clashed>>,
           \/ state' = state
           \/ /\ state[i] \notin {"idle", "closed"}
              /\ \A j \in Ids \ {i} : state'[j] = state[j]
    PROVE  EndpointsInv'
<1>1. Becomes(i, sock[i])
  BY DEF Becomes, EndpointsInv, TypeOK, Sockets
<1>2. Local(sock[i], state[i], cause[i])
  BY DEF EndpointsInv, LocalInv
<1>3. Local(sock[i], state'[i], cause'[i])
  BY <1>2 DEF Local
<1>4. HasKey(sock[i]) /\ Key(sock[i]) \notin clashed /\ cause'[i] # "none"
        => sock[i].phase = cause'[i]
  BY DEF EndpointsInv, ResetIsTold
<1> QED
  BY <1>1, <1>3, <1>4, OneSocket

-----------------------------------------------------------------------------
(* The actions. *)

\* tcp_open, udp_open.
LEMMA OpenKeeps ==
    ASSUME EndpointsInv, NEW i \in Ids, NEW kind \in Kinds, NEW family \in Families,
           Open(i, kind, family)
    PROVE  EndpointsInv'
<1> DEFINE s == [Blank("open") EXCEPT !.kind = kind, !.family = family]
<1>1. /\ s \in Sockets /\ s.phase = "open" /\ s.kind = kind /\ s.family = family
      /\ s.port = 0 /\ s.remote = "none" /\ ~HasKey(s)
  BY DEF Blank, Sockets, Phases, HasKey
<1>2. Becomes(i, s)
  BY <1>1 DEF Open, Becomes
<1>3. sock[i].phase = "none"
  BY DEF Open, NextId
<1>4. Local(sock[i], state[i], cause[i])
  BY DEF EndpointsInv, LocalInv
<1>5. ~HasKey(sock[i]) /\ state[i] = "idle" /\ cause[i] = "none"
  BY <1>3, <1>4 DEF Local
<1>6. UNCHANGED <<state, parent, conns, cursor, call, cause, clashed>>
  BY DEF Open
<1> HIDE DEF s
<1>7. Local(s, state'[i], cause'[i])
  BY <1>1, <1>5, <1>6 DEF Local, Failures
<1>8. TypeOK'
  BY <1>1, <1>2, <1>6 DEF EndpointsInv, TypeOK, Becomes, Sockets
<1> QED
  BY <1>1, <1>2, <1>5, <1>6, <1>7, <1>8, OneSocket

\* A socket that is bound to a free port.
LEMMA BoundKeeps ==
    ASSUME EndpointsInv, NEW i \in Ids, NEW port \in Ports,
           cursor' \in [Kinds -> First..Last], sock[i].phase = "open",
           Free(i, sock[i].kind, sock[i].family, port),
           sock' = [sock EXCEPT ![i] = [@ EXCEPT !.phase = "bound", !.port = port]],
           UNCHANGED <<state, parent, conns, call, cause, clashed>>
    PROVE  EndpointsInv'
<1> DEFINE s == [sock[i] EXCEPT !.phase = "bound", !.port = port]
<1>1. sock[i] \in Sockets
  BY DEF EndpointsInv, TypeOK, Sockets
<1>2. /\ s \in Sockets /\ s.phase = "bound" /\ s.kind = sock[i].kind
      /\ s.family = sock[i].family /\ s.port = port /\ s.remote = sock[i].remote
  BY <1>1 DEF Sockets, Phases
<1>3. Becomes(i, s)
  BY <1>2 DEF Becomes, EndpointsInv, TypeOK
<1>4. Local(sock[i], state[i], cause[i])
  BY DEF EndpointsInv, LocalInv
<1>5. /\ ~HasKey(sock[i]) /\ state[i] = "idle" /\ cause[i] = "none"
      /\ sock[i].kind \in Kinds /\ sock[i].family \in Families
  BY <1>4 DEF Local
<1> HIDE DEF s
<1>6. ~HasKey(s)
  BY <1>2, <1>5 DEF HasKey
<1>7. Local(s, state'[i], cause'[i])
  BY <1>2, <1>5, <1>6, EndpointsAssumption DEF Local, Failures
<1>8. TypeOK'
  BY <1>2, <1>3 DEF EndpointsInv, TypeOK, Becomes, Sockets
<1> QED
  BY <1>2, <1>3, <1>5, <1>6, <1>7, <1>8, OneSocket

\* tcp_bind and udp_bind to a port that is given.
LEMMA BindKeeps ==
    ASSUME EndpointsInv, NEW i \in Ids, NEW port \in Ports, Bind(i, port)
    PROVE  EndpointsInv'
<1>1. cursor' \in [Kinds -> First..Last]
  BY DEF EndpointsInv, TypeOK, Bind
<1>2. Free(i, sock[i].kind, sock[i].family, port)
  BY NotInUseIsFree DEF Bind
<1> QED
  BY <1>1, <1>2, BoundKeeps DEF Bind

\* tcp_bind and udp_bind to port 0.
LEMMA BindEphemeralKeeps ==
    ASSUME EndpointsInv, NEW i \in Ids, NEW port \in Ports, BindEphemeral(i, port)
    PROVE  EndpointsInv'
<1>1. sock[i].kind \in Kinds
  BY DEF EndpointsInv, LocalInv, Local, BindEphemeral
<1>2. port \in First..Last /\ Free(i, sock[i].kind, sock[i].family, port)
  BY <1>1, AllocatedIsFree DEF BindEphemeral, EndpointsInv
<1>3. cursor' \in [Kinds -> First..Last]
  BY <1>1, <1>2, AdvanceInRange DEF BindEphemeral, EndpointsInv
<1> QED
  BY <1>2, <1>3, BoundKeeps DEF BindEphemeral

\* A port that is allocated for nothing.
LEMMA PortWastedKeeps ==
    ASSUME EndpointsInv, NEW i \in Ids, NEW port \in Ports, PortWasted(i, port)
    PROVE  EndpointsInv'
<1>1. sock[i].kind \in Kinds
  BY DEF EndpointsInv, LocalInv, Local, PortWasted
<1>2. port \in First..Last
  BY <1>1, AllocatedIsFree DEF PortWasted, EndpointsInv
<1>3. cursor' \in [Kinds -> First..Last]
  BY <1>1, <1>2, AdvanceInRange DEF PortWasted, EndpointsInv
<1>4. TypeOK'
  BY <1>3 DEF EndpointsInv, TypeOK, PortWasted
<1> QED
  BY <1>4, RecordsStay DEF PortWasted

\* udp_connect.
LEMMA UdpConnectKeeps ==
    ASSUME EndpointsInv, NEW i \in Ids, NEW remote \in Remotes, UdpConnect(i, remote)
    PROVE  EndpointsInv'
<1> DEFINE s == [sock[i] EXCEPT !.remote = remote]
<1>1. sock[i] \in Sockets
  BY DEF EndpointsInv, TypeOK, Sockets
<1>2. /\ s \in Sockets /\ s.phase = "bound" /\ s.kind = "udp"
      /\ s.family = sock[i].family /\ s.port = sock[i].port
      /\ s.accepted = sock[i].accepted /\ sock[i].kind = "udp"
  BY <1>1 DEF Sockets, UdpConnect
<1>3. Becomes(i, s)
  BY <1>2 DEF Becomes, EndpointsInv, TypeOK, UdpConnect
<1>4. Local(sock[i], state[i], cause[i])
  BY DEF EndpointsInv, LocalInv
<1>5. UNCHANGED <<state, parent, conns, cursor, call, cause, clashed>>
  BY DEF UdpConnect
<1> HIDE DEF s
<1>6. ~HasKey(s) /\ ~HasKey(sock[i])
  BY <1>2 DEF HasKey
<1>7. Local(s, state'[i], cause'[i])
  BY <1>2, <1>4, <1>5, <1>6 DEF Local, Failures, UdpConnect
<1>8. TypeOK'
  BY <1>2, <1>3, <1>5 DEF EndpointsInv, TypeOK, Becomes, Sockets
<1> QED
  BY <1>2, <1>3, <1>5, <1>6, <1>7, <1>8, OneSocket

\* tcp_listen.
LEMMA ListenKeeps ==
    ASSUME EndpointsInv, NEW i \in Ids, Listen(i)
    PROVE  EndpointsInv'
<1> DEFINE s == [sock[i] EXCEPT !.phase = "listener"]
<1>1. "listener" \in Phases /\ TypeOK
  BY DEF Phases, EndpointsInv
<1>2. /\ s \in Sockets /\ s.phase = "listener"
      /\ s.kind = sock[i].kind /\ s.family = sock[i].family /\ s.port = sock[i].port
      /\ s.accepted = sock[i].accepted /\ s.remote = sock[i].remote
      /\ (HasKey(s) <=> HasKey(sock[i])) /\ Key(s) = Key(sock[i])
  BY <1>1, Rephased
<1>3. Becomes(i, s)
  BY <1>1, <1>2 DEF Becomes, TypeOK, Listen
<1>4. Local(sock[i], state[i], cause[i])
  BY DEF EndpointsInv, LocalInv
<1>5. UNCHANGED <<state, parent, conns, cursor, call, cause, clashed>>
  BY DEF Listen
<1> HIDE DEF s
<1>6. ~HasKey(s) /\ ~HasKey(sock[i])
  BY <1>2, <1>4 DEF Local, Listen
<1>7. Local(s, state'[i], cause'[i])
  BY <1>2, <1>4, <1>5, <1>6 DEF Local, Failures, Listen
<1>8. TypeOK'
  BY <1>1, <1>2, <1>3, <1>5 DEF TypeOK, Becomes, Sockets
<1> QED
  BY <1>2, <1>3, <1>5, <1>6, <1>7, <1>8, OneSocket

\* A retry of tcp_connect: a phase that says failed is not changed, and no other is made
\* refused or reset.
LEMMA RetryKeeps ==
    ASSUME EndpointsInv, NEW i \in Ids, Retry(i)
    PROVE  EndpointsInv'
<1>1. TypeOK
  BY DEF EndpointsInv
<1>2. Local(sock[i], state[i], cause[i])
  BY DEF EndpointsInv, LocalInv
<1>3. UNCHANGED <<state, parent, conns, cursor, cause, clashed>>
  BY DEF Retry
<1>4. PICK p \in Phases :
        /\ \/ p = sock[i].phase
           \/ sock[i].phase = "connecting" /\ p = "connected"
           \/ sock[i].phase = "connecting" /\ p = "timedOut" /\ state[i] = "closed"
        /\ sock' = [sock EXCEPT ![i].phase = p]
  <2>1. CASE sock' = sock
    <3>1. sock' = [sock EXCEPT ![i].phase = sock[i].phase]
      BY <1>1, <2>1 DEF TypeOK
    <3> QED
      BY <1>1, <3>1 DEF TypeOK
  <2>2. CASE sock[i].phase \in Failures /\ sock' = [sock EXCEPT ![i].phase = sock[i].phase]
    BY <2>2 DEF Phases
  <2>3. CASE sock[i].phase = "connecting" /\ sock' = [sock EXCEPT ![i].phase = "connected"]
    BY <2>3 DEF Phases
  <2>4. CASE /\ sock[i].phase = "connecting" /\ state[i] = "closed"
             /\ sock' = [sock EXCEPT ![i].phase = "timedOut"]
    BY <2>4 DEF Phases, Failures
  <2>5. \/ sock' = sock
        \/ sock[i].phase \in Failures /\ sock' = [sock EXCEPT ![i].phase = sock[i].phase]
        \/ /\ sock[i].phase \notin Failures /\ state[i] = "established"
           /\ sock' = [sock EXCEPT ![i].phase = "connected"]
        \/ /\ sock[i].phase \notin Failures /\ state[i] = "closed"
           /\ sock' = [sock EXCEPT ![i].phase = "timedOut"]
    <3> DEFINE answer ==
                IF sock[i].phase \in Failures THEN sock[i].phase
                ELSE CASE state[i] = "established" -> "connected"
                       [] state[i] = "synSent" -> "wait"
                       [] state[i] = "closed" -> "timedOut"
                       [] OTHER -> "invalid"
    <3>1. sock' = IF answer \in {"wait", "invalid"}
                  THEN sock ELSE [sock EXCEPT ![i].phase = answer]
      BY DEF Retry
    <3>2. CASE sock[i].phase \in Failures
      <4>1. answer = sock[i].phase
        BY <3>2
      <4> HIDE DEF answer
      <4> QED
        BY <3>1, <3>2, <4>1 DEF Failures
    <3>3. CASE sock[i].phase \notin Failures
      <4>1. \/ answer \in {"wait", "invalid"}
            \/ answer = "connected" /\ state[i] = "established"
            \/ answer = "timedOut" /\ state[i] = "closed"
        BY <3>3
      <4> HIDE DEF answer
      <4> QED
        BY <3>1, <3>3, <4>1
    <3> QED
      BY <3>2, <3>3
  <2>6. sock[i].phase = "connecting" \/ sock[i].phase \in Failures
    BY DEF Retry
  <2> QED
    BY <2>1, <2>2, <2>3, <2>4, <2>5, <2>6
<1>5. call' \in [Ids -> {"none", "wait", "woken", "connected", "invalid"} \cup Failures]
  BY <1>1 DEF Retry, TypeOK, Failures
<1> DEFINE s == [sock[i] EXCEPT !.phase = p]
<1>6. /\ s \in Sockets /\ s.phase = p
      /\ s.kind = sock[i].kind /\ s.family = sock[i].family /\ s.port = sock[i].port
      /\ s.accepted = sock[i].accepted /\ s.remote = sock[i].remote
      /\ (HasKey(s) <=> HasKey(sock[i])) /\ Key(s) = Key(sock[i])
  BY <1>1, Rephased
<1>7. Becomes(i, s)
  BY <1>1, <1>4, <1>6 DEF Becomes, TypeOK
<1> HIDE DEF s
<1>8. Local(s, state'[i], cause'[i])
  BY <1>2, <1>3, <1>4, <1>6 DEF Local, Failures, Retry
<1>9. TypeOK'
  BY <1>1, <1>3, <1>5, <1>6, <1>7 DEF TypeOK, Becomes, Sockets
<1>10. HasKey(s) /\ Key(s) \notin clashed /\ cause'[i] # "none" => s.phase = cause'[i]
  <2>1. HasKey(sock[i]) /\ Key(sock[i]) \notin clashed /\ cause[i] # "none"
          => sock[i].phase = cause[i]
    BY DEF EndpointsInv, ResetIsTold
  <2>2. cause[i] \in {"none"} \cup Failures
    BY <1>1 DEF TypeOK
  <2> QED
    BY <1>3, <1>4, <1>6, <2>1, <2>2 DEF Failures
<1> QED
  BY <1>3, <1>6, <1>7, <1>8, <1>9, <1>10, OneSocket

\* What wakes a caller leaves `call' typed.
LEMMA WokenTyped ==
    ASSUME TypeOK, NEW i \in Ids
    PROVE  Woken(i) \in [Ids -> {"none", "wait", "woken", "connected", "invalid"} \cup Failures]
  BY DEF TypeOK, Woken

\* The steps that touch no record: a cancel, an accept, a segment that is no reset, a timer.
LEMMA OthersKeep ==
    ASSUME EndpointsInv, NEW i \in Ids,
           \/ Cancel(i) \/ Accept(i) \/ PeerSynAck(i) \/ PeerFin(i)
           \/ ConnectTimeout(i) \/ Expire(i)
    PROVE  EndpointsInv'
<1>1. TypeOK
  BY DEF EndpointsInv
<1>2. Woken(i) \in [Ids -> {"none", "wait", "woken", "connected", "invalid"} \cup Failures]
  BY <1>1, WokenTyped
<1>3. CASE Cancel(i)
  <2>1. TypeOK'
    BY <1>1, <1>3 DEF TypeOK, Cancel
  <2> QED
    BY <1>3, <2>1, RecordsStay DEF Cancel
<1>4. CASE Accept(i)
  <2>1. TypeOK'
    BY <1>1, <1>4 DEF TypeOK, Accept
  <2> QED
    BY <1>4, <2>1, RecordsStay DEF Accept
<1>5. CASE PeerSynAck(i) \/ PeerFin(i) \/ ConnectTimeout(i) \/ Expire(i)
  <2>1. PICK st \in {"established", "closeWait", "closed"} :
            /\ state' = [state EXCEPT ![i] = st]
            /\ state[i] \notin {"idle", "closed"}
            /\ call' = Woken(i)
            /\ UNCHANGED <<sock, parent, conns, cursor, cause, clashed>>
    BY <1>5 DEF PeerSynAck, PeerFin, ConnectTimeout, Expire, GivesUp
  <2>2. TypeOK'
    BY <1>1, <1>2, <2>1 DEF TypeOK
  <2>3. \A j \in Ids \ {i} : state'[j] = state[j]
    BY <1>1, <2>1 DEF TypeOK
  <2> QED
    BY <2>1, <2>2, <2>3, RecordsStay
<1> QED
  BY <1>3, <1>4, <1>5

\* A reset marks the record of the socket it closed and no other, since no other closes.
LEMMA ResetKeeps ==
    ASSUME EndpointsInv, NEW i \in Ids, Reset(i)
    PROVE  EndpointsInv'
<1> DEFINE owner == conns[Key(sock[i])]
<1> DEFINE failure == InboundReset(owner)
<1>1. TypeOK
  BY DEF EndpointsInv
<1>2. Local(sock[i], state[i], cause[i])
  BY DEF EndpointsInv, LocalInv
<1>3. state[i] \notin {"idle", "closed"}
  BY DEF Reset
<1>4. /\ sock[i].phase \in {"connecting", "connected", "closing"}
      /\ HasKey(sock[i]) /\ sock[i].port # 0
      /\ sock[i].kind \in Kinds /\ sock[i].family \in Families
  <2>1. sock[i].phase \in Phases
    BY <1>1 DEF TypeOK
  <2> QED
    BY <1>2, <1>3, <2>1 DEF Local, Phases
<1>5. Key(sock[i]) \in Keys
  BY <1>4, KeyInKeys DEF EndpointsInv
<1>6. owner \in Ids \cup {0} /\ 0 \notin Ids
  BY <1>1, <1>5, EndpointsAssumption DEF TypeOK
<1>7. /\ state' = [state EXCEPT ![i] = "closed"]
      /\ sock' = RecordInboundReset(owner, failure, state')
      /\ call' = Woken(i)
      /\ UNCHANGED <<parent, conns, cursor, clashed>>
  BY DEF Reset
<1>8. /\ state'[i] = "closed"
      /\ \A j \in Ids \ {i} : state'[j] = state[j] /\ cause'[j] = cause[j]
      /\ cause' \in [Ids -> {"none"} \cup Failures]
      /\ state' \in [Ids -> {"idle", "synSent", "established", "closeWait", "closing", "closed"}]
  BY <1>1 DEF TypeOK, Reset, Failures
<1>9. cause'[i] = IF state[i] = "synSent" THEN "refused"
                  ELSE IF state[i] = "established" THEN "reset" ELSE "none"
  BY <1>1 DEF TypeOK, Reset
<1>10. failure = IF owner # 0 /\ state[owner] = "established" THEN "reset"
                 ELSE IF owner # 0 /\ state[owner] = "synSent" THEN "refused" ELSE "none"
  BY DEF InboundReset
<1>11. call' \in [Ids -> {"none", "wait", "woken", "connected", "invalid"} \cup Failures]
  BY <1>1, <1>7, WokenTyped
<1> HIDE DEF failure, owner
<1>12. CASE owner = i /\ failure # "none"
  <2> DEFINE s == [sock[i] EXCEPT !.phase = failure]
  <2>1. failure \in {"refused", "reset"} /\ failure \in Phases /\ failure = cause'[i]
    BY <1>6, <1>9, <1>10, <1>12 DEF Phases, Failures
  <2>2. /\ s \in Sockets /\ s.phase = failure
        /\ s.kind = sock[i].kind /\ s.family = sock[i].family /\ s.port = sock[i].port
        /\ s.accepted = sock[i].accepted /\ s.remote = sock[i].remote
        /\ (HasKey(s) <=> HasKey(sock[i])) /\ Key(s) = Key(sock[i])
    BY <1>1, <2>1, Rephased
  <2>3. sock' = [sock EXCEPT ![i].phase = failure]
    BY <1>7, <1>8, <1>12 DEF RecordInboundReset
  <2>4. Becomes(i, s)
    BY <1>1, <2>2, <2>3 DEF Becomes, TypeOK
  <2> HIDE DEF s
  <2>5. Local(s, state'[i], cause'[i])
    BY <1>4, <1>8, <2>1, <2>2 DEF Local, Failures
  <2>6. TypeOK'
    <3>1. sock' \in [Ids -> Sockets]
      BY <1>1, <2>2, <2>4 DEF TypeOK, Becomes, Sockets
    <3> QED
      BY <1>1, <1>7, <1>8, <1>11, <3>1 DEF TypeOK, Sockets
  <2> QED
    BY <1>7, <1>8, <2>1, <2>2, <2>4, <2>5, <2>6, OneSocket
<1>13. CASE owner # i \/ failure = "none"
  <2>1. sock' = sock
    <3>1. CASE failure = "none"
      BY <1>7, <3>1 DEF RecordInboundReset
    <3>2. CASE owner # i /\ failure # "none"
      BY <1>6, <1>7, <1>8, <1>10, <3>2 DEF RecordInboundReset
    <3> QED
      BY <1>13, <3>1, <3>2
  <2>2. Becomes(i, sock[i])
    BY <1>1, <2>1 DEF Becomes, TypeOK, Sockets
  <2>3. Local(sock[i], state'[i], cause'[i])
    BY <1>2, <1>4, <1>8 DEF Local, Failures
  <2>4. TypeOK'
    <3>1. sock' \in [Ids -> Sockets]
      BY <1>1, <2>1 DEF TypeOK, Sockets
    <3> QED
      BY <1>1, <1>7, <1>8, <1>11, <3>1 DEF TypeOK, Sockets
  <2>5. HasKey(sock[i]) /\ Key(sock[i]) \notin clashed /\ cause'[i] # "none"
          => sock[i].phase = cause'[i]
    <3>1. Key(sock[i]) \notin clashed => owner = i
      BY <1>4 DEF EndpointsInv, Index, IndexExact, owner
    <3> QED
      BY <1>6, <1>9, <1>10, <1>13, <3>1
  <2> QED
    BY <1>7, <1>8, <2>2, <2>3, <2>4, <2>5, OneSocket
<1> QED
  BY <1>12, <1>13

\* A record that gains a key, and has no history.
LEMMA GainKeeps ==
    ASSUME EndpointsInv, TypeOK', NEW i \in Ids, NEW s, Becomes(i, s),
           \A j \in Ids \ {i} : state'[j] = state[j],
           cause' = cause, cause[i] = "none", ~HasKey(sock[i]),
           Local(s, state'[i], cause[i]), HasKey(s), Key(s) \in Keys,
           s.accepted \/ Free(i, s.kind, s.family, s.port),
           conns' = [conns EXCEPT ![Key(s)] = i], Remember
    PROVE  EndpointsInv'
<1>1. sock'[i] = s /\ \A j \in Ids \ {i} : sock'[j] = sock[j]
  BY DEF Becomes, TypeOK, EndpointsInv
<1>2. LocalInv'
  BY <1>1 DEF LocalInv, EndpointsInv
<1>3. PortsExclusive'
  BY PortsKept DEF EndpointsInv
<1>4. Index'
  BY IndexGained DEF EndpointsInv
<1>5. ResetIsTold'
  <2> SUFFICES ASSUME NEW j \in Ids, HasKey(sock'[j]), Key(sock'[j]) \notin clashed',
                      cause'[j] # "none"
               PROVE  sock'[j].phase = cause'[j]
    BY DEF ResetIsTold
  <2>1. j # i /\ sock'[j] = sock[j] /\ cause'[j] = cause[j]
    BY <1>1
  <2>2. Key(sock[j]) \in Keys
    BY <2>1, KeyInKeys DEF EndpointsInv
  <2>3. Key(sock[j]) \notin clashed
    BY <2>1, <2>2, ClashLasts
  <2> QED
    BY <2>1, <2>3 DEF EndpointsInv, ResetIsTold
<1> QED
  BY <1>2, <1>3, <1>4, <1>5 DEF EndpointsInv

\* A new connect.
LEMMA ConnectKeeps ==
    ASSUME EndpointsInv, NEW i \in Ids, NEW remote \in Remotes, NEW port \in Ports,
           Connect(i, remote, port)
    PROVE  EndpointsInv'
<1> DEFINE s == [sock[i] EXCEPT !.phase = "connecting", !.port = port, !.remote = remote]
<1>1. TypeOK /\ sock[i] \in Sockets
  BY DEF EndpointsInv, TypeOK, Sockets
<1>2. Local(sock[i], state[i], cause[i])
  BY DEF EndpointsInv, LocalInv
<1>3. /\ sock[i].kind = "tcp" /\ sock[i].phase \in {"open", "bound"}
      /\ sock' = [sock EXCEPT ![i] = s]
      /\ state' = [state EXCEPT ![i] = "synSent"]
      /\ conns' = [conns EXCEPT ![Key(s)] = i]
      /\ call' = [call EXCEPT ![i] = "wait"]
      /\ Remember
      /\ UNCHANGED <<parent, cause>>
  BY DEF Connect
<1>4. /\ s \in Sockets /\ s.phase = "connecting" /\ s.kind = "tcp"
      /\ s.family = sock[i].family /\ s.port = port /\ s.remote = remote
  BY <1>1, <1>3 DEF Sockets, Phases
<1>5. sock[i].family \in Families /\ cause[i] = "none" /\ ~HasKey(sock[i])
  BY <1>2, <1>3 DEF Local
<1>6. Free(i, "tcp", sock[i].family, port)
  BY NotInUseIsFree DEF Connect
<1>7. cursor' \in [Kinds -> First..Last]
  <2>1. CASE UNCHANGED cursor
    BY <1>1, <2>1 DEF TypeOK
  <2>2. CASE AllocateEphemeral("tcp", sock[i].family, port) /\ Advance("tcp", port)
    <3>1. "tcp" \in Kinds
      BY DEF Kinds
    <3>2. port \in First..Last
      BY <1>1, <2>2, <3>1, AllocatedIsFree
    <3> QED
      BY <1>1, <2>2, <3>1, <3>2, AdvanceInRange
  <2> QED
    BY <2>1, <2>2 DEF Connect
<1>8. clashed' \subseteq Keys
  BY <1>3 DEF Remember
<1> HIDE DEF s
<1>9. HasKey(s) /\ Key(s) \in Keys
  BY <1>4, <1>5, EndpointsAssumption DEF HasKey, Key, Keys
<1>10. Becomes(i, s)
  BY <1>3, <1>4 DEF Becomes
<1>11. state'[i] = "synSent" /\ \A j \in Ids \ {i} : state'[j] = state[j]
  BY <1>1, <1>3 DEF TypeOK
<1>12. Local(s, state'[i], cause[i])
  BY <1>4, <1>5, <1>9, <1>11, EndpointsAssumption DEF Local, Failures, Kinds
<1>13. TypeOK'
  <2>1. sock' \in [Ids -> Sockets]
    BY <1>1, <1>3, <1>4 DEF TypeOK, Sockets
  <2>2. conns' \in [Keys -> Ids \cup {0}]
    BY <1>1, <1>3 DEF TypeOK
  <2>3. /\ state' \in [Ids -> {"idle", "synSent", "established", "closeWait", "closing", "closed"}]
        /\ call' \in [Ids -> {"none", "wait", "woken", "connected", "invalid"} \cup Failures]
    BY <1>1, <1>3 DEF TypeOK
  <2> QED
    BY <1>1, <1>3, <1>7, <1>8, <2>1, <2>2, <2>3 DEF TypeOK, Sockets
<1> QED
  BY <1>3, <1>4, <1>5, <1>6, <1>9, <1>10, <1>11, <1>12, <1>13, GainKeeps

\* refresh_listener_member: a child shares its listener's port.
LEMMA PromoteKeeps ==
    ASSUME EndpointsInv, NEW i \in Ids, NEW l \in Ids, NEW remote \in Remotes,
           Promote(l, i, remote)
    PROVE  EndpointsInv'
<1> DEFINE s == [sock[l] EXCEPT !.phase = "connected", !.remote = remote, !.accepted = TRUE]
<1>1. TypeOK /\ sock[l] \in Sockets
  BY DEF EndpointsInv, TypeOK, Sockets
<1>2. Local(sock[i], state[i], cause[i]) /\ Local(sock[l], state[l], cause[l])
  BY DEF EndpointsInv, LocalInv
<1>3. /\ sock[l].phase = "listener" /\ sock[i].phase = "none"
      /\ sock' = [sock EXCEPT ![i] = s]
      /\ parent' = [parent EXCEPT ![i] = l]
      /\ conns' = [conns EXCEPT ![Key(s)] = i]
      /\ Remember
      /\ UNCHANGED <<cursor, call, cause>>
  BY DEF Promote, NextId
<1>4. PICK st \in {"established", "closeWait"} : state' = [state EXCEPT ![i] = st]
  BY DEF Promote
<1>5. /\ s \in Sockets /\ s.phase = "connected" /\ s.kind = sock[l].kind /\ s.accepted
      /\ s.family = sock[l].family /\ s.port = sock[l].port /\ s.remote = remote
  BY <1>1 DEF Sockets, Phases
<1>6. /\ sock[l].kind = "tcp" /\ sock[l].family \in Families /\ sock[l].port # 0
      /\ cause[i] = "none" /\ ~HasKey(sock[i])
  BY <1>2, <1>3 DEF Local
<1>7. clashed' \subseteq Keys
  BY <1>3 DEF Remember
<1> HIDE DEF s
<1>8. HasKey(s) /\ Key(s) \in Keys
  <2>1. s.port \in Ports
    BY <1>5, <1>6 DEF Sockets
  <2> QED
    BY <1>5, <1>6, <2>1, EndpointsAssumption DEF HasKey, Key, Keys
<1>9. Becomes(i, s)
  BY <1>3, <1>5 DEF Becomes
<1>10. state'[i] = st /\ \A j \in Ids \ {i} : state'[j] = state[j]
  BY <1>1, <1>4 DEF TypeOK
<1>11. Local(s, state'[i], cause[i])
  BY <1>5, <1>6, <1>8, <1>10 DEF Local, Failures, Kinds
<1>12. TypeOK'
  <2>1. sock' \in [Ids -> Sockets]
    BY <1>1, <1>3, <1>5 DEF TypeOK, Sockets
  <2>2. conns' \in [Keys -> Ids \cup {0}] /\ parent' \in [Ids -> Ids \cup {0}]
    BY <1>1, <1>3 DEF TypeOK
  <2>3. state' \in [Ids -> {"idle", "synSent", "established", "closeWait", "closing", "closed"}]
    BY <1>1, <1>4 DEF TypeOK
  <2> QED
    BY <1>1, <1>3, <1>7, <2>1, <2>2, <2>3 DEF TypeOK, Sockets
<1> QED
  BY <1>3, <1>5, <1>6, <1>8, <1>9, <1>10, <1>11, <1>12, GainKeeps

\* remove_tcp_socket, remove_udp_record, tcp_listener_close.
LEMMA RemovedKeeps ==
    ASSUME EndpointsInv, NEW ids \in SUBSET Ids, Removed(ids), UNCHANGED <<cursor, cause>>,
           call' \in [Ids -> {"none", "wait", "woken", "connected", "invalid"} \cup Failures]
    PROVE  EndpointsInv'
<1>1. TypeOK
  BY DEF EndpointsInv
<1>2. /\ \A j \in Ids : sock'[j] = IF j \in ids THEN Blank("gone") ELSE sock[j]
      /\ \A j \in Ids : state'[j] = IF j \in ids THEN "idle" ELSE state[j]
  BY DEF Removed
<1>3. /\ Blank("gone") \in Sockets /\ Blank("gone").phase = "gone" /\ Blank("gone").port = 0
      /\ ~HasKey(Blank("gone"))
  BY DEF Blank, Sockets, Phases, HasKey
<1>4. TypeOK'
  <2>1. sock' \in [Ids -> Sockets]
    BY <1>1, <1>3 DEF TypeOK, Sockets, Removed
  <2>2. /\ state' \in [Ids -> {"idle", "synSent", "established", "closeWait", "closing", "closed"}]
        /\ parent' \in [Ids -> Ids \cup {0}]
    BY <1>1 DEF TypeOK, Removed
  <2>3. conns' \in [Keys -> Ids \cup {0}]
    BY <1>1 DEF TypeOK, Removed, Unindexed
  <2>4. clashed' \subseteq Keys
    BY DEF Removed, Remember
  <2> QED
    BY <1>1, <2>1, <2>2, <2>3, <2>4 DEF TypeOK, Sockets
<1>5. LocalInv'
  <2> SUFFICES ASSUME NEW j \in Ids PROVE Local(sock'[j], state'[j], cause'[j])
    BY DEF LocalInv
  <2>1. CASE j \in ids
    BY <1>2, <1>3, <2>1 DEF Local, Failures
  <2>2. CASE j \notin ids
    BY <1>2, <2>2 DEF EndpointsInv, LocalInv
  <2> QED
    BY <2>1, <2>2
<1>6. PortsExclusive'
  <2> SUFFICES ASSUME NEW a \in Ids, NEW b \in Ids, a # b, sock'[a].port # 0,
                      ~sock'[a].accepted, ~sock'[b].accepted,
                      sock'[a].kind = sock'[b].kind, sock'[a].family = sock'[b].family,
                      sock'[a].port = sock'[b].port
               PROVE  FALSE
    BY DEF PortsExclusive
  <2>1. a \notin ids /\ b \notin ids
    BY <1>2, <1>3
  <2> QED
    BY <1>2, <2>1 DEF EndpointsInv, PortsExclusive
<1>7. Index'
  BY IndexRemoved DEF EndpointsInv
<1>8. ResetIsTold'
  <2> SUFFICES ASSUME NEW j \in Ids, HasKey(sock'[j]), Key(sock'[j]) \notin clashed',
                      cause'[j] # "none"
               PROVE  sock'[j].phase = cause'[j]
    BY DEF ResetIsTold
  <2>1. sock'[j] = sock[j]
    BY <1>2, <1>3
  <2>2. Key(sock[j]) \in Keys
    BY <2>1, KeyInKeys DEF EndpointsInv
  <2>3. Key(sock[j]) \notin clashed
    BY <2>1, <2>2, ClashLasts DEF Removed
  <2> QED
    BY <2>1, <2>3 DEF EndpointsInv, ResetIsTold
<1> QED
  BY <1>4, <1>5, <1>6, <1>7, <1>8 DEF EndpointsInv

\* tcp_close and udp_close.
LEMMA CloseKeeps ==
    ASSUME EndpointsInv, NEW i \in Ids, Close(i)
    PROVE  EndpointsInv'
<1>1. TypeOK
  BY DEF EndpointsInv
<1>2. call' \in [Ids -> {"none", "wait", "woken", "connected", "invalid"} \cup Failures]
  BY <1>1 DEF TypeOK, Close
<1>3. UNCHANGED <<cursor, cause>>
  BY DEF Close
<1>4. CASE sock[i].phase # "connected"
  <2>1. Removed({i} \cup Queued(i))
    BY <1>4 DEF Close
  <2>2. {i} \cup Queued(i) \in SUBSET Ids
    BY DEF Queued
  <2> QED
    BY <1>2, <1>3, <2>1, <2>2, RemovedKeeps
<1>5. CASE sock[i].phase = "connected"
  <2> DEFINE s == [sock[i] EXCEPT !.phase = "closing"]
  <2>1. "closing" \in Phases
    BY DEF Phases
  <2>2. /\ s \in Sockets /\ s.phase = "closing"
        /\ s.kind = sock[i].kind /\ s.family = sock[i].family /\ s.port = sock[i].port
        /\ s.accepted = sock[i].accepted /\ s.remote = sock[i].remote
        /\ (HasKey(s) <=> HasKey(sock[i])) /\ Key(s) = Key(sock[i])
    BY <1>1, <2>1, Rephased
  <2>3. /\ sock' = [sock EXCEPT ![i].phase = "closing"]
        /\ state' = [state EXCEPT ![i] = IF @ = "closed" THEN @ ELSE "closing"]
        /\ UNCHANGED <<parent, conns, clashed>>
    BY <1>5 DEF Close
  <2>4. Becomes(i, s)
    BY <1>1, <2>2, <2>3 DEF Becomes, TypeOK
  <2>5. \A j \in Ids \ {i} : state'[j] = state[j]
    BY <1>1, <2>3 DEF TypeOK
  <2>6. Local(sock[i], state[i], cause[i])
    BY DEF EndpointsInv, LocalInv
  <2> HIDE DEF s
  <2>7. Local(s, state'[i], cause'[i])
    BY <1>5, <2>2, <2>6 DEF Local, Failures
  <2>8. TypeOK'
    <3>1. sock' \in [Ids -> Sockets]
      BY <1>1, <2>2, <2>4 DEF TypeOK, Becomes, Sockets
    <3>2. state' \in [Ids -> {"idle", "synSent", "established", "closeWait", "closing", "closed"}]
      BY <1>1, <2>3 DEF TypeOK
    <3> QED
      BY <1>1, <1>2, <1>3, <2>3, <3>1, <3>2 DEF TypeOK, Sockets
  <2>9. HasKey(s) /\ Key(s) \notin clashed /\ cause'[i] # "none" => s.phase = cause'[i]
    <3>1. HasKey(sock[i]) /\ Key(sock[i]) \notin clashed /\ cause[i] # "none"
            => sock[i].phase = cause[i]
      BY DEF EndpointsInv, ResetIsTold
    <3>2. cause[i] \in {"none"} \cup Failures
      BY <1>1 DEF TypeOK
    <3> QED
      BY <1>3, <1>5, <2>2, <3>1, <3>2 DEF Failures
  <2> QED
    BY <1>3, <2>2, <2>3, <2>4, <2>5, <2>7, <2>8, <2>9, OneSocket
<1> QED
  BY <1>4, <1>5

\* reap_closing_tcp.
LEMMA ReapKeeps ==
    ASSUME EndpointsInv, NEW i \in Ids, Reap(i)
    PROVE  EndpointsInv'
<1>1. call' \in [Ids -> {"none", "wait", "woken", "connected", "invalid"} \cup Failures]
  BY DEF EndpointsInv, TypeOK, Reap
<1> QED
  BY <1>1, RemovedKeeps DEF Reap

-----------------------------------------------------------------------------
(* The theorems. *)

\* A stack that was just made.
LEMMA InitEndpoints ==
    Init => EndpointsInv
<1> SUFFICES ASSUME Init PROVE EndpointsInv
  OBVIOUS
<1>1. /\ Blank("none") \in Sockets /\ Blank("none").phase = "none" /\ Blank("none").port = 0
      /\ ~HasKey(Blank("none"))
  BY DEF Blank, Sockets, Phases, HasKey
<1>2. \A i \in Ids : sock[i] = Blank("none") /\ state[i] = "idle" /\ cause[i] = "none"
  BY DEF Init
<1>3. TypeOK
  <2>1. sock \in [Ids -> Sockets]
    BY <1>1 DEF Init
  <2>2. cursor \in [Kinds -> First..Last]
    BY EndpointsAssumption DEF Init
  <2> QED
    BY <2>1, <2>2 DEF Init, TypeOK, Sockets
<1>4. LocalInv
  BY <1>1, <1>2 DEF LocalInv, Local, Failures
<1>5. PortsExclusive
  BY <1>1, <1>2 DEF PortsExclusive
<1>6. Index
  BY <1>1, <1>2 DEF Index, IndexExact, ClashSeen, Init
<1>7. ResetIsTold
  BY <1>2 DEF ResetIsTold
<1> QED
  BY <1>3, <1>4, <1>5, <1>6, <1>7 DEF EndpointsInv

\* Every call, segment and timer keeps the invariant.
LEMMA NextEndpoints ==
    EndpointsInv /\ [Next]_vars => EndpointsInv'
<1> SUFFICES ASSUME EndpointsInv, [Next]_vars PROVE EndpointsInv'
  OBVIOUS
<1>1. CASE UNCHANGED vars
  BY <1>1 DEF vars, EndpointsInv, TypeOK, LocalInv, PortsExclusive, Index, IndexExact,
              ClashSeen, Holders, ResetIsTold
<1>2. ASSUME NEW i \in Ids, Step(i) PROVE EndpointsInv'
  <2>1. CASE \E kind \in Kinds, family \in Families : Open(i, kind, family)
    BY <2>1, OpenKeeps
  <2>2. CASE \E port \in Ports : Bind(i, port) \/ BindEphemeral(i, port) \/ PortWasted(i, port)
    BY <2>2, BindKeeps, BindEphemeralKeeps, PortWastedKeeps
  <2>3. CASE \E port \in Ports, remote \in Remotes : Connect(i, remote, port)
    BY <2>3, ConnectKeeps
  <2>4. CASE \E remote \in Remotes : UdpConnect(i, remote)
    BY <2>4, UdpConnectKeeps
  <2>5. CASE \E remote \in Remotes, l \in Ids : Promote(l, i, remote)
    BY <2>5, PromoteKeeps
  <2>6. CASE Retry(i) \/ Listen(i) \/ Reset(i) \/ Close(i) \/ Reap(i)
    BY <2>6, RetryKeeps, ListenKeeps, ResetKeeps, CloseKeeps, ReapKeeps
  <2>7. CASE \/ Cancel(i) \/ Accept(i) \/ PeerSynAck(i) \/ PeerFin(i)
             \/ ConnectTimeout(i) \/ Expire(i)
    BY <2>7, OthersKeep
  <2> QED
    BY <1>2, <2>1, <2>2, <2>3, <2>4, <2>5, <2>6, <2>7, ZenonT(60) DEF Step
<1> QED
  BY <1>1, <1>2 DEF Next

\* The inductive invariant of ports, index and resets holds in every reachable state.
THEOREM EndpointsInvariant == Spec => []EndpointsInv
  BY InitEndpoints, NextEndpoints, PTL DEF Spec

\* Records, the index and the allocators keep their types: an ephemeral port stays within
\* its range, past the wrap of next_ephemeral_port and next_udp_ephemeral_port.
THEOREM TypeCorrect == Spec => []TypeOK
<1>1. EndpointsInv => TypeOK
  BY DEF EndpointsInv
<1> QED
  BY <1>1, EndpointsInvariant, PTL

\* Local ports are exclusive (port_in_use, allocate_ephemeral): for any number of sockets
\* and whatever range ephemeral ports are taken from.
THEOREM PortsAreExclusive == Spec => []PortsExclusive
<1>1. EndpointsInv => PortsExclusive
  BY DEF EndpointsInv
<1> QED
  BY <1>1, EndpointsInvariant, PTL

\* tcp_connections leads to a record that has the key, and to every record whose key is its
\* own, although remove_tcp_record drops an entry without asking whose it is.
THEOREM IndexIsExact == Spec => []IndexExact
<1>1. EndpointsInv => IndexExact
  BY DEF EndpointsInv, Index
<1> QED
  BY <1>1, EndpointsInvariant, PTL

\* A socket that says it was refused or reset was (record_inbound_reset).
THEOREM ResetsAreTrue == Spec => []ResetIsTrue
<1>1. EndpointsInv => ResetIsTrue
  BY DEF EndpointsInv, LocalInv, Local, ResetIsTrue
<1> QED
  BY <1>1, EndpointsInvariant, PTL

\* A reset of a connection whose four-tuple is its own is told as what it was.
THEOREM ResetsAreTold == Spec => []ResetIsTold
<1>1. EndpointsInv => ResetIsTold
  BY DEF EndpointsInv
<1> QED
  BY <1>1, EndpointsInvariant, PTL
=============================================================================

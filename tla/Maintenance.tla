---------------------------- MODULE Maintenance -----------------------------
(***************************************************************************)
(* The maintenance a drive does within limits.maintenance_work (drive_batch *)
(* in stack.rs): egress, the sweep that reaps closing sockets              *)
(* (reap_closing_tcp) and the scan of a listener's pool (refresh_listeners), *)
(* which take turns; with tcp_listen, tcp_accept, tcp_close and             *)
(* tcp_listener_close.                                                      *)
(*                                                                         *)
(* A drive is a sequence of steps here, from `phase' "cleanup" to "end",    *)
(* and nothing else runs before it ends.  The budget of a call may run out  *)
(* (`cut') before any visit.  Both sweeps visit an ordered set of keys from *)
(* a cursor; a request during a sweep asks for another.                     *)
(*                                                                         *)
(* Time is relative: a deadline is the time left, 0 is due, Never is none.  *)
(***************************************************************************)
EXTENDS Integers, Sequences, Functions, FiniteSets

CONSTANTS Ids,             \* socket ids
          Handles,         \* the members of the listener's pool
          Backlog,         \* of the listener
          SocketLimit,     \* limits.sockets
          MaintenanceWork, \* limits.maintenance_work
          Limited,         \* whether egress needs credit
          Cuts,            \* whether a call's budget may run out
          Wait, Linger     \* TIME-WAIT and CLOSE_TIMEOUT_MILLIS

Min2(a, b) == IF a < b THEN a ELSE b

\* The pool has min(backlog, LISTENER_POOL_MAX) members, and ids do not run out.
ASSUME MaintenanceAssumption ==
    /\ Ids \subseteq Nat \ {0}
    /\ IsFiniteSet(Ids)
    /\ Handles \subseteq Nat \ {0}
    /\ IsFiniteSet(Handles)
    /\ Backlog \in Nat \ {0}
    /\ Cardinality(Handles) = Min2(Backlog, 4)
    /\ SocketLimit \in Nat \ {0}
    /\ Cardinality(Ids) >= SocketLimit - Cardinality(Handles)
    /\ MaintenanceWork \in Nat \ {0}
    /\ Limited \in BOOLEAN
    /\ Cuts \in BOOLEAN
    /\ Wait \in Nat \ {0}
    /\ Linger \in Nat \ {0}
    /\ Wait <= Linger

Never == Linger + 1
Times == 0..Never

VARIABLES
    sock,      \* each socket: "none", "queued" for accept, "open", or closing: "fin"
               \* being exchanged, "timeWait", "aborted" with its reset to be sent, "closed"
    closeAt,   \* its close_deadline
    waitAt,    \* when its TIME-WAIT ends
    pool,      \* the listener's members: "none", "listen", "half" open, "established", "dead"
    accepted,  \* its queue of children
    accepting, \* an accept waits
    flagged,   \* its ready flag is up
    cleanup,   \* the sweep of closing sockets, see Sweeps
    scan,      \* the scan of the pool
    unsent,    \* some socket has data to send
    room,      \* the device takes another packet (with Limited: credit is left)
    scheduled, \* scheduled_poll_at
    more,      \* the last effects asked for a continuation
    phase,     \* the step of the drive in progress, or "idle"
    work, ran, tried, remain, deferred, reached, cut \* the drive's locals

socketVars == <<sock, closeAt, waitAt>>
listenerVars == <<pool, accepted, accepting, flagged>>
deviceVars == <<unsent, room>>
pollVars == <<scheduled, more>>
driveVars == <<work, ran, tried, remain, deferred, reached, cut>>
vars == <<socketVars, listenerVars, cleanup, scan, deviceVars, pollVars, phase, driveVars>>

\* A sweep: whether it is pending, another one was asked for, the key it got to (0
\* before the first), and whether it goes first in the next drive.
Sweeps(keys) == [pending : BOOLEAN, resweep : BOOLEAN, cursor : keys \cup {0}, turn : BOOLEAN]
NoSweep == [pending |-> FALSE, resweep |-> FALSE, cursor |-> 0, turn |-> FALSE]

TypeOK ==
    /\ sock \in [Ids -> {"none", "queued", "open", "fin", "timeWait", "aborted", "closed"}]
    /\ closeAt \in [Ids -> Times]
    /\ waitAt \in [Ids -> Times]
    /\ pool \in [Handles -> {"none", "listen", "half", "established", "dead"}]
    /\ accepted \in Seq(Ids)
    /\ accepting \in BOOLEAN
    /\ flagged \in BOOLEAN
    /\ cleanup \in Sweeps(Ids)
    /\ scan \in Sweeps(Handles)
    /\ unsent \in BOOLEAN
    /\ room \in BOOLEAN
    /\ scheduled \in Times
    /\ more \in BOOLEAN
    /\ phase \in {"idle", "cleanup", "scan", "egress", "reap", "refresh", "end"}
    /\ work \in 0..MaintenanceWork
    /\ ran \subseteq {"cleanup", "scan"}
    /\ tried \in BOOLEAN
    /\ remain \in BOOLEAN
    /\ deferred \in BOOLEAN
    /\ reached \in BOOLEAN
    /\ cut \in BOOLEAN

\* Some sockets are connected, and there is no listener yet.
Init ==
    /\ sock \in [Ids -> {"none", "open"}]
    /\ Cardinality({i \in Ids : sock[i] # "none"}) <= SocketLimit
    /\ closeAt = [i \in Ids |-> Never]
    /\ waitAt = [i \in Ids |-> Never]
    /\ pool = [h \in Handles |-> "none"]
    /\ accepted = <<>>
    /\ accepting = FALSE
    /\ flagged = FALSE
    /\ cleanup = NoSweep
    /\ scan = NoSweep
    /\ unsent = FALSE
    /\ room = TRUE
    /\ scheduled = Never
    /\ more = FALSE
    /\ phase = "idle"
    /\ work = 0
    /\ ran = {}
    /\ tried = FALSE
    /\ remain = FALSE
    /\ deferred = FALSE
    /\ reached = FALSE
    /\ cut = FALSE

Least(S) == CHOOSE x \in S : \A y \in S : x <= y

Closing == {i \in Ids : sock[i] \in {"fin", "timeWait", "aborted", "closed"}}
Members == {h \in Handles : pool[h] # "none"}
Listening == Members # {}

-----------------------------------------------------------------------------
(* The sweeps *)

\* Mutant: a request while a sweep is pending is dropped.
RequestedOnce(s, keys) ==
    IF keys = {} \/ s.pending THEN s ELSE [s EXCEPT !.pending = TRUE, !.cursor = 0]

\* Mutant: a request while a sweep is pending starts it again.
RequestedAnew(s, keys) ==
    IF keys = {} THEN s ELSE [s EXCEPT !.pending = TRUE, !.cursor = 0]

\* request_closing_cleanup and request_listener_scan, for a sweep s of `keys'.
Requested(s, keys) ==
    CASE keys = {} -> s
      [] keys # {} /\ s.pending -> [s EXCEPT !.resweep = TRUE]
      [] OTHER -> [s EXCEPT !.pending = TRUE, !.cursor = 0]

Due(s, keys) == {k \in keys : k > s.cursor}

\* The first n keys that are due.
FirstDue(s, keys, n) ==
    {k \in Due(s, keys) : Cardinality({j \in Due(s, keys) : j < k}) < n}

\* How many keys a call with this limit visits: all it may, or fewer if its budget
\* runs out.
Visits(s, keys, limit) ==
    LET most == Min2(limit, Cardinality(Due(s, keys)))
    IN  IF cut THEN {0} ELSE {most} \cup (IF Cuts THEN 0..most ELSE {})

\* The sweep after n visits: it stops at the last of them, starts again, or is over.
Advanced(s, keys, n) ==
    LET seen == FirstDue(s, keys, n)
        last == IF seen = {} THEN s.cursor ELSE CHOOSE k \in seen : \A j \in seen : j <= k
    IN  IF n < Cardinality(Due(s, keys)) THEN [s EXCEPT !.cursor = last]
        ELSE [s EXCEPT !.cursor = 0, !.pending = s.resweep, !.resweep = FALSE]

\* The sweep when nothing is left to sweep.
Cleared(s) == [s EXCEPT !.pending = FALSE, !.resweep = FALSE, !.cursor = 0]

\* reap_closing_tcp with a limit: a socket that is done is removed, which asks for a
\* scan of the listeners; one past its deadline is reset, and its deadline dropped.
ReapClosingTcp(limit) ==
    IF Closing = {} \/ limit = 0 \/ ~cleanup.pending
    THEN /\ cleanup' = IF Closing = {} THEN Cleared(cleanup) ELSE cleanup
         /\ UNCHANGED <<socketVars, scan, work, ran, cut>>
    ELSE \E n \in Visits(cleanup, Closing, limit) :
         LET seen    == FirstDue(cleanup, Closing, n)
             reaped  == {i \in seen : sock[i] = "closed"}
             overdue == {i \in seen : sock[i] # "closed" /\ closeAt[i] = 0}
         IN  /\ sock' = [i \in Ids |-> CASE i \in reaped -> "none"
                                         [] i \in overdue -> "aborted"
                                         [] OTHER -> sock[i]]
             /\ closeAt' = [i \in Ids |-> IF i \in reaped \cup overdue THEN Never ELSE closeAt[i]]
             /\ waitAt' = [i \in Ids |-> IF i \in reaped \cup overdue THEN Never ELSE waitAt[i]]
             /\ cleanup' = IF reaped = Closing THEN Cleared(cleanup)
                           ELSE Advanced(cleanup, Closing, n)
             /\ scan' = IF reaped = {} THEN scan ELSE Requested(scan, Members)
             /\ work' = work + n
             /\ ran' = IF n > 0 THEN ran \cup {"cleanup"} ELSE ran
             /\ cut' = (cut \/ n < Min2(limit, Cardinality(Due(cleanup, Closing))))

\* Mutant: the backlog is not looked at.
CapacityNoBacklog ==
    LET live == Cardinality({i \in Ids : sock[i] # "none"})
    IN  SocketLimit - Cardinality(Members) - live

\* How many children can be made of established members: what the backlog,
\* ensure_logical_socket_capacity and ensure_native_socket_capacity allow.
Capacity ==
    LET live == Cardinality({i \in Ids : sock[i] # "none"})
    IN  Least({Backlog - Len(accepted), SocketLimit - 1 - live,
               SocketLimit - Cardinality(Members) - live})

\* Mutant: a child does not wake the accept that waits.
RefreshMembersQuiet(seen, accept) ==
    LET ready == {h \in seen : pool[h] = "established"}
        n     == IF Capacity < 0 THEN 0 ELSE Min2(Cardinality(ready), Capacity)
        free  == {i \in Ids : sock[i] = "none"}
    IN  /\ pool' = [h \in Handles |->
                       IF h \in seen /\ pool[h] \in {"established", "dead"} THEN "listen"
                       ELSE pool[h]]
        /\ \E kids \in {f \in [1..n -> free] : IsInjective(f)} :
              LET queue == accepted \o kids
                  taken == accept /\ queue # <<>>
              IN  /\ accepted' = IF taken THEN Tail(queue) ELSE queue
                  /\ sock' = [i \in Ids |-> IF taken /\ i = Head(queue) THEN "open"
                                           ELSE IF i \in Range(kids) THEN "queued"
                                           ELSE sock[i]]
                  /\ accepting' = IF accept THEN ~taken ELSE accepting
        /\ flagged' = (flagged /\ ~accept)
        /\ UNCHANGED <<closeAt, waitAt>>

\* Mutant: a child goes to the front of the queue.
RefreshMembersFront(seen, accept) ==
    LET ready == {h \in seen : pool[h] = "established"}
        n     == IF Capacity < 0 THEN 0 ELSE Min2(Cardinality(ready), Capacity)
        free  == {i \in Ids : sock[i] = "none"}
    IN  /\ pool' = [h \in Handles |->
                       IF h \in seen /\ pool[h] \in {"established", "dead"} THEN "listen"
                       ELSE pool[h]]
        /\ \E kids \in {f \in [1..n -> free] : IsInjective(f)} :
              LET queue == kids \o accepted
                  taken == accept /\ queue # <<>>
              IN  /\ accepted' = IF taken THEN Tail(queue) ELSE queue
                  /\ sock' = [i \in Ids |-> IF taken /\ i = Head(queue) THEN "open"
                                           ELSE IF i \in Range(kids) THEN "queued"
                                           ELSE sock[i]]
                  /\ accepting' = IF accept THEN ~taken ELSE accepting
        /\ flagged' = IF accept THEN accepting' /\ (\E h \in Handles : pool'[h] = "established")
                                ELSE flagged \/ (n > 0 /\ accepting)
        /\ UNCHANGED <<closeAt, waitAt>>

\* refresh_listener_member on the members `seen': those established become children,
\* in order and as far as the limits allow; they, those beyond, and dead ones are
\* replaced by new members.  A child gets a new id, and wakes the accept that waits.
\* When it is an accept that scans, it takes the first child, or waits; it is ready at
\* once when a member it did not get to is established.
RefreshMembers(seen, accept) ==
    LET ready == {h \in seen : pool[h] = "established"}
        n     == IF Capacity < 0 THEN 0 ELSE Min2(Cardinality(ready), Capacity)
        free  == {i \in Ids : sock[i] = "none"}
    IN  /\ pool' = [h \in Handles |->
                       IF h \in seen /\ pool[h] \in {"established", "dead"} THEN "listen"
                       ELSE pool[h]]
        /\ \E kids \in {f \in [1..n -> free] : IsInjective(f)} :
              LET queue == accepted \o kids
                  taken == accept /\ queue # <<>>
              IN  /\ accepted' = IF taken THEN Tail(queue) ELSE queue
                  /\ sock' = [i \in Ids |-> IF taken /\ i = Head(queue) THEN "open"
                                           ELSE IF i \in Range(kids) THEN "queued"
                                           ELSE sock[i]]
                  /\ accepting' = IF accept THEN ~taken ELSE accepting
        /\ flagged' = IF accept THEN accepting' /\ (\E h \in Handles : pool'[h] = "established")
                                ELSE flagged \/ (n > 0 /\ accepting)
        /\ UNCHANGED <<closeAt, waitAt>>

\* refresh_listeners with a limit.
RefreshListeners(limit) ==
    IF ~Listening \/ limit = 0 \/ ~scan.pending
    THEN /\ scan' = IF ~Listening THEN Cleared(scan) ELSE scan
         /\ UNCHANGED <<socketVars, listenerVars, work, ran, cut>>
    ELSE \E n \in Visits(scan, Members, limit) :
         /\ RefreshMembers(FirstDue(scan, Members, n), FALSE)
         /\ scan' = Advanced(scan, Members, n)
         /\ work' = work + n
         /\ ran' = IF n > 0 THEN ran \cup {"scan"} ELSE ran
         /\ cut' = (cut \/ n < Min2(limit, Cardinality(Due(scan, Members))))

-----------------------------------------------------------------------------
(* The steps of a drive *)

\* A drive begins, with closing sockets c, close deadlines `at' and sweeps s and l: the
\* device has handed its packets to the link, as far as there is credit, and a close
\* deadline that is due asks for a sweep.
BeginDrive(c, at, s, l, credit) ==
    /\ cleanup' = IF \E i \in c : at[i] = 0 THEN Requested(s, c) ELSE s
    /\ scan' = l
    /\ room' = (credit \/ ~Limited)
    /\ reached' = (c # {} /\ scheduled = 0)
    /\ phase' = "cleanup"
    /\ work' = 0
    /\ ran' = {}
    /\ tried' = FALSE
    /\ remain' = FALSE
    /\ cut' \in {FALSE, Cuts}
    /\ deferred' = cut'
    /\ UNCHANGED pollVars

\* The closing sweep's turn: one unit.
CleanupTurn ==
    /\ phase = "cleanup"
    /\ phase' = "scan"
    /\ IF cleanup.turn /\ cleanup.pending
       THEN ReapClosingTcp(1)
       ELSE UNCHANGED <<socketVars, cleanup, scan, work, ran, cut>>
    /\ UNCHANGED <<listenerVars, deviceVars, pollVars, tried, remain, deferred, reached>>

\* The listeners': half of what is left, or the last unit on their turn.
ScanTurn ==
    LET left == MaintenanceWork - work
    IN
    /\ phase = "scan"
    /\ phase' = "egress"
    /\ IF scan.pending /\ left > 0 /\ (left > 1 \/ scan.turn)
       THEN RefreshListeners(IF left = 1 THEN 1 ELSE left \div 2)
       ELSE UNCHANGED <<socketVars, listenerVars, scan, work, ran, cut>>
    /\ UNCHANGED <<cleanup, deviceVars, pollVars, tried, remain, deferred, reached>>

\* The egress loop goes on.
EgressGoes == phase = "egress" /\ work < MaintenanceWork /\ room

\* Sockets with a reset to send.
Aborted == {i \in Ids : sock[i] = "aborted"}

\* Sockets whose TIME-WAIT is over.
Expired == {i \in Ids : sock[i] = "timeWait" /\ waitAt[i] = 0}

\* poll_egress visits the sockets: those of `over' leave TIME-WAIT without a segment,
\* the resets of `reset' are sent, a half-open member of `dead' gives up.
Dispatched(over, reset, dead) ==
    /\ sock' = [i \in Ids |-> IF i \in over \cup reset THEN "closed" ELSE sock[i]]
    /\ waitAt' = [i \in Ids |-> IF i \in over THEN Never ELSE waitAt[i]]
    /\ pool' = [h \in Handles |-> IF h \in dead THEN "dead" ELSE pool[h]]
    /\ UNCHANGED <<closeAt, accepted, accepting, flagged>>

\* poll_egress sends something: every socket is visited, unless the device fills up.
EgressSends ==
    /\ EgressGoes
    /\ ~cut
    /\ room' \in BOOLEAN
    /\ \E over \in SUBSET Expired, reset \in SUBSET Aborted,
          dead \in SUBSET {h \in Handles : pool[h] = "half"}, data \in {FALSE, unsent} :
          /\ data \/ reset # {} \/ dead # {}
          /\ room' => over = Expired /\ reset = Aborted /\ data = unsent
          /\ Dispatched(over, reset, dead)
          /\ unsent' \in IF data THEN BOOLEAN ELSE {unsent}
    /\ cleanup' = Requested(cleanup, Closing)
    /\ scan' = Requested(scan, Members)
    /\ work' = work + 1
    /\ tried' = TRUE
    /\ remain' = TRUE
    /\ UNCHANGED <<pollVars, phase, ran, deferred, reached, cut>>

\* Mutant: nothing looks for a socket that left TIME-WAIT.
EgressEndsNoSweep(attempted, left) ==
    /\ cleanup' = cleanup
    /\ scheduled' = IF reached /\ attempted /\ ~left THEN Never ELSE scheduled
    /\ remain' = left
    /\ reached' = FALSE
    /\ tried' = FALSE
    /\ phase' = "reap"
    /\ UNCHANGED <<scan, deviceVars, more, ran>>

\* Mutant: the sweep is asked for although no egress ran.
EgressEndsSweeping(attempted, left) ==
    /\ cleanup' = IF reached THEN Requested(cleanup, Closing) ELSE cleanup
    /\ scheduled' = IF reached /\ attempted /\ ~left THEN Never ELSE scheduled
    /\ remain' = left
    /\ reached' = FALSE
    /\ tried' = FALSE
    /\ phase' = "reap"
    /\ UNCHANGED <<scan, deviceVars, more, ran>>

\* The egress loop is over.  A drive that reached the deadline last published, and ran
\* egress, sweeps the closing sockets for one that left TIME-WAIT; and so will later ones
\* until egress is done.
EgressEnds(attempted, left) ==
    /\ cleanup' = IF reached /\ attempted THEN Requested(cleanup, Closing) ELSE cleanup
    /\ scheduled' = IF reached /\ attempted /\ ~left THEN Never ELSE scheduled
    /\ remain' = left
    /\ reached' = FALSE
    /\ tried' = FALSE
    /\ phase' = "reap"
    /\ UNCHANGED <<scan, deviceVars, more, ran>>

\* poll_egress finds nothing to send.
EgressFindsNone ==
    /\ EgressGoes
    /\ ~cut
    /\ ~unsent
    /\ Aborted = {}
    /\ Dispatched(Expired, {}, {})
    /\ work' = work + 1
    /\ EgressEnds(TRUE, FALSE)
    /\ UNCHANGED <<deferred, cut>>

\* The loop ends for want of work units, room or time.
EgressStops ==
    /\ phase = "egress"
    /\ EgressGoes => cut \/ Cuts
    /\ cut' = (cut \/ EgressGoes)
    /\ deferred' = (deferred \/ EgressGoes)
    /\ EgressEnds(tried, remain \/ (~tried /\ work = MaintenanceWork))
    /\ UNCHANGED <<socketVars, listenerVars, work>>

\* The closing sweep and the scan that had no turn yet get what is left.
LateCleanup ==
    /\ phase = "reap"
    /\ phase' = "refresh"
    /\ IF "cleanup" \notin ran /\ cleanup.pending
       THEN ReapClosingTcp(MaintenanceWork - work)
       ELSE UNCHANGED <<socketVars, cleanup, scan, work, ran, cut>>
    /\ UNCHANGED <<listenerVars, deviceVars, pollVars, tried, remain, deferred, reached>>

LateScan ==
    /\ phase = "refresh"
    /\ phase' = "end"
    /\ IF "scan" \notin ran /\ scan.pending
       THEN RefreshListeners(MaintenanceWork - work)
       ELSE UNCHANGED <<socketVars, listenerVars, scan, work, ran, cut>>
    /\ UNCHANGED <<cleanup, deviceVars, pollVars, tried, remain, deferred, reached>>

\* transmit_credit_available.
EgressOpen == room \/ ~Limited

\* What smoltcp's poll_at reports: now if something can be sent.
SmoltcpPollAt ==
    IF unsent \/ Aborted # {} THEN 0
    ELSE Least({waitAt[i] : i \in Ids} \cup {Never})

\* The poll_at of effects: without credit, a poll that could only send is left out.
PollAt ==
    Least({IF EgressOpen \/ SmoltcpPollAt > 0 THEN SmoltcpPollAt ELSE Never}
          \cup {closeAt[i] : i \in Ids})

\* The effects that end a call (finish_call): a poll published is remembered.
Publish(m, at) ==
    /\ more' = m
    /\ scheduled' = IF ~m /\ at # Never THEN at ELSE scheduled

\* Mutant: a sweep keeps its turn after it ran.
EndDriveKeepsTurns ==
    /\ phase = "end"
    /\ phase' = "idle"
    /\ cleanup' = [cleanup EXCEPT !.turn = cleanup.pending]
    /\ scan' = [scan EXCEPT !.turn = scan.pending]
    /\ Publish((remain /\ EgressOpen) \/ cleanup.pending \/ scan.pending \/ deferred, PollAt)
    /\ work' = 0
    /\ ran' = {}
    /\ remain' = FALSE
    /\ deferred' = FALSE
    /\ cut' = FALSE
    /\ room' = EgressOpen
    /\ UNCHANGED <<socketVars, listenerVars, unsent, tried, reached>>

\* Mutant: a pending scan asks for no continuation.
EndDriveNoScan ==
    /\ phase = "end"
    /\ phase' = "idle"
    /\ cleanup' = [cleanup EXCEPT !.turn = "cleanup" \notin ran /\ cleanup.pending]
    /\ scan' = [scan EXCEPT !.turn = "scan" \notin ran /\ scan.pending]
    /\ Publish((remain /\ EgressOpen) \/ cleanup.pending \/ deferred, PollAt)
    /\ work' = 0
    /\ ran' = {}
    /\ remain' = FALSE
    /\ deferred' = FALSE
    /\ cut' = FALSE
    /\ room' = EgressOpen
    /\ UNCHANGED <<socketVars, listenerVars, unsent, tried, reached>>

\* The sweeps passed over go first the next time.  Without a limit on credit the packets
\* that filled the device are handed to the link.
EndDrive ==
    /\ phase = "end"
    /\ phase' = "idle"
    /\ cleanup' = [cleanup EXCEPT !.turn = "cleanup" \notin ran /\ cleanup.pending]
    /\ scan' = [scan EXCEPT !.turn = "scan" \notin ran /\ scan.pending]
    /\ Publish((remain /\ EgressOpen) \/ cleanup.pending \/ scan.pending \/ deferred, PollAt)
    /\ work' = 0
    /\ ran' = {}
    /\ remain' = FALSE
    /\ deferred' = FALSE
    /\ cut' = FALSE
    /\ room' = EgressOpen
    /\ UNCHANGED <<socketVars, listenerVars, unsent, tried, reached>>

DriveStep ==
    \/ CleanupTurn
    \/ ScanTurn
    \/ EgressSends
    \/ EgressFindsNone
    \/ EgressStops
    \/ LateCleanup
    \/ LateScan
    \/ EndDrive

-----------------------------------------------------------------------------
(* Calls *)

Idle == phase = "idle"

\* A poll, or another call that drives and changes nothing here.
Poll ==
    /\ Idle
    /\ BeginDrive(Closing, closeAt, cleanup, scan, room)
    /\ UNCHANGED <<socketVars, listenerVars, unsent>>

\* What a packet may do to a member of the pool.
MemberSteps == {<<"listen", "half">>, <<"half", "listen">>, <<"half", "established">>,
                <<"established", "dead">>}

\* A packet is processed: it may move one closing socket or one member on, whose waker
\* may wake an accept.  Both sweeps are asked for.
Packet ==
    /\ Idle
    /\ \/ UNCHANGED <<sock, waitAt, pool, flagged>>
       \/ \E i \in Closing, at \in {Wait, Never} :
             /\ sock[i] \in {"fin", "timeWait"}
             /\ sock' = [sock EXCEPT ![i] = IF at = Wait THEN "timeWait" ELSE "closed"]
             /\ waitAt' = [waitAt EXCEPT ![i] = at]
             /\ UNCHANGED <<pool, flagged>>
       \/ \E h \in Handles, m \in MemberSteps :
             /\ pool[h] = m[1]
             /\ pool' = [pool EXCEPT ![h] = m[2]]
             /\ flagged' \in {flagged, accepting}
             /\ UNCHANGED <<sock, waitAt>>
    /\ BeginDrive(Closing, closeAt, Requested(cleanup, Closing), Requested(scan, Members), room)
    /\ UNCHANGED <<closeAt, accepted, accepting, unsent>>

\* tcp_send, and others that leave something to send.
SendCall ==
    /\ Idle
    /\ \E i \in Ids : sock[i] = "open"
    /\ unsent' = TRUE
    /\ BeginDrive(Closing, closeAt, cleanup, scan, room)
    /\ UNCHANGED <<socketVars, listenerVars>>

\* grant_egress.
GrantCall ==
    /\ Idle
    /\ Limited
    /\ BeginDrive(Closing, closeAt, cleanup, scan, TRUE)
    /\ UNCHANGED <<socketVars, listenerVars, unsent>>

\* tcp_close of a connected socket: its FIN is to be sent.
CloseCall(i) ==
    LET s == Requested([cleanup EXCEPT !.cursor = 0, !.turn = FALSE], {i})
    IN
    /\ Idle
    /\ sock[i] = "open"
    /\ sock' = [sock EXCEPT ![i] = "fin"]
    /\ closeAt' = [closeAt EXCEPT ![i] = Linger]
    /\ unsent' = TRUE
    /\ BeginDrive(Closing \cup {i}, closeAt', s, scan, room)
    /\ UNCHANGED <<waitAt, listenerVars>>

\* tcp_listen.
ListenCall ==
    /\ Idle
    /\ ~Listening
    /\ Cardinality({i \in Ids : sock[i] # "none"}) + Cardinality(Handles) <= SocketLimit
    /\ pool' = [h \in Handles |-> "listen"]
    /\ BeginDrive(Closing, closeAt, cleanup, Requested(scan, Handles), room)
    /\ UNCHANGED <<socketVars, accepted, accepting, flagged, unsent>>

\* tcp_accept: it scans first, and does not drive.  Its effects are current_effects.
AcceptCall ==
    LET s == Requested(scan, Members)
    IN
    /\ Idle
    /\ Listening
    /\ ~accepting
    /\ \E n \in Visits(s, Members, MaintenanceWork) :
          /\ RefreshMembers(FirstDue(s, Members, n), TRUE)
          /\ scan' = Advanced(s, Members, n)
    /\ Publish(scan'.pending, SmoltcpPollAt)
    /\ UNCHANGED <<cleanup, deviceVars, phase, driveVars>>

\* The accept that waits is sent its select message, or cancelled.
AcceptEnds ==
    /\ Idle
    /\ accepting
    /\ accepting' = FALSE
    /\ flagged' = FALSE
    /\ UNCHANGED <<socketVars, pool, accepted, cleanup, scan, deviceVars, pollVars, phase,
                   driveVars>>

\* tcp_listener_close: the accept that waits is aborted, the members and the children in
\* the queue are released.
ListenerClose ==
    /\ Idle
    /\ Listening
    /\ pool' = [h \in Handles |-> "none"]
    /\ sock' = [i \in Ids |-> IF sock[i] = "queued" THEN "none" ELSE sock[i]]
    /\ accepted' = <<>>
    /\ accepting' = FALSE
    /\ flagged' = FALSE
    /\ BeginDrive(Closing, closeAt, cleanup, Cleared(scan), room)
    /\ UNCHANGED <<closeAt, waitAt, unsent>>

Pass(t) == IF t \in {0, Never} THEN t ELSE t - 1

\* One unit of time passes.  A TIME-WAIT lasts seconds and a continuation runs at once:
\* none ends while one is due.
Tick ==
    /\ Idle
    /\ more => \A i \in Ids : waitAt[i] # 1
    /\ closeAt' = [i \in Ids |-> Pass(closeAt[i])]
    /\ waitAt' = [i \in Ids |-> Pass(waitAt[i])]
    /\ scheduled' = Pass(scheduled)
    /\ <<closeAt, waitAt, scheduled>>' # <<closeAt, waitAt, scheduled>>
    /\ UNCHANGED <<sock, listenerVars, cleanup, scan, deviceVars, more, phase, driveVars>>

\* The calls that drive.
DrivingCalls ==
    \/ Poll
    \/ Packet
    \/ SendCall
    \/ GrantCall
    \/ \E i \in Ids : CloseCall(i)
    \/ ListenCall
    \/ ListenerClose

Next == DriveStep \/ DrivingCalls \/ AcceptCall \/ AcceptEnds \/ Tick

Spec == Init /\ [][Next]_vars

-----------------------------------------------------------------------------
(* Properties *)

\* A key is still ahead of a sweep that is pending, or of the next.
Covered(s, k) == s.pending /\ (s.resweep \/ k > s.cursor)

\* Between calls, a closing socket that is done will be visited by a sweep that is under
\* way, and does not hold its slot until its close deadline (the comment on
\* scheduled_deadline_reached).
DoneIsSwept ==
    Idle => \A i \in Ids : sock[i] = "closed" => Covered(cleanup, i)

\* Between calls, so will a member that is established or dead.
MemberIsScanned ==
    Idle => \A h \in Handles : pool[h] \in {"established", "dead"} => Covered(scan, h)

\* An accept that waits while a child is queued is woken (mark_listener_ready).
ChildWakesAccept ==
    accepting /\ accepted # <<>> => flagged

\* "The accepted queue never exceeds the requested backlog" (ADR 0007), and native
\* sockets stay within limits.sockets, the member that replaces a child included.
WithinLimits ==
    /\ Len(accepted) <= Backlog
    /\ Cardinality({i \in Ids : sock[i] # "none"}) + Cardinality(Members) <= SocketLimit

\* The sequence q starts with p.
PrefixOf(p, q) == Len(p) <= Len(q) /\ \A a \in 1..Len(p) : q[a] = p[a]

\* "Existing queued children are never displaced" (ADR 0007): new children queue behind
\* the others, and only the first leaves, for an accept, unless the listener is closed.
QueueIsFifo ==
    [][pool' # [h \in Handles |-> "none"] /\ accepted # <<>>
          => \/ PrefixOf(accepted, accepted')
             \/ sock'[Head(accepted)] = "open" /\ PrefixOf(Tail(accepted), accepted')]_vars
=============================================================================

----------------------------- MODULE Readiness -----------------------------
(***************************************************************************)
(* The readiness machinery of one native stack: the socket table's waiter  *)
(* slots (socket_table.rs), the bounded ready queue (waiter.rs) and the    *)
(* part of NativeStack that every native call ends with, finish_call, with *)
(* cancel, close, shutdown and the polls that continue them (stack.rs).    *)
(*                                                                         *)
(* A native call is serialised by the owner process, but it is not one     *)
(* step here: `phase' walks through the loops of the call, each of which   *)
(* may be cut short by a limit or by the call's time budget (Loop); what   *)
(* is then retained is the point of the model.  A new call starts only in  *)
(* phase "idle".                                                           *)
(*                                                                         *)
(* Identities: socket ids are never reused, so an id stands for the pair   *)
(* (id, generation).  A ReadyKey (id, direction) is the number             *)
(* 2 * id + direction, whose order is the order of the code's BTreeSet.    *)
(* A waiter is its select reference; 0 is None.                            *)
(***************************************************************************)
EXTENDS Integers, FiniteSets

CONSTANTS MaxId,           \* MAX_SOCKET_ID
          MaxRef,          \* bound: references ever issued
          ReadyEvents,     \* limits.ready_events
          MaxWaiters,      \* limits.max_waiters
          MaintenanceWork, \* limits.maintenance_work
          MaxStructures,   \* bound: retained structures at shutdown
          Contention       \* whether a try_lock of the ready queue may fail

ASSUME LimitsAssumption ==
    /\ MaxId \in Nat \ {0}
    /\ MaxRef \in Nat
    /\ ReadyEvents \in Nat \ {0}
    /\ MaxWaiters \in Nat
    /\ MaintenanceWork \in Nat \ {0}
    /\ MaxStructures \in Nat
    /\ Contention \in BOOLEAN

Ids == 1..MaxId
Refs == 1..MaxRef

Read == 0
Write == 1
Key(i, d) == 2 * i + d
Keys == 2..(2 * MaxId + 1)
Id(k) == k \div 2

\* ReadyQueue::new(max(1, ready_events / 2)).
QueueCapacity == IF ReadyEvents \div 2 > 1 THEN ReadyEvents \div 2 ELSE 1

VARIABLES
    lifecycle,   \* "running", "shuttingDown" or "shutdown"
    live,        \* ids with an entry in the socket table
    nextId,      \* the id of the next entry
    waiter,      \* the waiter slot of every key, 0 when empty
    sent,        \* the reference last notified through a key (remember_sent)
    flag,        \* read_ready / write_ready of every key
    waiterCount, \* SocketTable::waiter_count
    progress,    \* keys whose waiter could make progress if it were told
    queue,       \* the ready queue's keys
    overflow,    \* the ready queue's overflow bit
    sweep, cursor, resweep,  \* ready_sweep, ready_sweep_cursor (0 = None), ready_sweep_resweep
    sweepPending,            \* ready_sweep_pending
    pending,                 \* pending_notifications: references to abort
    structures,  \* records, indexes and packets left for shutdown to discard
    registered,  \* smoltcp: the key's one-shot waker is registered
    nextRef,     \* the next select reference
    selected, aborted, cancelled, \* references sent a select, sent an abort, cancelled with :ok
    continuation,  \* the owner holds an immediate poll message for itself
    phase,       \* where the native call in progress is
    preserve,    \* the call in progress was made with :preserve_timer
    budget,      \* the call's time and reduction budget is not exhausted
    work,        \* readiness_work (maintenance_work while phase = "shutdownWork")
    batch,       \* keys drained or scanned and not yet delivered
    scanned,     \* entries_scanned
    complete     \* the scan reached the end of the table

tableVars == <<live, nextId, waiter, sent, waiterCount, progress>>
queueVars == <<queue, overflow>>
sweepVars == <<sweep, cursor, resweep>>
refVars == <<nextRef, selected, aborted, cancelled>>
scanVars == <<scanned, complete>>
callVars == <<phase, preserve, budget, work, batch, scanVars>>
vars == <<lifecycle, tableVars, flag, queueVars, sweepVars, sweepPending, pending,
          structures, registered, refVars, continuation, callVars>>

Phases == {"idle", "drive", "shutdownWork", "aborts", "drain", "deliver",
           "resume", "scan", "scanDeliver", "finish"}

TypeOK ==
    /\ lifecycle \in {"running", "shuttingDown", "shutdown"}
    /\ live \subseteq Ids
    /\ nextId \in 1..(MaxId + 1)
    /\ waiter \in [Keys -> Refs \cup {0}]
    /\ sent \in [Keys -> Refs \cup {0}]
    /\ flag \in [Keys -> BOOLEAN]
    /\ waiterCount \in Int
    /\ progress \subseteq Keys
    /\ queue \subseteq Keys
    /\ overflow \in BOOLEAN
    /\ sweep \in BOOLEAN
    /\ cursor \in Keys \cup {0}
    /\ resweep \in BOOLEAN
    /\ sweepPending \subseteq Keys
    /\ pending \subseteq Refs
    /\ structures \in Nat
    /\ registered \in [Keys -> BOOLEAN]
    /\ nextRef \in 1..(MaxRef + 1)
    /\ selected \subseteq Refs
    /\ aborted \subseteq Refs
    /\ cancelled \subseteq Refs
    /\ continuation \in BOOLEAN
    /\ phase \in Phases
    /\ preserve \in BOOLEAN
    /\ budget \in BOOLEAN
    /\ work \in Nat
    /\ batch \subseteq Keys
    /\ scanned \in Nat
    /\ complete \in BOOLEAN

Init ==
    /\ lifecycle = "running"
    /\ live = {}
    /\ nextId = 1
    /\ waiter = [k \in Keys |-> 0]
    /\ sent = [k \in Keys |-> 0]
    /\ flag = [k \in Keys |-> FALSE]
    /\ waiterCount = 0
    /\ progress = {}
    /\ queue = {}
    /\ overflow = FALSE
    /\ sweep = FALSE
    /\ cursor = 0
    /\ resweep = FALSE
    /\ sweepPending = {}
    /\ pending = {}
    /\ structures = 0
    /\ registered = [k \in Keys |-> FALSE]
    /\ nextRef = 1
    /\ selected = {}
    /\ aborted = {}
    /\ cancelled = {}
    /\ continuation = FALSE
    /\ phase = "idle"
    /\ preserve = FALSE
    /\ budget = TRUE
    /\ work = 0
    /\ batch = {}
    /\ scanned = 0
    /\ complete = FALSE

-----------------------------------------------------------------------------
(* Helpers *)

\* ReadyWaker::mark_ready.  A key already flagged coalesces.  Otherwise it is
\* queued, or, with the queue full or its lock contended, only the overflow bit
\* is set.
MarkReady(k) ==
    \/ /\ flag[k]
       /\ UNCHANGED <<flag, queueVars>>
    \/ /\ ~flag[k]
       /\ flag' = [flag EXCEPT ![k] = TRUE]
       /\ \/ /\ Cardinality(queue) < QueueCapacity
             /\ queue' = queue \cup {k}
             /\ UNCHANGED overflow
          \/ /\ Cardinality(queue) >= QueueCapacity \/ Contention
             /\ overflow' = TRUE
             /\ UNCHANGED queue

\* A call starts at phase p when no other is in progress (its budget is fresh); pres says whether the owner will preserve its timer.
Begin(p, pres) ==
    /\ phase = "idle"
    /\ phase' = p
    /\ preserve' = pres
    /\ UNCHANGED <<budget, work>>

\* The references in the waiter slots of the keys ks.
Waiting(ks) == {waiter[k] : k \in ks} \ {0}

\* Mutant: the count drops by the directions, not by the waiters.
TakeWaitersPerDirection(ks) ==
    /\ waiter' = [k \in Keys |-> IF k \in ks THEN 0 ELSE waiter[k]]
    /\ waiterCount' = waiterCount - Cardinality(ks)
    /\ progress' = progress \ ks

\* SocketTable::take_waiter and close: the waiters of ks leave their slots.
TakeWaiters(ks) ==
    /\ waiter' = [k \in Keys |-> IF k \in ks THEN 0 ELSE waiter[k]]
    /\ waiterCount' = waiterCount - Cardinality({k \in ks : waiter[k] # 0})
    /\ progress' = progress \ ks

\* deliver_ready of each of the keys ks: take_ready_waiter, the select message and
\* remember_sent.  A missing entry is Stale, a clear flag Coalesced, an empty slot
\* NoWaiter.  Outside Running the keys are discarded.
DeliverOrDiscard(ks) ==
    LET ready == {k \in ks : lifecycle = "running" /\ Id(k) \in live /\ flag[k]}
    IN  /\ flag' = [k \in Keys |-> k \notin ready /\ flag[k]]
        /\ TakeWaiters(ready)
        /\ selected' = selected \cup Waiting(ready)
        /\ sent' = [k \in Keys |-> IF k \in ready /\ waiter[k] # 0
                                   THEN waiter[k] ELSE sent[k]]

\* After a scan: a complete pass ends the sweep, or starts the second one asked
\* for; an incomplete one keeps its cursor.
SweepStep ==
    IF complete /\ resweep
    THEN resweep' = FALSE /\ cursor' = 0 /\ UNCHANGED sweep
    ELSE /\ sweep' = ~complete
         /\ cursor' = IF complete THEN 0 ELSE cursor
         /\ UNCHANGED resweep

-----------------------------------------------------------------------------
(* Calls *)

\* tcp_open, udp_open: SocketTable::insert.
Open ==
    /\ lifecycle = "running"
    /\ nextId <= MaxId
    /\ Begin("aborts", TRUE)
    /\ live' = live \cup {nextId}
    /\ nextId' = nextId + 1
    /\ UNCHANGED <<lifecycle, waiter, sent, waiterCount, progress, flag, queueVars,
                   sweepVars, sweepPending, pending, structures, registered, refVars, continuation, batch,
                   scanVars>>

\* Mutant: the direction is ready already and nobody wakes the waiter.
ArmNoWake(k, ready, drive) ==
    /\ lifecycle = "running"
    /\ Id(k) \in live
    /\ waiter[k] = 0
    /\ waiterCount < MaxWaiters
    /\ nextRef <= MaxRef
    /\ Begin(IF drive THEN "drive" ELSE "aborts", FALSE)
    /\ waiter' = [waiter EXCEPT ![k] = nextRef]
    /\ sent' = [sent EXCEPT ![k] = 0]
    /\ waiterCount' = waiterCount + 1
    /\ nextRef' = nextRef + 1
    /\ registered' = [registered EXCEPT ![k] = TRUE]
    /\ progress' = IF ready THEN progress \cup {k} ELSE progress
    /\ UNCHANGED <<flag, queueVars>>
    /\ UNCHANGED <<lifecycle, live, nextId, sweepVars, sweepPending, pending,
                   structures, selected, aborted, cancelled, continuation,
                   batch, scanVars>>

\* A send, receive, accept or connect that does not complete: install_waiter,
\* register the waker with smoltcp, and wake at once when the direction still is
\* ready (immediately_ready).  tcp_accept does not drive the interface.  (An
\* operation that completes, or fails, changes none of this: it is a PollCall.)
Arm(k, ready, drive) ==
    /\ lifecycle = "running"
    /\ Id(k) \in live
    /\ waiter[k] = 0
    /\ waiterCount < MaxWaiters
    /\ nextRef <= MaxRef
    /\ Begin(IF drive THEN "drive" ELSE "aborts", FALSE)
    /\ waiter' = [waiter EXCEPT ![k] = nextRef]
    /\ sent' = [sent EXCEPT ![k] = 0]
    /\ waiterCount' = waiterCount + 1
    /\ nextRef' = nextRef + 1
    /\ registered' = [registered EXCEPT ![k] = TRUE]
    /\ progress' = IF ready THEN progress \cup {k} ELSE progress
    /\ IF ready THEN MarkReady(k) ELSE UNCHANGED <<flag, queueVars>>
    /\ UNCHANGED <<lifecycle, live, nextId, sweepVars, sweepPending, pending,
                   structures, selected, aborted, cancelled, continuation,
                   batch, scanVars>>

\* cancel with the reference installed: the waiter leaves its slot, the flag is
\* cleared and the caller gets :ok.  A key already queued stays queued.
CancelWaiting(k) ==
    /\ lifecycle = "running"
    /\ Id(k) \in live
    /\ waiter[k] # 0
    /\ Begin("aborts", TRUE)
    /\ TakeWaiters({k})
    /\ flag' = [flag EXCEPT ![k] = FALSE]
    /\ cancelled' = cancelled \cup {waiter[k]}
    /\ UNCHANGED <<lifecycle, live, nextId, sent, queueVars, sweepVars, sweepPending,
                   pending, structures, registered, nextRef, selected, aborted,
                   continuation, batch, scanVars>>

\* cancel with the reference already sent or unknown: :already_sent or
\* :not_found, and the table does not change; the call still ends in finish_call.
CancelOther ==
    /\ lifecycle = "running"
    /\ live # {}
    /\ Begin("aborts", TRUE)
    /\ UNCHANGED <<lifecycle, tableVars, flag, queueVars, sweepVars, sweepPending,
                   pending, structures, registered, refVars, continuation, batch,
                   scanVars>>

\* Mutant: the waiters taken are remembered as sent.
ShutdownDirectionsSent(i, ds) ==
    LET ks == {k \in {Key(i, d) : d \in ds} : waiter[k] # 0}
    IN  /\ lifecycle = "running"
        /\ i \in live
        /\ Begin("drive", FALSE)
        /\ TakeWaiters(ks)
        /\ flag' = [k \in Keys |-> IF k \in ks THEN FALSE ELSE flag[k]]
        /\ pending' = pending \cup Waiting(ks)
        /\ sent' = [k \in Keys |-> IF k \in ks THEN waiter[k] ELSE sent[k]]
        /\ UNCHANGED <<lifecycle, live, nextId, queueVars, sweepVars,
                       sweepPending, structures, registered, refVars, continuation,
                       batch, scanVars>>

\* tcp_shutdown of the directions ds: their waiters are taken, to be aborted.
ShutdownDirections(i, ds) ==
    LET ks == {k \in {Key(i, d) : d \in ds} : waiter[k] # 0}
    IN  /\ lifecycle = "running"
        /\ i \in live
        /\ Begin("drive", FALSE)
        /\ TakeWaiters(ks)
        /\ flag' = [k \in Keys |-> IF k \in ks THEN FALSE ELSE flag[k]]
        /\ pending' = pending \cup Waiting(ks)
        /\ UNCHANGED <<lifecycle, live, nextId, sent, queueVars, sweepVars,
                       sweepPending, structures, registered, refVars, continuation,
                       batch, scanVars>>

\* tcp_close, udp_close: the entry leaves the table with both waiters.  A graceful
\* close keeps the smoltcp socket, its record and its wakers until it is reaped.
Close(i, graceful) ==
    LET ks == {Key(i, Read), Key(i, Write)}
    IN  /\ lifecycle = "running"
        /\ i \in live
        /\ Begin("drive", FALSE)
        /\ live' = live \ {i}
        /\ TakeWaiters(ks)
        /\ pending' = pending \cup Waiting(ks)
        /\ registered' = [k \in Keys |-> (graceful \/ k \notin ks) /\ registered[k]]
        /\ UNCHANGED <<lifecycle, nextId, sent, flag, queueVars, sweepVars,
                       sweepPending, structures, refVars, continuation, batch, scanVars>>

\* poll, ingress and grant_egress calls of a running stack.
PollCall ==
    /\ lifecycle = "running"
    /\ Begin("drive", FALSE)
    /\ UNCHANGED <<lifecycle, tableVars, flag, queueVars, sweepVars, sweepPending,
                   pending, structures, registered, refVars, continuation, batch,
                   scanVars>>

\* shutdown: linearised by the lifecycle, then as continue_shutdown.  n records,
\* indexes and packets are there to discard besides the table.
Shutdown(n) ==
    /\ lifecycle \in {"running", "shuttingDown"}
    /\ structures' = IF lifecycle = "running" THEN n ELSE structures
    /\ Begin(IF pending = {} THEN "shutdownWork" ELSE "aborts", FALSE)
    /\ lifecycle' = "shuttingDown"
    /\ sweep' = FALSE
    /\ cursor' = 0
    /\ resweep' = FALSE
    /\ sweepPending' = {}
    /\ UNCHANGED <<tableVars, flag, queueVars, pending, registered, refVars,
                   continuation, batch, scanVars>>

\* poll_call of a stack that is shutting down: continue_shutdown.
ContinueShutdown ==
    /\ lifecycle = "shuttingDown"
    /\ Begin(IF pending = {} THEN "shutdownWork" ELSE "aborts", FALSE)
    /\ UNCHANGED <<lifecycle, tableVars, flag, queueVars, sweepVars, sweepPending,
                   pending, structures, registered, refVars, continuation, batch,
                   scanVars>>

-----------------------------------------------------------------------------
(* Inside a call *)

\* Driving the interface changes a direction a waker is registered on, which
\* fires it; smoltcp's wakers are one-shot.
SocketReady(k) ==
    /\ phase = "drive"
    /\ registered[k]
    /\ registered' = [registered EXCEPT ![k] = FALSE]
    /\ MarkReady(k)
    /\ progress' = IF waiter[k] # 0 THEN progress \cup {k} ELSE progress
    /\ UNCHANGED <<lifecycle, live, nextId, waiter, sent, waiterCount, sweepVars, sweepPending, pending, structures,
                   refVars, continuation, callVars>>

\* The interface has been driven; finish_call begins, with whatever budget is left.
DriveDone ==
    /\ phase = "drive"
    /\ phase' = "aborts"
    /\ budget' \in BOOLEAN
    /\ UNCHANGED <<lifecycle, tableVars, flag, queueVars, sweepVars, sweepPending,
                   pending, structures, registered, refVars, continuation, preserve,
                   work, batch, scanVars>>

\* Mutant: only the reader of a socket is told of the shutdown.
ShutdownSocketReader(i) ==
    LET ks == {Key(i, Read), Key(i, Write)}
    IN  /\ phase = "shutdownWork"
        /\ work < MaintenanceWork
        /\ i \in live
        /\ \A j \in live : i <= j
        /\ live' = live \ {i}
        /\ TakeWaiters(ks)
        /\ pending' = pending \cup Waiting({Key(i, Read)})
        /\ work' = work + 1
        /\ UNCHANGED <<lifecycle, nextId, sent, flag, queueVars, sweepVars,
                       sweepPending, structures, registered, refVars, continuation,
                       phase, preserve, budget, batch, scanVars>>

\* An iteration of shutdown_work that finds a table entry: close_next.
ShutdownSocket(i) ==
    LET ks == {Key(i, Read), Key(i, Write)}
    IN  /\ phase = "shutdownWork"
        /\ work < MaintenanceWork
        /\ i \in live
        /\ \A j \in live : i <= j
        /\ live' = live \ {i}
        /\ TakeWaiters(ks)
        /\ pending' = pending \cup Waiting(ks)
        /\ work' = work + 1
        /\ UNCHANGED <<lifecycle, nextId, sent, flag, queueVars, sweepVars,
                       sweepPending, structures, registered, refVars, continuation,
                       phase, preserve, budget, batch, scanVars>>

\* An iteration of shutdown_work past the table: one record, index or packet.
ShutdownStructure ==
    /\ phase = "shutdownWork"
    /\ work < MaintenanceWork
    /\ live = {}
    /\ structures > 0
    /\ structures' = structures - 1
    /\ work' = work + 1
    /\ UNCHANGED <<lifecycle, tableVars, flag, queueVars, sweepVars, sweepPending,
                   pending, registered, refVars, continuation, phase, preserve, budget,
                   batch, scanVars>>

\* shutdown_work ends: its limit is reached, nothing is left, or (at any
\* iteration) the budget is out.
ShutdownWorkDone ==
    /\ phase = "shutdownWork"
    /\ budget' \in BOOLEAN
    /\ budget' => work >= MaintenanceWork \/ (live = {} /\ structures = 0)
    /\ phase' = "aborts"
    /\ work' = 0
    /\ UNCHANGED <<lifecycle, tableVars, flag, queueVars, sweepVars, sweepPending,
                   pending, structures, registered, refVars, continuation, preserve,
                   batch, scanVars>>

-----------------------------------------------------------------------------
(* finish_call *)

\* A bounded loop of finish_call handles `done' of the `todo' items it has, at
\* most `room' of them.  It handles fewer than it could only when the budget runs
\* out; and the budget, once out, stays out for the call (CallBudget::checkpoint).
Loop(done, todo, room) ==
    /\ done \subseteq todo
    /\ Cardinality(done) <= room
    /\ ~budget => done = {}
    /\ budget' \in BOOLEAN
    /\ budget' => budget /\ (done = todo \/ Cardinality(done) = room)

\* Mutant: an overflow during a sweep is taken to be covered by it.
SendAbortsNoResweep(rs) ==
    /\ phase = "aborts"
    /\ Loop(rs, pending, ReadyEvents)
    /\ pending' = pending \ rs
    /\ aborted' = aborted \cup rs
    /\ work' = Cardinality(rs)
    /\ overflow' = FALSE
    /\ IF overflow /\ lifecycle = "running"
       THEN IF sweep
            THEN UNCHANGED sweepVars
            ELSE sweep' = TRUE /\ cursor' = 0 /\ UNCHANGED resweep
       ELSE UNCHANGED sweepVars
    /\ phase' = "drain"
    /\ UNCHANGED <<lifecycle, tableVars, flag, queue, sweepPending, structures,
                   registered, nextRef, selected, cancelled, continuation, preserve,
                   batch, scanVars>>

\* The aborts owed are sent, the ones in rs in this call.  (The code sends the
\* oldest first; any here.)  Then take_overflow starts a sweep, or has the one
\* under way followed by another.
SendAborts(rs) ==
    /\ phase = "aborts"
    /\ Loop(rs, pending, ReadyEvents)
    /\ pending' = pending \ rs
    /\ aborted' = aborted \cup rs
    /\ work' = Cardinality(rs)
    /\ overflow' = FALSE
    /\ IF overflow /\ lifecycle = "running"
       THEN IF sweep
            THEN resweep' = TRUE /\ UNCHANGED <<sweep, cursor>>
            ELSE sweep' = TRUE /\ cursor' = 0 /\ UNCHANGED resweep
       ELSE UNCHANGED sweepVars
    /\ phase' = "drain"
    /\ UNCHANGED <<lifecycle, tableVars, flag, queue, sweepPending, structures,
                   registered, nextRef, selected, cancelled, continuation, preserve,
                   batch, scanVars>>

\* ReadyQueue::drain_while: the first keys of the queue, ks, leave it.
DrainQueue(ks) ==
    /\ phase = "drain"
    /\ Loop(ks, queue, ReadyEvents - work)
    /\ \A k \in ks, j \in queue \ ks : k < j
    /\ queue' = queue \ ks
    /\ batch' = ks
    /\ phase' = "deliver"
    /\ UNCHANGED <<lifecycle, tableVars, flag, overflow, sweepVars, sweepPending,
                   pending, structures, registered, refVars, continuation, preserve,
                   work, scanVars>>

\* The queue's lock is contended: nothing is drained and the overflow bit is set.
DrainContended ==
    /\ Contention
    /\ phase = "drain"
    /\ work < ReadyEvents
    /\ budget
    /\ overflow' = TRUE
    /\ phase' = "deliver"
    /\ UNCHANGED <<lifecycle, tableVars, flag, queue, sweepVars, sweepPending, pending,
                   structures, registered, refVars, continuation, preserve, budget,
                   work, batch, scanVars>>

\* The first drained or scanned keys, ks, are delivered; those the budget does not
\* allow are retained in ready_sweep_pending.  (The scan's cost was added to the
\* work when it ended.)
Deliver(ks) ==
    /\ phase \in {"deliver", "scanDeliver"}
    /\ Loop(ks, batch, Cardinality(batch))
    /\ \A k \in ks, j \in batch \ ks : k < j
    /\ DeliverOrDiscard(ks)
    /\ sweepPending' = sweepPending \cup (batch \ ks)
    /\ batch' = {}
    /\ IF phase = "deliver"
       THEN /\ phase' = "resume"
            /\ work' = work + Cardinality(ks)
            /\ UNCHANGED sweepVars
       ELSE /\ phase' = "finish"
            /\ SweepStep
            /\ UNCHANGED work
    /\ UNCHANGED <<lifecycle, live, nextId, queueVars, pending, structures, registered,
                   nextRef, aborted, cancelled, continuation, preserve, scanVars>>

\* The retained keys ks are delivered (the code takes the oldest; any here).  If
\* that leaves none, and room, a sweep under way scans the table next.
Resume(ks) ==
    /\ phase = "resume"
    /\ Loop(ks, sweepPending, ReadyEvents - work)
    /\ DeliverOrDiscard(ks)
    /\ sweepPending' = sweepPending \ ks
    /\ work' = work + Cardinality(ks)
    /\ phase' = IF sweep /\ sweepPending' = {} /\ work' < ReadyEvents
                THEN "scan" ELSE "finish"
    /\ UNCHANGED <<lifecycle, live, nextId, queueVars, sweepVars, pending, structures,
                   registered, nextRef, aborted, cancelled, continuation, preserve,
                   batch, scanVars>>

\* The entries a scan still has to visit: those whose write key the cursor has
\* not reached.
Ahead == {i \in live : Key(i, Write) > cursor}

ScanLimit == ReadyEvents - work

\* The scan is over; its cost is the larger of the entries and the keys.
EndScan(n, keys, done) ==
    /\ phase' = "scanDeliver"
    /\ complete' = done
    /\ work' = work + (IF n > Cardinality(keys) THEN n ELSE Cardinality(keys))

\* One iteration of scan_ready, for the first entry i ahead of the cursor.  The
\* read key is skipped when the cursor is on it.
ScanEntry(i) ==
    LET readKey  == Key(i, Read)
        writeKey == Key(i, Write)
        takeRead == cursor # readKey /\ flag[readKey]
        keys1 == IF takeRead THEN batch \cup {readKey} ELSE batch
        keys2 == IF flag[writeKey] THEN keys1 \cup {writeKey} ELSE keys1
    IN  /\ phase = "scan"
        /\ budget
        /\ i \in Ahead
        /\ \A j \in Ahead : i <= j
        /\ scanned' = scanned + 1
        /\ \/ \* the key limit is reached, or the budget ends, between the two keys
              /\ takeRead
              /\ budget' \in BOOLEAN
              /\ budget' => Cardinality(keys1) = ScanLimit
              /\ batch' = keys1
              /\ cursor' = readKey
              /\ EndScan(scanned + 1, keys1, FALSE)
           \/ /\ takeRead => Cardinality(keys1) # ScanLimit
              /\ batch' = keys2
              /\ cursor' = writeKey
              /\ IF Cardinality(keys2) = ScanLimit \/ scanned + 1 = ScanLimit
                 THEN EndScan(scanned + 1, keys2, \A j \in live : j <= i)
                 ELSE UNCHANGED <<phase, complete, work>>
              /\ UNCHANGED budget
        /\ UNCHANGED <<lifecycle, tableVars, flag, queueVars, sweep, resweep,
                       sweepPending, pending, structures, registered, refVars,
                       continuation, preserve>>

\* No entry ahead, or no budget to look at it.
ScanStops ==
    /\ phase = "scan"
    /\ budget' \in BOOLEAN
    /\ budget' => budget /\ Ahead = {}
    /\ EndScan(scanned, batch, Ahead = {})
    /\ UNCHANGED <<lifecycle, tableVars, flag, queueVars, sweepVars, sweepPending,
                   pending, structures, registered, refVars, continuation, preserve,
                   batch, scanned>>

\* Readiness work retained for the next call.
Retained ==
    \/ pending # {}
    \/ overflow
    \/ queue # {}
    \/ sweepPending # {}
    \/ sweep

\* shutdown_pending.
ShutdownPending == live # {} \/ structures > 0 \/ Retained

\* Mutant: a budget that has run out stays out for the next call.
ReturnSpent ==
    /\ phase' = "idle"
    /\ preserve' = FALSE
    /\ budget' = budget
    /\ work' = 0
    /\ scanned' = 0
    /\ complete' = FALSE

\* The call's local state ends with it; the next one has a budget of its own.
Return ==
    /\ phase' = "idle"
    /\ preserve' = FALSE
    /\ budget' = TRUE
    /\ work' = 0
    /\ scanned' = 0
    /\ complete' = FALSE

\* The envelope's `more' and what the owner makes of it (apply_effects): a
\* preserving call leaves an outstanding poll alone, any other replaces it.
FinishCall ==
    /\ phase = "finish"
    /\ lifecycle = "running"
    /\ continuation' = (Retained \/ (preserve /\ continuation))
    /\ Return
    /\ UNCHANGED <<lifecycle, tableVars, flag, queueVars, sweepVars, sweepPending,
                   pending, structures, registered, refVars, batch>>

\* Mutant: the stack is down once its structures are gone.
FinishShutdownEarly ==
    /\ phase = "finish"
    /\ lifecycle # "running"
    /\ continuation' = ShutdownPending
    /\ IF live # {} \/ structures > 0
       THEN UNCHANGED <<lifecycle, sweepVars, sweepPending>>
       ELSE /\ lifecycle' = "shutdown"
            /\ sweep' = FALSE
            /\ cursor' = 0
            /\ resweep' = FALSE
            /\ sweepPending' = {}
    /\ Return
    /\ UNCHANGED <<tableVars, flag, queueVars, pending, structures, registered, refVars,
                   batch>>

\* Mutant: the structures left do not ask for a continuation.
FinishShutdownNoMore ==
    /\ phase = "finish"
    /\ lifecycle # "running"
    /\ continuation' = Retained
    /\ IF ShutdownPending
       THEN UNCHANGED <<lifecycle, sweepVars, sweepPending>>
       ELSE /\ lifecycle' = "shutdown"
            /\ sweep' = FALSE
            /\ cursor' = 0
            /\ resweep' = FALSE
            /\ sweepPending' = {}
    /\ Return
    /\ UNCHANGED <<tableVars, flag, queueVars, pending, structures, registered, refVars,
                   batch>>

\* The end of continue_shutdown.
FinishShutdown ==
    /\ phase = "finish"
    /\ lifecycle # "running"
    /\ continuation' = ShutdownPending
    /\ IF ShutdownPending
       THEN UNCHANGED <<lifecycle, sweepVars, sweepPending>>
       ELSE /\ lifecycle' = "shutdown"
            /\ sweep' = FALSE
            /\ cursor' = 0
            /\ resweep' = FALSE
            /\ sweepPending' = {}
    /\ Return
    /\ UNCHANGED <<tableVars, flag, queueVars, pending, structures, registered, refVars,
                   batch>>

-----------------------------------------------------------------------------
Call ==
    \/ Open
    \/ \E k \in Keys, ready, drive \in BOOLEAN : Arm(k, ready, drive)
    \/ \E k \in Keys : CancelWaiting(k)
    \/ CancelOther
    \/ \E i \in Ids, ds \in {{Read}, {Write}, {Read, Write}} : ShutdownDirections(i, ds)
    \/ \E i \in Ids, graceful \in BOOLEAN : Close(i, graceful)
    \/ PollCall
    \/ \E n \in 0..MaxStructures : Shutdown(n)
    \/ ContinueShutdown

Step ==
    \/ DriveDone
    \/ \E i \in Ids : ShutdownSocket(i)
    \/ ShutdownStructure
    \/ ShutdownWorkDone
    \/ \E rs \in SUBSET pending : SendAborts(rs)
    \/ \E ks \in SUBSET queue : DrainQueue(ks)
    \/ DrainContended
    \/ \E ks \in SUBSET batch : Deliver(ks)
    \/ \E ks \in SUBSET sweepPending : Resume(ks)
    \/ \E i \in Ids : ScanEntry(i)
    \/ ScanStops
    \/ FinishCall
    \/ FinishShutdown

Next ==
    \/ Call
    \/ Step
    \/ \E k \in Keys : SocketReady(k)

Spec == Init /\ [][Next]_vars

\* The owner handles the poll message it holds for itself.
Continue == continuation /\ (PollCall \/ ContinueShutdown)

-----------------------------------------------------------------------------
(* Properties *)

\* The keys installed in a slot, and their references.
Slots == {k \in Keys : waiter[k] # 0}

Issued == 1..(nextRef - 1)

\* No lost wake-up (waiter.rs, finish_call): a flag that is up on an open socket
\* is on its way to being looked at.  It is queued, retained, drained in this
\* call, announced by the overflow bit, or ahead of the sweep's cursor, or a
\* second sweep is due.  A flag nobody looks at again would coalesce every later
\* wake-up of its direction for ever.
FlagsCovered ==
    lifecycle = "running" =>
        \A k \in Keys : flag[k] /\ Id(k) \in live =>
            \/ k \in queue \cup batch \cup sweepPending
            \/ overflow
            \/ sweep /\ (resweep \/ k > cursor)

\* A waiter is never left with nothing to wake it.  One that could make progress
\* has its flag up and, between calls, the owner holds a poll message for itself;
\* for any other, smoltcp holds the waker.
NoStrandedWaiter ==
    lifecycle = "running" =>
        \A k \in Slots :
            IF k \in progress
            THEN flag[k] /\ (phase = "idle" => continuation)
            ELSE registered[k]

\* The references of the waiter slots wait, those of pending_notifications are owed
\* an abort, and the slots remember some of those sent.
Service == INSTANCE SelectService WITH
    waiting <- Waiting(Keys),
    owed <- pending,
    remembered <- {sent[k] : k \in Keys} \ {0}

\* The readiness machinery implements SelectService: no reference is lost, none is
\* notified twice, none that cancel answered :ok for is notified later, and cancel's
\* :already_sent is true, wherever limits, budgets and overflows cut the calls.
ImplementsService == Service!Spec

\* A reference is in one slot only, and in one place only: what makes every step one
\* of SelectService.
PlaceInv ==
    /\ Service!OneFate
    /\ \A k1, k2 \in Slots : waiter[k1] = waiter[k2] => k1 = k2

\* waiter_count is the number of waiters in the table, so the limit neither leaks
\* nor lets more in (socket_table.rs).
WaiterCountExact == waiterCount = Cardinality(Slots) /\ waiterCount <= MaxWaiters

\* Retained work keeps a poll outstanding, in a running stack and in one that is
\* shutting down ("Any retained work sets `more: true`").
RetainedIsContinued ==
    /\ phase = "idle" /\ Retained => continuation
    /\ phase = "idle" /\ lifecycle = "shuttingDown" => continuation

\* A stack that is down has told everyone: no waiter is left behind.
ShutdownComplete == lifecycle = "shutdown" => Slots = {} /\ pending = {} /\ live = {}

\* The strengthening that makes the no-lost-wake-up invariants inductive.
\* Where a call is: keys are in hand only between draining or scanning and
\* delivering, only a sweep scans, a complete scan has left no entry ahead of its
\* cursor, and a stack that is down makes no calls.
PhaseInv ==
    /\ phase \notin {"deliver", "scan", "scanDeliver"} => batch = {}
    /\ phase \in {"scan", "scanDeliver"} => sweep
    /\ phase = "scanDeliver" /\ complete => Ahead = {}
    /\ lifecycle = "shutdown" => phase = "idle"

\* Identities are fresh: an id not yet handed out has no entry, flag or waker.
FreshInv ==
    /\ \A i \in live : i < nextId
    /\ \A k \in Keys : Id(k) >= nextId => ~flag[k] /\ ~registered[k]

\* Only open sockets have waiters.
SlotsLive == \A k \in Slots : Id(k) \in live

\* A waiter that could make progress has its flag up; smoltcp holds the waker of
\* any other.
ArmedInv ==
    /\ progress \subseteq Slots
    /\ lifecycle = "running" =>
           \A k \in Slots : IF k \in progress THEN flag[k] ELSE registered[k]

\* The inductive invariant behind FlagsCovered, NoStrandedWaiter,
\* RetainedIsContinued and ShutdownComplete.
WakeupInv ==
    /\ TypeOK
    /\ PhaseInv
    /\ FreshInv
    /\ SlotsLive
    /\ ArmedInv
    /\ FlagsCovered
    /\ RetainedIsContinued
=============================================================================

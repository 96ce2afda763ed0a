---------------------------- MODULE MCStackOwner ----------------------------
(***************************************************************************)
(* Liveness of StackOwner for TLC.  At most MaxCalls calls arrive, and as  *)
(* often a drive may leave readiness work behind (that this drains is the  *)
(* business of MCReadiness).  A unit of time is longer than the owner      *)
(* takes to come to rest: time passes when it has.                         *)
(***************************************************************************)
EXTENDS StackOwner

CONSTANT MaxCalls
VARIABLE calls

mcVars == <<vars, calls>>

\* The owner has nothing to do until a call arrives or time passes.
Resting == ~alive \/ (admitted = 0 /\ fresh = 0 /\ stale = 0 /\ timerAt > 0)

\* A step of the owner; readiness work left behind uses up a call.
Own(A) ==
    /\ A
    /\ calls' = IF ready' THEN calls + 1 ELSE calls
    /\ calls' <= MaxCalls

MCInit == Init /\ calls = 0
MCPollFresh == Own(PollFresh)
MCProcessing == Own(Processing)
MCPollStale == PollStale /\ UNCHANGED calls
MCPollFails == (PollFails \/ PollFatal) /\ UNCHANGED calls
MCFireTimer == FireTimer /\ UNCHANGED calls
MCCall == Call /\ calls < MaxCalls /\ calls' = calls + 1
MCTick == Resting /\ Tick /\ UNCHANGED calls
MCNext ==
    \/ MCPollFresh
    \/ MCPollStale
    \/ MCPollFails
    \/ MCProcessing
    \/ MCFireTimer
    \/ MCCall
    \/ MCTick

\* The owner handles every message of its mailbox, and a timer that is due fires.
MCSpec ==
    /\ MCInit
    /\ [][MCNext]_mcVars
    /\ WF_mcVars(MCPollFresh)
    /\ WF_mcVars(MCPollStale)
    /\ WF_mcVars(MCPollFails)
    /\ WF_mcVars(MCProcessing)
    /\ WF_mcVars(MCFireTimer)

\* A feeder that is held is answered (continue_pending_ingress): it called with no
\* timeout.
HeldIsAnswered == pending > 0 ~> pending = 0

\* The owner never spins: left alone it comes to rest, whether there is credit to
\* send or not.  Polls that cannot progress before the next grant are not asked for
\* (drive_batch's filter on poll_at, and its `more').
ComesToRest == []<>Resting
=============================================================================

--------------------------- MODULE MCSocketClient ---------------------------
(***************************************************************************)
(* SocketClient for TLC: symmetry among readers, and fairness.             *)
(***************************************************************************)
EXTENDS SocketClient, TLC

Symmetry == Permutations(Readers) \cup Permutations(Writers)

\* Processes run, the owner handles every request, and it delivers what is ready or
\* owed: a call that leaves some is followed by a poll (modules Readiness and
\* StackOwner).
Fairness ==
    /\ \A c \in Clients : WF_vars(Client(c)) /\ WF_vars(Owner(c))
    /\ \A d \in Dirs : WF_vars(Notify(d))
    /\ \A r \in Refs : WF_vars(SendAbort(r))

LiveSpec == Spec /\ Fairness

\* A call without a deadline does not outlive its socket, its connection or its
\* stack: once the socket is closed, the connection has failed or the owner is gone,
\* even killed, every call returns (await_select waits for the abort and the DOWN).
\* A client out of requests is not followed further.
CloseEndsCalls ==
    \A c \in Clients :
        pc[c] # "idle" /\ (~open \/ ~alive \/ failed # "no" \/ tcp = "closed")
            ~> pc[c] = "idle" \/ req[c] = MaxRequests
=============================================================================

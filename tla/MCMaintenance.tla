--------------------------- MODULE MCMaintenance ----------------------------
(* Fairness and liveness of Maintenance, for model checking. *)
EXTENDS Maintenance

\* A continuation.
Continue == more /\ Poll

\* A native call runs to its end, and the owner answers `more' with a poll.  Packets may
\* keep coming, and nothing makes them.
Fairness == WF_vars(DriveStep) /\ WF_vars(Continue)

\* tcp_accept is left out: it reports current_effects, and so drops a continuation that
\* is due (the run owner_snapshot of StackOwner).
LiveSpec == Init /\ [][DriveStep \/ DrivingCalls \/ Tick]_vars /\ Fairness

\* A closing socket that is done is released, however many packets ask for further
\* sweeps (closing_cleanup_resweep).
DoneIsReaped ==
    \A i \in Ids : sock[i] = "closed" ~> sock[i] # "closed"

\* An established member is made a child or replaced, whatever comes in.
MemberIsPromoted ==
    \A h \in Handles : pool[h] = "established" ~> pool[h] # "established"

\* A socket with something to send gets its egress: "replenishment cannot ... permanently
\* starve established sockets" (ADR 0007).
EgressIsTried == unsent ~> tried \/ ~unsent

\* A step of a system that is left alone, has nothing it may send and time enough.
QuietStep == (Continue \/ (DriveStep /\ ~EgressSends)) /\ ~cut'

\* A stack left alone comes to rest, without credit too and wherever budgets that ran
\* out have left its sweeps: no sweep asks for continuations for ever.
ComesToRest == <>[][QuietStep]_vars => <>[](Idle /\ ~more)
=============================================================================

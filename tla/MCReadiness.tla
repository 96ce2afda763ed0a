---------------------------- MODULE MCReadiness ----------------------------
(***************************************************************************)
(* Liveness of Readiness for TLC.  The budget of a call runs out, or a     *)
(* drain finds the queue's lock taken, at most MaxCuts times in a          *)
(* behaviour: every call starts with a fresh budget and the lock is held   *)
(* for one push, so calls that are cut short do not go on for ever.        *)
(***************************************************************************)
EXTENDS Readiness

CONSTANT MaxCuts
VARIABLE cuts

mcVars == <<vars, cuts>>

Contended == phase = "drain" /\ phase' = "deliver" /\ budget' /\ queue' = queue /\ overflow'

Cut(A) ==
    /\ A
    /\ cuts' = IF (budget /\ ~budget') \/ Contended THEN cuts + 1 ELSE cuts
    /\ cuts' <= MaxCuts

MCInit == Init /\ cuts = 0
MCStep == Cut(Step)
MCContinue == Cut(Continue)
MCNext == Cut(Next)

\* A native call runs to its end, and the owner gets to its poll message (its
\* mailbox is first in, first out) whatever other calls arrive.
MCSpec == MCInit /\ [][MCNext]_mcVars /\ WF_mcVars(MCStep) /\ SF_mcVars(MCContinue)

\* Liveness of the machinery: a waiter whose wake-up was recorded is told, or has
\* been aborted or cancelled, however the calls are cut short.
ReadyIsNotified ==
    \A r \in Refs :
        (\E k \in Keys : waiter[k] = r /\ flag[k]) ~> r \in selected \cup aborted \cup cancelled

\* An abort owed is sent, also across a shutdown that begins meanwhile.
AbortIsSent == \A r \in Refs : r \in pending ~> r \in aborted

\* A shutdown that has begun ends (continue_shutdown).
ShutdownConverges == lifecycle = "shuttingDown" ~> lifecycle = "shutdown"
=============================================================================

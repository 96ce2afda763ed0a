--------------------------- MODULE SelectService ---------------------------
(***************************************************************************)
(* What the stack promises about select references (ADR 0005), whatever    *)
(* queue, sweep, limit and budget lies between a socket and its waiter.    *)
(*                                                                         *)
(* An operation that cannot complete is given a reference, which waits.    *)
(* It leaves the waiting ones once: with a select message, because cancel  *)
(* took it back with :ok, or because its socket or stack closes.  Then an  *)
(* abort is owed, and sent.  Nothing happens to a reference after that,    *)
(* and cancel says :already_sent only of one that was sent its select.     *)
(***************************************************************************)
EXTENDS Naturals

VARIABLES
    nextRef,    \* the next reference
    waiting,    \* references that wait for their operation to become possible
    owed,       \* references to be sent an abort
    selected,   \* references sent a select message
    aborted,    \* references sent an abort message
    cancelled,  \* references cancel answered :ok for
    remembered  \* references cancel would answer :already_sent for

vars == <<nextRef, waiting, owed, selected, aborted, cancelled, remembered>>

Init ==
    /\ nextRef = 1
    /\ waiting = {}
    /\ owed = {}
    /\ selected = {}
    /\ aborted = {}
    /\ cancelled = {}
    /\ remembered = {}

\* An operation is told {:select, ...} with a reference never used before.
Issue ==
    /\ waiting' = waiting \cup {nextRef}
    /\ nextRef' = nextRef + 1
    /\ UNCHANGED <<owed, selected, aborted, cancelled>>

\* The operations of the references R have become possible: their callers are told.
Select(R) ==
    /\ waiting' = waiting \ R
    /\ selected' = selected \cup R
    /\ UNCHANGED <<nextRef, owed, aborted, cancelled>>

\* cancel, answered :ok.
Cancel(r) ==
    /\ waiting' = waiting \ {r}
    /\ cancelled' = cancelled \cup {r}
    /\ UNCHANGED <<nextRef, owed, selected, aborted>>

\* A direction is shut down, a socket closes, or the stack shuts down.
Owe(R) ==
    /\ waiting' = waiting \ R
    /\ owed' = owed \cup R
    /\ UNCHANGED <<nextRef, selected, aborted, cancelled>>

Abort(R) ==
    /\ owed' = owed \ R
    /\ aborted' = aborted \cup R
    /\ UNCHANGED <<nextRef, waiting, selected, cancelled>>

\* A new operation makes its direction forget what was sent.
Forget == UNCHANGED <<nextRef, waiting, owed, selected, aborted, cancelled>>

Next ==
    /\ \/ Issue
       \/ \E R \in SUBSET waiting : Select(R) \/ Owe(R)
       \/ \E r \in waiting : Cancel(r)
       \/ \E R \in SUBSET owed : Abort(R)
       \/ Forget
    /\ remembered' \subseteq selected'

Spec == Init /\ [][Next]_vars

-----------------------------------------------------------------------------
(* Properties *)

\* Every reference ever issued is in exactly one place.
OneFate ==
    /\ 1..(nextRef - 1) = waiting \cup owed \cup selected \cup aborted \cup cancelled
    /\ waiting \cap (owed \cup selected \cup aborted \cup cancelled) = {}
    /\ owed \cap (selected \cup aborted \cup cancelled) = {}
    /\ selected \cap (aborted \cup cancelled) = {}
    /\ aborted \cap cancelled = {}
    /\ remembered \subseteq selected
=============================================================================

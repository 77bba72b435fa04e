---------------------------- MODULE RuntimePair ----------------------------
(***************************************************************************)
(* What the Runtime pointers promise: the current and the previous Runtime *)
(* are one value.  It is replaced in one step, and only by a change that   *)
(* is under way or by the desktop's recovery, whatever fails meanwhile.    *)
(* The promise ends when the desktop restores a Runtime by itself while a  *)
(* change is under way.                                                    *)
(***************************************************************************)
CONSTANTS Versions, Seed, None

VARIABLES
    cur,       \* the Runtime in use
    prev,      \* the one to roll back to, or None
    underway,  \* changes: the Runtime of an install, None for a rollback
    disturbed  \* a recovery and a change have overlapped

vars == <<cur, prev, underway, disturbed>>

Changes == Versions \union {None}

Init == cur = Seed /\ prev = None /\ underway = {} /\ disturbed = FALSE

\* Changes begin, end well or not, or are cut short.
Ask ==
    /\ underway' \in SUBSET Changes
    /\ UNCHANGED <<cur, prev, disturbed>>

Promote(v) ==
    /\ v \in underway
    /\ cur' = v /\ prev' = cur
    /\ UNCHANGED <<underway, disturbed>>

Rollback ==
    /\ None \in underway
    /\ prev # None
    /\ cur' = prev /\ prev' = cur
    /\ UNCHANGED <<underway, disturbed>>

Recover ==
    /\ cur' = IF prev # None THEN prev ELSE Seed
    /\ UNCHANGED <<prev, underway, disturbed>>

Disturb ==
    /\ disturbed'
    /\ cur' \in Versions
    /\ prev' \in Versions \union {None}
    /\ underway' \in SUBSET Changes

Next ==
    \/ Ask
    \/ \E v \in Versions : Promote(v)
    \/ Rollback \/ Recover \/ Disturb

Spec == Init /\ [][Next]_vars
=============================================================================

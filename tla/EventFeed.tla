----------------------------- MODULE EventFeed -----------------------------
(***************************************************************************)
(* What a page that follows the events is promised: from the place where   *)
(* it begins it is given the events of one generation number by number,    *)
(* each once, and where some are passed over, or another generation        *)
(* begins, it is told so.  Even then nothing it was given is given again.  *)
(*                                                                         *)
(* The promise ends when the numbers themselves are no longer to be        *)
(* trusted: when a process died with events it had not written, or the     *)
(* page after a reset was of yet another generation.                       *)
(***************************************************************************)
EXTENDS Integers, Sequences

CONSTANTS
    Event,  \* records with a generation and a seq, among others
    Place   \* records of a generation and a seq

VARIABLES
    start,   \* where the page began
    place,   \* how far it has come
    given,   \* the events given to it in between
    told,    \* it was told that some are missing
    excused  \* the promise has ended

vars == <<start, place, given, told, excused>>

PlaceOf(e) == [generation |-> e.generation, seq |-> e.seq]

Init ==
    /\ place \in Place
    /\ start = place
    /\ given = <<>>
    /\ told = FALSE
    /\ excused = FALSE

\* The page begins, from a snapshot or where it was when it was closed.
Begin ==
    /\ place' \in Place
    /\ start' = place'
    /\ given' = <<>>
    /\ told' = FALSE
    /\ UNCHANGED excused

\* The numbers of a generation go up.
InOrder(some) ==
    \A i, j \in DOMAIN some :
        i < j /\ some[i].generation = some[j].generation
          => some[i].seq < some[j].seq

\* No event is missing between a place and these, or among them.
Follow(from, some) ==
    \A i \in DOMAIN some :
        PlaceOf(some[i]) = [generation |-> from.generation,
                            seq |-> from.seq + i]

\* Some events are given that are new to the page: they come after all that
\* it was given, and after its place, of their generation.
Give ==
    LET some == SubSeq(given', Len(given) + 1, Len(given')) IN
    /\ some \in Seq(Event)
    /\ some # <<>>
    /\ given' = given \o some
    /\ InOrder(given')
    /\ \A i \in DOMAIN some :
         some[i].generation = place.generation => some[i].seq > place.seq
    /\ place' = PlaceOf(some[Len(some)])
    /\ told' = (told \/ ~Follow(place, some))
    /\ UNCHANGED <<start, excused>>

Excuse ==
    /\ excused'
    /\ start' \in Place /\ place' \in Place
    /\ given' \in Seq(Event)
    /\ told' \in BOOLEAN

Next == Begin \/ Give \/ Excuse

Spec == Init /\ [][Next]_vars

-----------------------------------------------------------------------------
(* What follows from it. *)

\* Unless it was told otherwise, the page has exactly the events between where
\* it began and where it is, each of them once.
EachOnce ==
    ~excused /\ ~told =>
        /\ Follow(start, given)
        /\ place = [generation |-> start.generation,
                    seq |-> start.seq + Len(given)]
=============================================================================

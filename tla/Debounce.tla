------------------------------ MODULE Debounce ------------------------------
(***************************************************************************)
(* What the timer of loadbalancer.py promises, whatever reloads do after   *)
(* they started: events are counted, and a reload that starts answers      *)
(* every event seen so far at once.                                        *)
(***************************************************************************)
EXTENDS Naturals

VARIABLES seen,      \* events read from the watch
          covered    \* events that happened before the newest start of a reload

vars == <<seen, covered>>

Init == seen = 0 /\ covered = 0

Event == seen' = seen + 1 /\ UNCHANGED covered

Start == /\ covered < seen
         /\ covered' = seen
         /\ UNCHANGED seen

Next == Event \/ Start

Spec == Init /\ [][Next]_vars

\* A reload that is due starts.
FairSpec == Spec /\ WF_vars(Start)
=============================================================================

----------------------------- MODULE AtLeastOnce -----------------------------
(***************************************************************************)
(* What the boot queue promises of a job, whoever loses what on the way:   *)
(* a job the publisher was told about is not lost, but for a restart of    *)
(* the broker, and a job is removed from the queue only after it ran.      *)
(***************************************************************************)
CONSTANT Jobs

VARIABLES
    place,   \* where a job is
    told,    \* jobs the publisher counts as accepted
    ran      \* jobs that were run to the end at least once

vars == <<place, told, ran>>

Init == place = [j \in Jobs |-> "new"] /\ told = {} /\ ran = {}

Moves(S, from, to) ==
    /\ \A j \in S : place[j] = from
    /\ place' = [j \in Jobs |-> IF j \in S THEN to ELSE place[j]]

\* A job that is published may be lost at once, or later together with others.
Submit(j) == (\E to \in {"sent", "lost"} : Moves({j}, "new", to)) /\ UNCHANGED <<told, ran>>

Lose(S) == Moves(S, "sent", "lost") /\ UNCHANGED <<told, ran>>

Accept(j) == Moves({j}, "sent", "waiting") /\ UNCHANGED <<told, ran>>

Tell(j) ==
    /\ place[j] \in {"waiting", "done", "wiped"}
    /\ told' = told \cup {j} /\ UNCHANGED <<place, ran>>

\* A job that is on its way to be run when the broker forgets it may run all the same.
Run(j) ==
    /\ place[j] \in {"waiting", "wiped"}
    /\ ran' = ran \cup {j} /\ UNCHANGED <<place, told>>

Complete(j) == j \in ran /\ Moves({j}, "waiting", "done") /\ UNCHANGED <<told, ran>>

\* The broker restarts: it keeps nothing.
Wipe ==
    /\ place' = [j \in Jobs |-> CASE place[j] = "waiting" -> "wiped"
                                  [] place[j] = "sent" -> "lost"
                                  [] OTHER -> place[j]]
    /\ UNCHANGED <<told, ran>>

Step == \/ \E j \in Jobs : Submit(j) \/ Accept(j) \/ Tell(j) \/ Run(j) \/ Complete(j)
        \/ \E S \in SUBSET {j \in Jobs : place[j] = "sent"} : Lose(S)
        \/ Wipe

\* What changes nothing needs no witness: TLC finds out first.
Next == vars' # vars /\ Step

Spec == Init /\ [][Next]_vars
=============================================================================

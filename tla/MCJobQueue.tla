----------------------------- MODULE MCJobQueue -----------------------------
(* Finite instances of JobQueue for TLC. *)
EXTENDS JobQueue, TLC

\* Two jobs in all, of the same connection or of two, and one of the programs gets a
\* second try.
FewFaults == Cardinality(issued) <= 2 /\ starts + connections <= 3

Replies == {"channel", "exchange", "queue", "bind"}

PublisherSetsUp == plink = "up" /\ pproc = "running" /\ pstage \in Replies
ReceiverSetsUp == link = "up" /\ R!LoopIdle /\ stage \in Replies

\* Between the replies of a set-up nothing depends on how far the other program is: a
\* set-up goes on, or is interrupted, before anything else happens.
SetUpFirst ==
    IF PublisherSetsUp THEN pstage' # pstage \/ plink' # plink
    ELSE ReceiverSetsUp => stage' # stage \/ link' # link \/ closing' # closing
=============================================================================

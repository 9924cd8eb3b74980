--------------------------- MODULE MCRetainedScan ---------------------------
(***************************************************************************)
(* Values for RetainedScan: times in the proportion of the program's, no   *)
(* record or three of them on the broker, one foreign publication.         *)
(***************************************************************************)
EXTENDS RetainedScan

MCTopic   == {"t1", "t2", "t3"}
MCPayload == {"old", "new"}
MCStart   == {[t \in MCTopic |-> "old"], [t \in MCTopic |-> None]}
=============================================================================

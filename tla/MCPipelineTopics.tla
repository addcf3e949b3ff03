-------------------------- MODULE MCPipelineTopics --------------------------
(***************************************************************************)
(* Two instances of the pipeline in one run.  A behaviour is explored as   *)
(* long as it is about one job in one process, with new data, an upgrade   *)
(* and an unanswered call; or about two jobs in two processes, without     *)
(* them.                                                                   *)
(***************************************************************************)
EXTENDS MCAnalysisPipeline

OneProcessOneJob ==
  /\ \E w \in Workers : \A v \in Workers \ {w} : run[v] = Idle
  /\ row[j2].status = "absent"

SameWorld ==
  /\ evidence = 1 /\ release = 1 /\ interrupts = 0
  /\ \A w \in Workers : run[w].answer \subseteq {1}
  /\ \A i \in DOMAIN raw : raw[i].accepts \subseteq {1}

OneTopic == OneProcessOneJob \/ SameWorld
=============================================================================

------------------------- MODULE MCAnalysisPipeline -------------------------
(***************************************************************************)
(* Instances of AnalysisPipeline for TLC.  Each cfg names the jobs, the    *)
(* workers and the bounds; workers are interchangeable.                    *)
(***************************************************************************)
EXTENDS AnalysisPipelineRefines, TLC

CONSTANTS j1, j2, w1, w2, nojob

OneJob == {j1}
TwoJobs == {j1, j2}
OneWorker == {w1}
TwoWorkers == {w1, w2}
NoJobs == {}

WorkerSymmetry == Permutations(Workers)
=============================================================================

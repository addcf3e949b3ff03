---------------------- MODULE AnalysisPipelineRefines ----------------------
(***************************************************************************)
(* The durable pipeline implements AnalysisLedger: the input of a job is   *)
(* the packet in its row, the ledger is the sequence of saved analyses,    *)
(* and the entry a job names is final_analysis_id.                         *)
(***************************************************************************)
EXTENDS AnalysisPipeline

Ledger == INSTANCE AnalysisLedger WITH
            Inputs <- 1 .. MaxEvidence,
            input  <- [j \in Jobs |-> row[j].result.packet],
            ledger <- [i \in DOMAIN analyses |->
                         [job |-> analyses[i].job, input |-> analyses[i].packet]],
            named  <- [j \in Jobs |-> row[j].result.final]

(* Every step of the pipeline fixes an input, publishes one analysis of    *)
(* that input, names it, or is invisible to the ledger.                    *)
ImplementsLedger == Ledger!Spec
=============================================================================

--------------------------- MODULE AnalysisLedger ---------------------------
(***************************************************************************)
(* What the durable pipeline promises its operator, without stages,        *)
(* processes or failures: a job fixes its input once, at most one analysis *)
(* of exactly that input enters the ledger for it, and the job is closed   *)
(* with the analysis that is in the ledger.  The ledger only grows.        *)
(***************************************************************************)
EXTENDS Naturals, Sequences

CONSTANTS Jobs, Inputs

VARIABLES
  input,     \* input[j]: what job j works from, 0 until it is fixed
  ledger,    \* the accepted analyses, in the order of the thesis revisions
  named      \* named[j]: the ledger entry job j reports, 0 before it does

lvars == <<input, ledger, named>>

Entries(j) == {i \in DOMAIN ledger : ledger[i].job = j}

Init ==
  /\ input = [j \in Jobs |-> 0]
  /\ ledger = <<>>
  /\ named = [j \in Jobs |-> 0]

Fix(j) ==
  /\ input[j] = 0
  /\ \E p \in Inputs : input' = [input EXCEPT ![j] = p]
  /\ UNCHANGED <<ledger, named>>

Publish(j) ==
  /\ input[j] # 0 /\ Entries(j) = {}
  /\ ledger' = Append(ledger, [job |-> j, input |-> input[j]])
  /\ UNCHANGED <<input, named>>

Name(j) ==
  /\ named[j] = 0
  /\ \E i \in Entries(j) : named' = [named EXCEPT ![j] = i]
  /\ UNCHANGED <<input, ledger>>

Next == \E j \in Jobs : Fix(j) \/ Publish(j) \/ Name(j)

Spec == Init /\ [][Next]_lvars
=============================================================================

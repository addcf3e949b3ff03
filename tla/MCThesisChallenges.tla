------------------------- MODULE MCThesisChallenges -------------------------
(***************************************************************************)
(* Instances of ThesisChallenges for TLC; processes are interchangeable.   *)
(***************************************************************************)
EXTENDS ThesisChallengesRefines, TLC

CONSTANTS p1, p2

OneCommand == {p1}
TwoCommands == {p1, p2}
ChallengeKinds == {"grill", "respond"}
UpdateKinds == {"analyze", "update", "retry"}

CommandSymmetry == Permutations(Commands)
=============================================================================

----------------------- MODULE ThesisChallengesRefines -----------------------
(***************************************************************************)
(* ThesisChallenges implements ChallengeDesk: the desk shows, of each row  *)
(* of thesis_challenges, its status and its two links.                     *)
(***************************************************************************)
EXTENDS ThesisChallenges

Entry(ch) == [status |-> ch.status, response |-> ch.response, answer |-> ch.answer]

DeskView == [c \in DOMAIN challenges |-> Entry(challenges[c])]

Desk == INSTANCE ChallengeDesk WITH
  Challenges <- 1 .. MaxChallenges,
  desk <- DeskView

(* Every challenge receives at most one response, and is closed once, by   *)
(* an operator or by a revision made after its own response came in; no    *)
(* response or revision serves two challenges.                             *)
ImplementsDesk == Desk!Spec
=============================================================================

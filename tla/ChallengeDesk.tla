---------------------------- MODULE ChallengeDesk ----------------------------
(***************************************************************************)
(* What the challenge loop promises of every challenge, whoever answers or *)
(* resolves it: it is filed once; it receives at most one response, which  *)
(* is no other challenge's; and it is closed once, by an operator or by a  *)
(* revision made after the response was received, which closes no other.   *)
(***************************************************************************)
CONSTANT Challenges

VARIABLE desk    \* the entries of the challenges filed so far

Open(c) == c \in DOMAIN desk /\ desk[c].status = "open"
Others(c) == DOMAIN desk \ {c}

Init == desk = << >>

File(c) ==
  /\ c \notin DOMAIN desk
  /\ \E status \in {"open", "upheld"} :
       desk' = [d \in DOMAIN desk \cup {c} |->
                  IF d = c THEN [status |-> status, response |-> 0, answer |-> 0]
                           ELSE desk[d]]

Receive(c) ==
  LET response == desk'[c].response IN
  /\ Open(c) /\ desk[c].response = 0
  /\ response # 0 /\ \A d \in Others(c) : desk[d].response # response
  /\ desk' = [desk EXCEPT ![c].response = response]

Answer(c) ==
  LET revision == desk'[c].answer IN
  /\ Open(c) /\ desk[c].response # 0
  /\ revision # 0 /\ \A d \in Others(c) : desk[d].answer # revision
  /\ \E status \in {"upheld", "revised"} :
       desk' = [desk EXCEPT ![c] =
         [status |-> status, response |-> @.response, answer |-> revision]]

Close(c) ==
  /\ Open(c)
  /\ \E status \in {"upheld", "revised", "rejected"} : desk' = [desk EXCEPT ![c].status = status]

Next == \E c \in Challenges : File(c) \/ Receive(c) \/ Answer(c) \/ Close(c)

Spec == Init /\ [][Next]_desk
=============================================================================

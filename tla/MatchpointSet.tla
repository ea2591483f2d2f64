--------------------------- MODULE MatchpointSet ---------------------------
(***************************************************************************)
(* What the matchpoint table promises a debugger: a set.  A matchpoint is  *)
(* hit exactly from the insertion that was answered OK to the removal that *)
(* was, however often either is repeated; other requests change nothing.   *)
(***************************************************************************)
CONSTANTS Matchpoints, Supported  \* Supported: those that get an OK

VARIABLES
  set,
  answer  \* the last request or check, the matchpoint it named if any, the reply

Answer(op, named, reply) == [op |-> op, named |-> named, reply |-> reply]

Init == set = {} /\ answer = Answer("none", {}, "none")

Insert(m) == m \in Supported /\ set' = set \cup {m} /\ answer' = Answer("Z", {m}, "OK")
Remove(m) == m \in Supported /\ set' = set \ {m} /\ answer' = Answer("z", {m}, "OK")
Refuse    == set' = set /\ \E r \in {"", "E01"} : answer' = Answer("refused", {}, r)
Check(m)  == set' = set /\ answer' = Answer("check", {m}, IF m \in set THEN "stop" ELSE "run")

Next == Refuse \/ \E m \in Matchpoints : Insert(m) \/ Remove(m) \/ Check(m)

Spec == Init /\ [][Next]_<<set, answer>>
=============================================================================

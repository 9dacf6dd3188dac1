--------------------------- MODULE MCLeaderboard ---------------------------
(* Values for model checking Leaderboard: two runs created in the same      *)
(* instant, and every combination of two scores and two returns.            *)
EXTENDS Leaderboard

MCCreatedAt == [i \in RunIds |-> i \div 2]
MCScores == {0, 1}
MCReturns == {0, 1}
=============================================================================

--------------------------- MODULE MCResultsPages ---------------------------
(* Values for model checking ResultsPages. *)
EXTENDS ResultsPages

MCTrackOf == [r \in Runs |-> IF r = "c" THEN "t2" ELSE "t1"]
MCLinks == {<<"a">>, <<"b", "c", "b", "a">>}

Step(reward, names) ==
  [steps |-> Absent, t |-> Absent, step |-> Absent, reward |-> reward, events |-> names]
Episode(steps) == [Step(Absent, <<>>) EXCEPT !.steps = steps]

\* Two episodes of two steps, and one of three.
MCTwoEpisodes ==
  <<Episode(<<Step(1, <<>>), Step(Absent, <<"goal">>)>>), Broken,
    Episode(<<Step(Junk, <<Junk>>), Step(-2, <<"crash">>)>>)>>
MCFlat ==
  <<Step(1, <<>>), Step(-1, <<"goal">>), Step(2, <<>>)>>

MCResult(score, trace) == [score |-> score, trace |-> trace]
MCResults ==
  {MCResult(1, MCFlat), MCResult(2, MCTwoEpisodes), MCResult(2, NoFile), MCResult(Unscored, NoFile)}
MCLengthLists == {<<>>, <<2, 2>>, <<3>>}

MCStores ==
  {[r \in Runs |-> CASE r = "a" -> MCResult(1, MCFlat)
                     [] r = "b" -> MCResult(2, MCTwoEpisodes)
                     [] OTHER -> MCResult(2, NoFile)]}
=============================================================================

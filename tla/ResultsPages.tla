---------------------------- MODULE ResultsPages ----------------------------
(***************************************************************************)
(* One browser session on the pages that show results: the leaderboard     *)
(* with its comparison selection, the gallery of tasks it falls back on,   *)
(* the comparison of runs, the run viewer and its episode player, over one *)
(* query cache and a server whose runs are submitted and re-submitted      *)
(* meanwhile.                                                              *)
(*                                                                         *)
(* A page keeps its state while it is mounted; navigation mounts another   *)
(* page afresh, the cache stays.  What a page shows is an operator of its  *)
(* state and of the cache, and the guards of the user's actions are what   *)
(* is shown.                                                               *)
(***************************************************************************)
EXTENDS QueryCache, EpisodePlayer, TraceRecords, FiniteSets

CONSTANTS
  Runs, Tracks,
  TrackOf,        \* TrackOf[r]: the track of run r
  HomeTrack,      \* the track the leaderboard opens on
  Links,          \* the id lists of /compare links that are followed
  Shared,         \* the runs links to which are followed
  Resubmitted,    \* the runs submitted during the session
  Results,        \* what a run may have: [score, trace], a trace being a file
  Stores,         \* what the server may have at the start
  Unscored,       \* no success rate
  NoFile,         \* no trace artifact
  Tasks,          \* the tasks of the server
  Curated,        \* the tasks of the page's own, shown when the server's fail
  MaxCompare,     \* runs compared at most
  MaxEvents       \* bound: pages opened, submissions and lost connections

ASSUME PagesAssumption ==
  /\ TrackOf \in [Runs -> Tracks]
  /\ HomeTrack \in Tracks
  /\ Links \subseteq Seq(Runs)
  /\ Stores \subseteq [Runs -> Results]
  /\ \A result \in Results :
       /\ result.score \in Int \cup {Unscored}
       /\ result.trace \in {NoFile} \cup Seq(TraceLines)
  /\ MaxCompare \in Nat \ {0, 1}
  /\ Shared \subseteq Runs /\ Resubmitted \subseteq Runs
  /\ MaxEvents \in Nat

\* The player is given the traces that runs may have, and no steps without one.
ASSUME TracesAssumption ==
  /\ <<>> \in LengthLists
  /\ \A result \in Results : result.trace # NoFile =>
       StepCounts(NormalizeEpisodes(ParseTrace(result.trace))) \in LengthLists

VARIABLES
  stored,   \* stored[r]: what the server has of run r
  query,    \* query[k]: the cache entry of key k
  view,     \* the page that is mounted, and its state
  events

pagesVars == <<stored, query, view, events, lengths, episodeIdx, index, playing, timers>>

BoardKey(t) == <<"leaderboard", t>>
RunKey(r) == <<"run", r>>
TraceKey(r) == <<"trace", r>>
TasksKey == <<"tasks">>
RunKeys == {RunKey(r) : r \in Runs}
TraceKeys == {TraceKey(r) : r \in Runs}
Keys == {BoardKey(t) : t \in Tracks} \cup RunKeys \cup TraceKeys \cup {TasksKey}

Tabs == {"metrics", "trace", "config"}

\* The state a page is mounted with; the fields of other pages are idle.
Opened(page) ==
  [page |-> page, track |-> HomeTrack, selected |-> <<>>, compared |-> <<>>,
   run |-> CHOOSE r \in Runs : TRUE, tab |-> "metrics"]

-----------------------------------------------------------------------------
(* lib/compare.ts *)

\* The first MaxCompare ids, each once, in order; parsing a link and building
\* one cap and dedupe alike.
TakeId(acc, id) ==
  IF id \in ToSet(acc) \/ Len(acc) >= MaxCompare THEN acc ELSE Append(acc, id)

ParseRunIds(ids) ==
  LET parsed[i \in 0 .. Len(ids)] == IF i = 0 THEN <<>> ELSE TakeId(parsed[i - 1], ids[i])
  IN parsed[Len(ids)]
SerializeRunIds(ids) == ParseRunIds(ids)

Better(direction, v, w) == IF direction = "higher" THEN v > w ELSE v < w

\* What a turn of the loop makes of the tally of the positions before i: the
\* first best value, how many are present, and whether two differ.
NoTally == [best |-> 0, present |-> 0, distinct |-> FALSE]

TallyOne(tally, values, i, direction) ==
  LET v == values[i]
      incumbent == values[tally.best] IN
  IF v = Unscored THEN tally
  ELSE [best     |-> IF tally.best = 0 \/ Better(direction, v, incumbent) THEN i ELSE tally.best,
        present  |-> tally.present + 1,
        distinct |-> tally.distinct \/ (tally.best # 0 /\ v # incumbent)]

Tally(values, direction) ==
  LET tally[i \in 0 .. Len(values)] ==
        IF i = 0 THEN NoTally ELSE TallyOne(tally[i - 1], values, i, direction)
  IN tally[Len(values)]

\* MUTANT: values that tie have a winner.
BestOfAny(values, direction) == Tally(values, direction).best

\* The position of the first best value; 0 if fewer than two values are
\* present, or all that are present tie.
BestIndex(values, direction) ==
  LET tally == Tally(values, direction)
  IN IF tally.present < 2 \/ ~tally.distinct THEN 0 ELSE tally.best

-----------------------------------------------------------------------------
(* What is shown *)

Rows(v, q) ==
  IF q[BoardKey(v.track)].data = NoData THEN {} ELSE q[BoardKey(v.track)].data

\* The four panels of the board; data that a failed request leaves are hidden.
Board(v, q) == q[BoardKey(v.track)]
OnBoard(v) == v.page = "leaderboard"

BoardLoading(v, q) == OnBoard(v) /\ IsLoading(Board(v, q))
BoardFailed(v, q)  == OnBoard(v) /\ IsError(Board(v, q))
BoardListed(v, q)  == OnBoard(v) /\ ~IsLoading(Board(v, q)) /\ ~IsError(Board(v, q))
BoardEmpty(v, q)   == BoardListed(v, q) /\ Rows(v, q) = {}
BoardTable(v, q)   == BoardListed(v, q) /\ Rows(v, q) # {}

\* The selection as the bar at the bottom has it: what the visible track holds.
SelectedOnTrack(v, q) == Only(v.selected, Rows(v, q))
BarShown(v, q) == OnBoard(v) /\ SelectedOnTrack(v, q) # <<>>

\* A row's checkbox is off when the selection is full, wherever it was made.
AtCap(v) == Len(v.selected) >= MaxCompare

\* The gallery: the curated tasks take the place of any that a failure leaves.
OnTasks(v) == v.page = "tasks"

Gallery(q) ==
  IF IsError(q[TasksKey]) THEN Curated
  ELSE IF q[TasksKey].data = NoData THEN {} ELSE q[TasksKey].data

TasksLoading(v, q) == OnTasks(v) /\ IsLoading(q[TasksKey])
NoTasks(v, q)      == OnTasks(v) /\ ~IsLoading(q[TasksKey]) /\ Gallery(q) = {}
TaskCards(v, q)    == OnTasks(v) /\ ~IsLoading(q[TasksKey]) /\ Gallery(q) # {}

\* A run by itself or in a column: its skeleton, its error card, or the run.
RunLoading(q, r)     == IsLoading(q[RunKey(r)])
RunUnavailable(q, r) == /\ ~RunLoading(q, r)
                        /\ IsError(q[RunKey(r)]) \/ q[RunKey(r)].data = NoData
RunThere(q, r)       == ~RunLoading(q, r) /\ ~RunUnavailable(q, r)

\* The viewer with its header, metric strip and tabs.
ViewerShown(v, q) == v.page = "run" /\ RunThere(q, v.run)

\* A comparison takes two; with fewer ids the page says so.
Comparing(v) == v.page = "compare" /\ Len(v.compared) > 1
NothingToCompare(v) == v.page = "compare" /\ Len(v.compared) <= 1

\* summarizeRun: nothing is known of a run that has no data.
Summary(q, r) == IF q[RunKey(r)].data = NoData THEN Unscored ELSE q[RunKey(r)].data
Summaries(v, q) == [i \in DOMAIN v.compared |-> Summary(q, v.compared[i])]
Winner(v, q, direction) == BestIndex(Summaries(v, q), direction)

\* The columns of a row that carry the badge "Best".
Marked(v, q, direction) == {i \in DOMAIN v.compared : i = Winner(v, q, direction)}

Episodes(q, r) ==
  IF q[TraceKey(r)].data = NoData THEN <<>> ELSE NormalizeEpisodes(q[TraceKey(r)].data)

\* The panel of the trace: a skeleton, an error, "no trace recorded" or the player.
PanelShown(v, q, tab) == ViewerShown(v, q) /\ v.tab = tab
TraceLoading(q, r) == IsLoading(q[TraceKey(r)])
TraceFailed(q, r)  == IsError(q[TraceKey(r)])
NoTrace(q, r)      == \A e \in 1 .. Len(Episodes(q, r)) : Episodes(q, r)[e] = <<>>

PlayerShown(v, q) ==
  /\ PanelShown(v, q, "trace")
  /\ ~TraceLoading(q, v.run) /\ ~TraceFailed(q, v.run) /\ ~NoTrace(q, v.run)

\* A column of the comparison asks for the trace once its run is there.
Observed(v, q) ==
  CASE v.page = "leaderboard" -> {BoardKey(v.track)}
    [] v.page = "tasks" -> {TasksKey}
    [] v.page = "run" -> {RunKey(v.run), TraceKey(v.run)}
    [] v.page = "compare" ->
         {RunKey(r) : r \in ToSet(v.compared)} \cup
         {TraceKey(r) : r \in {s \in ToSet(v.compared) : Comparing(v) /\ RunThere(q, s)}}

-----------------------------------------------------------------------------
\* The player is unmounted and mounted with the panel that shows it, and given
\* the other trace if the query delivers one meanwhile.
PlayerFollows(v, q) ==
  LET ls == IF PlayerShown(v, q) THEN StepCounts(Episodes(q, v.run)) ELSE <<>> IN
  IF ls = lengths THEN UNCHANGED playerVars
  ELSE IF ls # <<>> /\ lengths # <<>>
       THEN Settle(ls, episodeIdx, Transport)
       ELSE Remount(ls)

\* The observers that appear with a page ask for their data, stale as all data
\* is; the comparison takes a trace that it has for fresh for a minute.
MayBeFresh(v, q) ==
  IF v.page = "compare" THEN {k \in TraceKeys : q[k].data # NoData} ELSE {}

Asked(v, q, appearing) ==
  {[k \in Keys |-> IF k \in appearing \ fresh THEN Fetching(q[k]) ELSE q[k]] :
     fresh \in SUBSET (appearing \cap MayBeFresh(v, q))}

\* A page renders.
Render(v, q) ==
  LET appearing == IF v.page # view.page THEN Observed(v, q)
                   ELSE Observed(v, q) \ Observed(view, query)
  IN \E asked \in Asked(v, q, appearing) :
       /\ view' = v
       /\ query' = asked
       /\ PlayerFollows(v, asked)

Happens == events < MaxEvents /\ events' = events + 1

\* The entries nobody has observed for five minutes are dropped: some of those
\* that the next page asks for, when it mounts.
Navigate(v) ==
  /\ Happens
  /\ \E dropped \in SUBSET {k \in Observed(v, query) \ Observed(view, query) : ~query[k].fetching} :
       Render(v, [k \in Keys |-> IF k \in dropped THEN NoQuery ELSE query[k]])
  /\ UNCHANGED stored

Stay(v, q) == Render(v, q) /\ UNCHANGED <<stored, events>>

PagesInit ==
  /\ stored \in Stores
  /\ view \in {Opened("leaderboard")}
       \cup {[Opened("compare") EXCEPT !.compared = ParseRunIds(ids)] : ids \in Links}
       \cup {[Opened("run") EXCEPT !.run = r] : r \in Shared}
  /\ query \in Asked(view, [k \in Keys |-> NoQuery], Observed(view, [k \in Keys |-> NoQuery]))
  /\ events = 0
  /\ lengths = <<>> /\ episodeIdx = 0 /\ index = 0 /\ playing = FALSE /\ timers = {}

-----------------------------------------------------------------------------
(* The leaderboard *)

ChooseTrack(t) ==
  /\ OnBoard(view) /\ t # view.track
  /\ Stay([view EXCEPT !.track = t], query)

ToggleSelected(r) ==
  /\ BoardTable(view, query) /\ r \in Rows(view, query)
  /\ r \in ToSet(view.selected) \/ ~AtCap(view)
  /\ Stay([view EXCEPT !.selected =
             IF r \in ToSet(@) THEN Only(@, Runs \ {r}) ELSE Append(@, r)], query)

ClearSelection ==
  /\ BarShown(view, query)
  /\ Stay([view EXCEPT !.selected = <<>>], query)

\* MUTANT: the link carries the selection, visible or not.
CompareAll ==
  /\ OnBoard(view)
  /\ Len(view.selected) >= 2
  /\ Navigate([Opened("compare") EXCEPT !.compared = ParseRunIds(SerializeRunIds(view.selected))])

Compare ==
  /\ OnBoard(view)
  /\ Len(SelectedOnTrack(view, query)) >= 2
  /\ Navigate([Opened("compare") EXCEPT !.compared =
                 ParseRunIds(SerializeRunIds(SelectedOnTrack(view, query)))])

OpenRun(r) ==
  /\ \/ BoardTable(view, query) /\ r \in Rows(view, query)
     \/ Comparing(view) /\ r \in ToSet(view.compared) /\ ~RunLoading(query, r)
  /\ Navigate([Opened("run") EXCEPT !.run = r])

\* "Browse tasks instead".
BrowseTasks == BoardFailed(view, query) /\ Navigate(Opened("tasks"))

BackToBoard ==
  /\ \/ TaskCards(view, query) \/ NoTasks(view, query)
     \/ Comparing(view) \/ NothingToCompare(view)
     \/ view.page = "run" /\ ~RunLoading(query, view.run)
  /\ Navigate(Opened("leaderboard"))

(* The run viewer *)

ChooseTab(tab) ==
  /\ ViewerShown(view, query)
  /\ Stay([view EXCEPT !.tab = tab], query)

\* The button is busy while a request is in flight.
Refetch(k) ==
  /\ ~query[k].fetching
  /\ Stay(view, [query EXCEPT ![k] = Fetching(@)])

RetryRun ==
  /\ view.page = "run" /\ RunUnavailable(query, view.run)
  /\ Refetch(RunKey(view.run))

RetryTrace ==
  /\ PanelShown(view, query, "trace")
  /\ ~TraceLoading(query, view.run) /\ TraceFailed(query, view.run)
  /\ Refetch(TraceKey(view.run))

Play ==
  /\ User \/ Tick
  /\ UNCHANGED <<stored, query, view, events>>

-----------------------------------------------------------------------------
(* The server and the network *)

Listed(t) == {r \in Runs : TrackOf[r] = t /\ stored[r].score # Unscored}

Answer(k) ==
  /\ query[k].fetching
  /\ k \in TraceKeys => stored[k[2]].trace # NoFile
  /\ LET data == CASE k \in RunKeys -> stored[k[2]].score
                   [] k \in TraceKeys -> ParseTrace(stored[k[2]].trace)
                   [] k = TasksKey -> Tasks
                   [] OTHER -> Listed(k[2])
     IN Stay(view, [query EXCEPT ![k] = Answered(@, data)])

\* An error, a body of another shape, or no answer within eight seconds.
Fail(k) ==
  /\ query[k].fetching
  /\ Stay(view, [query EXCEPT ![k] = Refused(@)])

\* The connection is back: what is observed and stale is asked for again.
Reconnect ==
  /\ Happens
  /\ \E asked \in Asked(view, query, Observed(view, query)) :
       Render(view, asked)
  /\ UNCHANGED stored

Submit(r, result) ==
  /\ Happens
  /\ stored[r] # result
  /\ stored' = [stored EXCEPT ![r] = result]
  /\ UNCHANGED <<query, view, playerVars>>

PagesNext ==
  \/ \E t \in Tracks : ChooseTrack(t)
  \/ \E r \in Runs : ToggleSelected(r) \/ OpenRun(r)
  \/ ClearSelection \/ Compare \/ BrowseTasks \/ BackToBoard
  \/ \E tab \in Tabs : ChooseTab(tab)
  \/ RetryRun \/ RetryTrace \/ Play
  \/ \E k \in Keys : Answer(k) \/ Fail(k)
  \/ Reconnect
  \/ \E r \in Resubmitted, result \in Results : Submit(r, result)

PagesSpec == PagesInit /\ [][PagesNext]_pagesVars

\* A request with a timeout ends, in an answer or a failure; a trace may never.
RequestsEnd == \A k \in Keys \ TraceKeys : []<>~query[k].fetching

FairPagesSpec == PagesSpec /\ RequestsEnd /\ TimerFires

-----------------------------------------------------------------------------
\* The comparison the leaderboard leads to is of two runs or more, each once:
\* of all that are ticked and on the visible track, whatever was ticked on other
\* tracks or has left the board since, and none is lost to the cap of the link.
ComparesWhatIsListed ==
  [][view.page = "leaderboard" /\ view'.page = "compare" =>
       /\ Len(view'.compared) = Cardinality(ToSet(view'.compared))
       /\ Len(view'.compared) > 1
       /\ ToSet(view'.compared) =
            {r \in ToSet(view.selected) : r \in Rows(view, query)}
       /\ \A r \in ToSet(view'.compared) : TrackOf[r] = view.track]_view

\* The badge of a row of the comparison stands in the first column that no other
\* beats, and in none where the columns that have a value all agree, as columns
\* load, fail and change under it.
WinnerIsBest ==
  \A direction \in {"higher", "lower"} :
    LET values == Summaries(view, query)
        present == {i \in DOMAIN values : values[i] # Unscored}
        unbeaten == {i \in present : \A j \in present : ~Better(direction, values[j], values[i])}
    IN Marked(view, query, direction) =
         IF unbeaten = present THEN {} ELSE {CHOOSE i \in unbeaten : \A j \in unbeaten : i <= j}

\* What the player shows of an episode agrees however it is computed: the panel
\* of the last step has the return of the header; the badge of the header says
\* success if a bar of the strip does, which is if the panel of some step shows a
\* goal; and the events listed are as many as the steps have.
ViewsAgree ==
  PlayerShown(view, query) =>
    LET episodes == Episodes(query, view.run)
        steps == episodes[Shown(lengths, episodeIdx) + 1]
        details == [i \in DOMAIN steps |-> StepDetail(steps, i)]
        size == BucketSize(Len(steps))
    IN /\ steps # <<>> =>
            details[Len(steps)].return =
              (IF EpisodeReturn(steps) = Absent THEN 0 ELSE EpisodeReturn(steps))
       /\ EpisodeSucceeded(steps) <=>
            \E b \in Bars(Len(steps)) : BarTone(steps, b * size, size) = "success"
       /\ EpisodeSucceeded(steps) <=> \E i \in DOMAIN details : details[i].goals # <<>>
       /\ Len(ExtractEvents(episodes)) =
            Total([e \in DOMAIN episodes |->
                     Total([s \in DOMAIN episodes[e] |-> Len(episodes[e][s].events)])])

\* The loading view of a page gives way, whatever fails, to one of the others: a
\* request that has a timeout ends in data or in an error, and no retry puts both
\* off for ever.
SkeletonsEnd ==
  /\ \A t \in Tracks :
       BoardLoading(view, query) /\ view.track = t ~>
         \/ ~OnBoard(view) \/ view.track # t
         \/ BoardFailed(view, query) \/ BoardEmpty(view, query) \/ BoardTable(view, query)
  /\ TasksLoading(view, query) ~>
       ~OnTasks(view) \/ NoTasks(view, query) \/ TaskCards(view, query)
  /\ \A r \in Runs :
       RunKey(r) \in Observed(view, query) /\ RunLoading(query, r) ~>
         \/ RunKey(r) \notin Observed(view, query)
         \/ RunUnavailable(query, r) \/ RunThere(query, r)
=============================================================================

\* A board of two tracks, a comparison of two of three runs, and the run viewer.
SPECIFICATION FairPagesSpec
CONSTANTS
  Runs = {"a", "b", "c"}
  Tracks = {"t1", "t2"}
  TrackOf <- MCTrackOf
  HomeTrack = "t1"
  Links <- MCLinks
  Results <- MCResults
  Stores <- MCStores
  Unscored = Unscored
  NoFile = NoFile
  NoData = NoData
  Tasks = {"task"}
  Curated = {"curated"}
  MaxCompare = 2
  Shared = {"a"}
  Resubmitted = {"a"}
  MaxEvents = 2
  LengthLists <- MCLengthLists
  MaxEpisodes = 2
  MaxBars = 2
  Broken = Broken
  Absent = Absent
  Junk = Junk
  EventNames = {"goal", "crash"}
  SuccessNames = {"goal"}
  FailureNames = {"crash"}
INVARIANTS
  PlaysWithinEpisode
  StripHoldsCursor
  ViewsAgree
  WinnerIsBest
PROPERTIES
  ComparesWhatIsListed
  SwitchRewinds
  ImplementsPlayback
  SkeletonsEnd
\* The pages opened are bounded: a comparison of one run may be the last.
CHECK_DEADLOCK FALSE

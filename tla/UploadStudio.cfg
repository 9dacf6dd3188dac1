\* Two submissions and a reload, edits and other clients at any moment.
SPECIFICATION StudioSpec
CONSTANTS
  Ids = {x}
  Blank = Blank
  Metas = {m1, m2}
  Slots = {"metrics", "trace"}
  Contents <- MCContents
  NoFile = NoFile
  NoRun = NoRun
  MaxTries = 2
  MaxVisits = 1
SYMMETRY Symmetry
INVARIANTS
  SuccessIsComplete
  OneRunPerTry
PROPERTIES
  PublishedRunsStay

\* Loads of three kinds overlapping in every order.
SPECIFICATION Spec
CONSTANTS
  RunIds = {x, y}
  NoRunId = NoRunId
  MaxInFlight = 3
SYMMETRY Symmetry
INVARIANTS
  SpinnerTells
  EmptyIfOvertaken
  RunShownWasAsked

\* One tab with its layers and notifications, and a second one that shares
\* the stored theme.
SPECIFICATION Spec
CONSTANTS
  Pages <- MCPages
  DocPages <- MCDocPages
  EmbedPages <- MCEmbedPages
  MaxToasts = 2
  MaxAdds = 4
  Tabs = {t1, t2}
  None = None
  Here = t1
  MaxGestures = 7
  MaxCopies = 1
INVARIANTS
  LockedWhileCovered
  TimersMatchToasts
  TabsAgree
  PaintMatches
\* The gestures are bounded: when all are made nothing is left to do.
CHECK_DEADLOCK FALSE

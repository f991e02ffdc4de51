\* Two runs of the headset, over a channel that keeps the order or one that
\* duplicates and reorders.
SPECIFICATION Spec
CONSTANTS
  Half = 4
  Window = 3
  MaxSent = 10
  MaxRuns = 2
INVARIANTS
  TypeOK
  ResumesSoon
PROPERTIES
  AudioInOrder
  GapsCounted
CHECK_DEADLOCK FALSE

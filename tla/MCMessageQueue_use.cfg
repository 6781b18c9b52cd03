SPECIFICATION Spec
CONSTANTS
  Producer = {p1, p2}
  Consumer = {c1, c2}
  Poller = {t1}
  BufferSizes = {0, 1, 2}
  MaxCalls = 3
INVARIANTS ConsumersAwake ProducersAwake ReturnedMeansTaken
PROPERTIES HandedOff CloseReleases
CHECK_DEADLOCK FALSE

\* The loop and the one-shot command process the same images.
CONSTANTS
  Images = {i1, i2}
  Workers = {loop, once}
  LoopWorker = loop
  BatchLimit = 2
  MaxFaults = 1
SPECIFICATION PipelineSpec
CHECK_DEADLOCK FALSE
INVARIANTS
  ReadyHasVariants
PROPERTIES
  OutcomeIsFinal
  ConfirmedIsSettled

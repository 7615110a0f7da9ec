\* The first and the last delay of the design's series, in seconds.
SPECIFICATION BackoffSpec
CONSTANTS
  Width = 16
  DefaultBase = 5
  Bases = {10}
  Maxima = {90}
  Retries = {1, 2, 3}
INVARIANTS
  BackoffOfDesign
\* A computation ends with its answer.
CHECK_DEADLOCK FALSE

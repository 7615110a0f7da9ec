\* Two open pages and two requests in flight: saves with lost answers, submissions
\* and transitions that overtake each other.
SPECIFICATION Spec
CONSTANTS
  Editors = {e1, e2}
  Requests = {r1, r2}
  MaxSaves = 3
  MaxFailures = 1
SYMMETRY Symmetry
INVARIANTS
  SubmissionMovesTask
PROPERTIES
  OverwritesOnlyWhatWasSeen
  SubmittedIsFrozen
  OffTableOnlyWhenOvertaken

\* Two requests in flight: an edit, a review and an approval that overtake
\* each other between check and transaction.
SPECIFICATION Spec
CONSTANTS
  Requests = {r1, r2}
  MaxEdits = 3
  MaxRecords = 2
  MaxFailures = 1
SYMMETRY Symmetry
INVARIANTS
  ApprovalIsOfContent
  RecordsGetTasks
  SerialPublishing
PROPERTIES
  PublishedLeftOnlyWhenOvertaken
CHECK_DEADLOCK FALSE

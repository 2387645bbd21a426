CONSTANTS
  Kind = {"topic"}
  Span = 12
  IdxSpan = 4
  Checked = {TRUE, FALSE}
SPECIFICATION Spec
INVARIANTS CountersTypeOK LateReuse
CHECK_DEADLOCK FALSE

SPECIFICATION WizardSpec
CONSTANTS
  MaxVisits = 2
  MaxEntries = 6
  MaxPending = 1
INVARIANT SubmissionBlocked
CHECK_DEADLOCK FALSE

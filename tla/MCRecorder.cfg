\* Two steps of two layers, two overrides anywhere, any recorders per step.
SPECIFICATION Spec
CONSTANTS
  NLayers = 2
  NTokens = 2
  Tied = FALSE
  Overrides <- MCOverrides
  Declarations <- MCDeclarations
  Attachments <- MCAttachments
  MaxOverrides = 2
INVARIANTS
  TypeOK
  CapturesFollowPlan
  RecordsFitTogether
  SnapshotsInOrder
\* The run ends after NTokens steps.
CHECK_DEADLOCK FALSE

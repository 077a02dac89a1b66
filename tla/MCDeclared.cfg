\* Does a step apply the interventions the receipt declares?
SPECIFICATION Spec
CONSTANTS
  NLayers = 2
  NTokens = 2
  Tied = TRUE
  Overrides <- MCOverrides
  Declarations <- MCDeclarations
  Attachments <- MCAttachments
  MaxOverrides = 2
INVARIANT
  DeclaredWereApplied
CHECK_DEADLOCK FALSE

\* Two receipts, four declarations in all, replayed into one sink with failures
\* part way: every pair of small receipts.
SPECIFICATION Spec
CONSTANTS
  Radix = 2
  RegimeBytes <- MCRegimeBytes
  HashLen = 1
  InputArgs <- MCFields
  OutputArgs <- MCOutputs
  OpArgs <- MCOps
  ActivationArgs <- MCCheckpoints
  InterventionArgs <- MCOne
  IndexMod = 2
  SinkKinds = {"forwarding", "basic"}
  Release = TRUE
  MaxDecls = 4
  MaxReceipts = 2
INVARIANTS
  TypeOK
  RecordsNumbered
  SameDigestSameReceipt
  RuntimeHoldsWhatSinkForwards
\* The caller stops after MaxReceipts receipts.
CHECK_DEADLOCK FALSE

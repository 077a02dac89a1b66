\* The sink of sink.rs:22-39: do both receipts carry the same records?
SPECIFICATION Spec
CONSTANTS
  Radix = 2
  RegimeBytes <- MCRegimeBytes
  HashLen = 1
  InputArgs <- FewFields
  OutputArgs <- FewFields
  OpArgs <- FewOps
  ActivationArgs <- FewCheckpoints
  InterventionArgs <- FewCheckpoints
  IndexMod = 2
  SinkKinds = {"forwarding", "basic"}
  Release = FALSE
  MaxDecls = 4
  MaxReceipts = 2
INVARIANT
  SameDigestByConstruction
CHECK_DEADLOCK FALSE

\* A release build, where the debug_assert of declare_input is compiled out.
SPECIFICATION Spec
CONSTANTS
  Radix = 2
  RegimeBytes <- MCRegimeBytes
  HashLen = 1
  InputArgs <- FewFields
  OutputArgs <- FewFields
  OpArgs <- FewOps
  ActivationArgs <- FewCheckpoints
  InterventionArgs <- FewCheckpoints
  IndexMod = 2
  SinkKinds = {"forwarding", "basic"}
  Release = TRUE
  MaxDecls = 4
  MaxReceipts = 2
PROPERTY
  InputsSealed
CHECK_DEADLOCK FALSE

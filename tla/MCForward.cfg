\* Any three passes and resets through three layers: batches, single tokens,
\* starting over on a used cache, failures at every stage.
SPECIFICATION Spec
CONSTANTS
  t1 = t1
  t2 = t2
  Token = {t1, t2}
  NLayers = 3
  SeqLen = 2
  Torn = Torn
  NoRope = NoRope
  NoLogits = NoLogits
  MaxPasses = 3
INVARIANTS
  TypeOK
  CacheIsCanonical
  PassIsCausal
PROPERTIES
  ImplementsDecoder
\* The caller stops after MaxPasses passes.
CHECK_DEADLOCK FALSE

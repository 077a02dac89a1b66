\* One request under two regimes: do receipts that name one regime replay?
SPECIFICATION Spec
CONSTANTS
  t1 = t1
  t2 = t2
  Token = {t1, t2}
  Torn = Torn
  NoToken = NoToken
  Regime <- MCRegime
  Argmax <- MCArgmax
  SeqLen = 3
  MaxPrompt = 4
  CapMax = 4
  UsizeMax = 9
  U32Mod = 8
  MaxCalls = 2
INVARIANT
  ReceiptReplays
CHECK_DEADLOCK FALSE

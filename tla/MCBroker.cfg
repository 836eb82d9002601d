SPECIFICATION FairSpec
CONSTANTS
  c1 = c1
  c2 = c2
  ocr = ocr
  asr = asr
  vlm = vlm
  none = none
  Connections = {c1, c2}
  Installed = {ocr, asr, vlm}
  Unknown = none
  Vram <- MCVram
  Budget = 3
  Persistent = {ocr}
  Requests <- MCRequests
  MaxRequests = 3
CHECK_DEADLOCK FALSE
INVARIANTS WithinBudget AnswersAreOwn
PROPERTIES EveryRequestIsAnswered

SPECIFICATION TextSpec
CONSTANTS
  Texts = {t1, t2}
  TextTtl = 2
  MaxSkew = 1
  MaxNow = 7
CHECK_DEADLOCK FALSE
INVARIANTS
  TextGoneInTime
  OnlyWaitingTextsAppear

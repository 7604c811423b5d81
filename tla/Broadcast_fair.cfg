SPECIFICATION FairSpec
CONSTANTS
  Threads = {t1, t2}
  Msgs = {a}
  Sends = 2
  None = None
  MaxReg = 2
PROPERTIES NoticeEnds

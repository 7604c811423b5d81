SPECIFICATION Spec
CONSTANTS
  Threads = {t1, t2}
  Msgs = {a, b}
  Sends = 4
  None = None
  MaxReg = 2
PROPERTIES AnnouncedIsSent

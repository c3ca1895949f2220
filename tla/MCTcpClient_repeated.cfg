SPECIFICATION Spec
CONSTANTS
  TCP_WND = 2
  TCP_SND_BUF = 2
  RECV_BUF = 3
  MaxApp = 3
  MaxServer = 4
  MaxRepeated = 2
INVARIANT ReportedIsPending

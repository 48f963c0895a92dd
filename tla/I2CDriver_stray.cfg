CONSTANTS
  Threads = {t1}
  NoThread = NoThread
  Requests <- MCRequests
  MaxCalls = 2
  MaxTimeouts = 0
  MaxSignals = 0
  MaxFaults = 1
  MaxRx = 6
  PolledBuilds = {FALSE}
  FsmcBuilds = {FALSE}
SPECIFICATION Spec
INVARIANT NoStray

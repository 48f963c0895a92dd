CONSTANTS
  Threads = {t1}
  NoThread = NoThread
  Requests <- MCRequests
  MaxCalls = 2
  MaxTimeouts = 1
  MaxSignals = 0
  MaxFaults = 1
  MaxRx = 6
  PolledBuilds = {FALSE}
  FsmcBuilds = {FALSE}
SPECIFICATION Spec
PROPERTY CallsReturn

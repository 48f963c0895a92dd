CONSTANTS
  Threads = {t1}
  NoThread = NoThread
  Requests <- MCFaultRequests
  MaxCalls = 2
  MaxTimeouts = 1
  MaxSignals = 1
  MaxFaults = 1
  MaxRx = 6
  PolledBuilds = {FALSE, TRUE}
  FsmcBuilds = {FALSE}
SPECIFICATION Spec
INVARIANT TypeOK
INVARIANT WaitOkMeansDone

CONSTANTS
  Threads = {t1, t2}
  NoThread = NoThread
  Requests <- MCRequests
  MaxCalls = 2
  MaxTimeouts = 0
  MaxSignals = 0
  MaxFaults = 0
  MaxRx = 6
  PolledBuilds = {FALSE, TRUE}
  FsmcBuilds = {FALSE, TRUE}
SPECIFICATION Spec
INVARIANT ResultMatchesTransfer
INVARIANT OkMeansHandedOff
INVARIANT FsmcOffWhileBusy
PROPERTY CallsReturn

CONSTANTS
  Threads = {t1}
  Bus = 1
  MaxOpens = 1
  Frequencies = {400000}
  Addresses = {a1}
  Events = {"SENDBYTE"}
  PCLK1 = 36000000
  NTRACE = 2
  Statuses <- MCStatuses
  MaxIsr = 3
SPECIFICATION Spec
INVARIANT TraceWithinArray

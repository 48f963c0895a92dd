CONSTANTS
  Threads = {t1, t2}
  Bus = 1
  MaxOpens = 2
  Frequencies = {400000}
  Addresses = {a1}
  Events = {"SENDBYTE"}
  PCLK1 = 36000000
  NTRACE = 2
  Statuses <- MCStatuses
  MaxIsr = 3
SPECIFICATION Spec
INVARIANT HardwareMatchesRefs

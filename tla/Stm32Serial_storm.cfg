CONSTANTS
  Usarts = {1, 2}
  Console = 1
  Threads = {t1}
  MaxTx = 2
  MaxRx = 1
  MaxPutc = 1
  RxBufSize = 1
  ErrInts = TRUE
  Baud <- MCBaud
  ApbClock <- MCApbClock
  BaudRates <- MCBaudRates
  ApbClocks <- MCApbClocks
  Config <- MCConfig
  ForcePower = FALSE
  NGpio = 80
  HseFreq <- MCHseFreq
  BoardHpre = 1
  BoardPpre2 = 1
  BoardPpre1 = 2
  BoardPllSrc <- MCBoardPllSrc
  BoardPllXtpre = 1
  BoardPllMul = 9
  BoardUsbPre = 0
  BoardSw <- MCBoardSw
  BoardSws <- MCBoardSws
  HseTimeout = 2
  HseStartups = {0, 1}

SPECIFICATION Spec
INVARIANT IsrServesPending

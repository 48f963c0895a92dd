CONSTANTS
  PCLK1 <- MCPCLK1
  DUTY16_9 = FALSE
  Frequencies <- RequestableFrequencies
SPECIFICATION Spec
INVARIANT ClockRegistersConsistent

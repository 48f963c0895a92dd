---------------------------- MODULE MCStm32Serial -----------------------------
(***************************************************************************)
(* Stm32Serial for TLC: USART1 and USART2 with USART1 the console.         *)
(***************************************************************************)
EXTENDS Stm32Serial

\* USART1 on PCLK2 = 72 MHz, USART2 on PCLK1 = 36 MHz, at 115200 baud.
MCApbClock == [u \in Usarts |-> IF u = 1 THEN 72000000 ELSE 36000000]
MCBaud     == 115200

\* The standard baud rates and the PCLK1/PCLK2 frequencies of STM32F1/F2 boards.
MCBaudRates == {1200, 2400, 4800, 9600, 19200, 38400, 57600, 115200,
                230400, 460800, 921600}
MCApbClocks == {8000000, 16000000, 24000000, 30000000, 36000000,
                42000000, 48000000, 60000000, 72000000, 84000000}
\* The clock tree of the STM32F103 evaluation boards' board.h: an 8 MHz
\* crystal, PLL = HSE x 9 = 72 MHz as SYSCLK, HCLK = SYSCLK, PCLK2 = HCLK,
\* PCLK1 = HCLK / 2, USB clock = PLL / 1.5.
MCConfig == {"USART1", "USART2", "PWR", "SPI1", "I2C1", "TIM2", "DMA1"}
MCHseFreq == 8000000
MCBoardPllSrc == "HSE"
MCBoardSw == 2
MCBoardSws == 8
=============================================================================

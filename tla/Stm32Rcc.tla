-------------------------------- MODULE Stm32Rcc -------------------------------
(***************************************************************************)
(* The boot-time clock configuration of the STM32F10xxx                   *)
(* (arch/arm/src/stm32/stm32f10xxx_rcc.c): rcc_reset, stm32_stdclockconfig *)
(* and rcc_enableperipherals, which stm32_clockconfig runs in that order  *)
(* before any driver touches its peripheral.                               *)
(*                                                                         *)
(* The RCC and flash interface registers are a record; the CFGR fields     *)
(* hold the dividers and multiplier they select rather than their bit     *)
(* encodings, except SW and SWS, whose encodings differ (SWS = SW << 2)    *)
(* and are compared by the code.  ADCPRE and MCO are left out: no clock of *)
(* this model depends on them.  The crystal, the PLL and the clock switch  *)
(* are hardware (RM0008 section 7) and take steps of their own.           *)
(***************************************************************************)
EXTENDS Integers

CONSTANTS
  Config,         \* the CONFIG_STM32_<peripheral> options that are defined
  ForcePower,     \* CONFIG_STM32_FORCEPOWER
  NGpio,          \* STM32_NGPIO, the GPIO pins of the chip
  HseFreq,        \* STM32_BOARD_XTAL
  BoardHpre,      \* the AHB, APB2 and APB1 dividers STM32_RCC_CFGR_HPRE,
  BoardPpre2,     \*   STM32_RCC_CFGR_PPRE2 and STM32_RCC_CFGR_PPRE1 select
  BoardPpre1,
  BoardPllSrc,    \* STM32_CFGR_PLLSRC: "HSE" or "HSI/2"
  BoardPllXtpre,  \* STM32_CFGR_PLLXTPRE: HSE divided by 1 or 2
  BoardPllMul,    \* STM32_CFGR_PLLMUL
  BoardUsbPre,    \* STM32_CFGR_USBPRE
  BoardSw,        \* STM32_SYSCLK_SW
  BoardSws,       \* STM32_SYSCLK_SWS
  HseTimeout,     \* HSERDY_TIMEOUT, in polls of HSERDY
  HseStartups     \* polls after HSEON before the crystal reports HSERDY

ASSUME HseTimeout \in Nat \ {0} /\ HseStartups \subseteq Nat

VARIABLES
  rcc,            \* RCC, FLASH_ACR and the crystal
  clk             \* where stm32_clockconfig is

HsiFreq == 8000000                     \* STM32_HSI_FREQUENCY

\* The SW field values RCC_CFGR_SW_HSI/HSE/PLL; SWS reads them shifted by 2.
SwHsi == 0
SwPll == 2
SwsOf(sw) == sw * 4

(***************************************************************************)
(* The enable bits rcc_enableperipherals sets: every configured peripheral *)
(* of the bus, the timers and I2C only under CONFIG_STM32_FORCEPOWER (their *)
(* drivers power them), FLITF, SRAM and AFIO always, and one GPIO port per *)
(* 16 pins of the chip.                                                    *)
(***************************************************************************)
Forced(ps) == IF ForcePower THEN Config \cap ps ELSE {}

EnableAhb == {"FLITF", "SRAM"} \cup (Config \cap {"DMA1", "DMA2", "CRC", "FSMC", "SDIO"})

EnableApb1 ==
  (Config \cap {"WWDG", "SPI2", "SPI3", "USART2", "USART3", "UART4", "UART5",
                "USB", "CAN1", "CAN2", "BKP", "PWR"})
  \cup Forced({"TIM2", "TIM3", "TIM4", "TIM5", "TIM6", "TIM7", "I2C1", "I2C2"})
  \cup (IF Config \cap {"DAC1", "DAC2"} # {} THEN {"DAC"} ELSE {})

GpioPorts == <<"IOPA", "IOPB", "IOPC", "IOPD", "IOPE", "IOPF", "IOPG">>

EnableApb2 ==
  {"AFIO"} \cup {GpioPorts[i] : i \in {j \in 1..7 : (j - 1) * 16 < NGpio}}
  \cup (Config \cap {"ADC1", "ADC2", "SPI1", "USART1", "ADC3"})
  \cup Forced({"TIM1", "TIM8"})

(***************************************************************************)
(* The hardware: HSERDY once the crystal has run for its start-up time,   *)
(* PLLRDY some time after PLLON, SWS some time after SW.                   *)
(***************************************************************************)
HSERDY(r) == "HSEON" \in r.cr /\ HseTimeout - r.timeout >= r.hseStart

PllInput(r) == IF r.pllsrc = "HSE" THEN HseFreq \div r.pllxtpre ELSE HsiFreq \div 2

SysClk(r) == CASE r.sws = SwsOf(SwPll) -> PllInput(r) * r.pllmul
               [] r.sws = SwsOf(1)     -> HseFreq
               [] OTHER                -> HsiFreq

Hclk(r)  == SysClk(r) \div r.hpre
Pclk1(r) == Hclk(r) \div r.ppre1
Pclk2(r) == Hclk(r) \div r.ppre2

\* The values at power-on reset.
RccInit ==
  /\ rcc = [cr |-> {"HSION"}, pllRdy |-> FALSE, sw |-> SwHsi, sws |-> SwsOf(SwHsi),
            hpre |-> 1, ppre1 |-> 1, ppre2 |-> 1, pllsrc |-> "HSI/2",
            pllxtpre |-> 1, pllmul |-> 2, usbpre |-> 0, cir |-> {},
            latency |-> 0, prftbe |-> TRUE,
            rstr |-> {}, ahbenr |-> {"FLITF", "SRAM"}, apb1enr |-> {}, apb2enr |-> {},
            timeout |-> 0, hseStart |-> 0]
  /\ clk = "reset"

(***************************************************************************)
(* stm32_clockconfig.                                                      *)
(***************************************************************************)
\* rcc_reset: peripheral resets released, clocks off but FLITF and SRAM,
\* HSI on, SW and the prescalers cleared, HSE, CSS and PLL off, HSEBYP off,
\* the PLL fields cleared, RCC interrupts off.
RccReset ==
  /\ clk = "reset"
  /\ rcc' = [rcc EXCEPT !.rstr = {}, !.ahbenr = {"FLITF", "SRAM"},
                        !.apb2enr = {}, !.apb1enr = {},
                        !.cr = (@ \cup {"HSION"}) \ {"HSEON", "CSSON", "PLLON", "HSEBYP"},
                        !.pllRdy = FALSE, !.sw = SwHsi,
                        !.hpre = 1, !.ppre1 = 1, !.ppre2 = 1,
                        !.pllsrc = "HSI/2", !.pllxtpre = 1, !.pllmul = 2,
                        !.usbpre = 0, !.cir = {}]
  /\ clk' = "hseon"

\* HSE on without bypass; the crystal's start-up time is the environment's.
HseOn ==
  /\ clk = "hseon"
  /\ \E s \in HseStartups :
        rcc' = [rcc EXCEPT !.cr = (@ \ {"HSEBYP"}) \cup {"HSEON"},
                           !.timeout = HseTimeout, !.hseStart = s]
  /\ clk' = "hsewait"

\* One pass of the for loop that finds HSERDY clear.
HsePoll ==
  /\ clk = "hsewait" /\ rcc.timeout > 0 /\ ~HSERDY(rcc)
  /\ rcc' = [rcc EXCEPT !.timeout = @ - 1]
  /\ UNCHANGED clk

\* The loop ends on HSERDY or on timeout = 0; a timeout skips all of the
\* configuration and leaves SYSCLK on HSI.
HseCheck ==
  /\ clk = "hsewait" /\ (rcc.timeout = 0 \/ HSERDY(rcc))
  /\ clk' = IF rcc.timeout > 0 THEN "config" ELSE "periph"
  /\ UNCHANGED rcc

\* Mutation of ClockConfig: the PCLK1 and PCLK2 dividers written to each
\* other's field.
ClockConfigPpreSwapped ==
  /\ clk = "config"
  /\ rcc' = [rcc EXCEPT !.latency = 2, !.prftbe = TRUE, !.hpre = BoardHpre,
                        !.ppre2 = BoardPpre1, !.ppre1 = BoardPpre2,
                        !.pllsrc = BoardPllSrc, !.pllxtpre = BoardPllXtpre,
                        !.pllmul = BoardPllMul, !.cr = @ \cup {"PLLON"}]
  /\ clk' = "pllwait"

\* Two flash wait states and prefetch, HPRE, PPRE2, PPRE1, the PLL source,
\* predivider and multiplier, then PLLON.
ClockConfig ==
  /\ clk = "config"
  /\ rcc' = [rcc EXCEPT !.latency = 2, !.prftbe = TRUE, !.hpre = BoardHpre,
                        !.ppre2 = BoardPpre2, !.ppre1 = BoardPpre1,
                        !.pllsrc = BoardPllSrc, !.pllxtpre = BoardPllXtpre,
                        !.pllmul = BoardPllMul, !.cr = @ \cup {"PLLON"}]
  /\ clk' = "pllwait"

\* One poll of the spin on PLLRDY; once set, SW = STM32_SYSCLK_SW.
PllWait ==
  /\ clk = "pllwait"
  /\ rcc' = IF rcc.pllRdy THEN [rcc EXCEPT !.sw = BoardSw] ELSE rcc
  /\ clk' = IF rcc.pllRdy THEN "swswait" ELSE "pllwait"

\* Mutation of SwsWait: SWS compared with the SW encoding.
SwsWaitOnSw ==
  /\ clk = "swswait"
  /\ clk' = IF rcc.sws = BoardSw THEN "periph" ELSE "swswait"
  /\ UNCHANGED rcc

\* One poll of the spin until SWS reads STM32_SYSCLK_SWS.
SwsWait ==
  /\ clk = "swswait"
  /\ clk' = IF rcc.sws = BoardSws THEN "periph" ELSE "swswait"
  /\ UNCHANGED rcc

\* rcc_enableperipherals: AHBENR written, USBPRE set before the APB1 clocks
\* when USB is configured, then the APB2 and APB1 enables ORed in.
EnablePeripherals ==
  /\ clk = "periph"
  /\ rcc' = [rcc EXCEPT !.ahbenr = EnableAhb,
                        !.usbpre = IF "USB" \in Config THEN BoardUsbPre ELSE @,
                        !.apb2enr = @ \cup EnableApb2,
                        !.apb1enr = @ \cup EnableApb1]
  /\ clk' = "done"

\* The PLL locks some time after PLLON (its input running).
PllLock ==
  /\ "PLLON" \in rcc.cr /\ ~rcc.pllRdy
  /\ rcc.pllsrc = "HSI/2" \/ HSERDY(rcc)
  /\ rcc' = [rcc EXCEPT !.pllRdy = TRUE]
  /\ UNCHANGED clk

\* The clock switch takes effect once the selected source is ready.
SwsFollow ==
  /\ rcc.sws # SwsOf(rcc.sw)
  /\ rcc.sw # SwPll \/ rcc.pllRdy
  /\ rcc' = [rcc EXCEPT !.sws = SwsOf(rcc.sw)]
  /\ UNCHANGED clk

RccStep ==
  \/ RccReset \/ HseOn \/ HsePoll \/ HseCheck \/ ClockConfig \/ PllWait
  \/ SwsWait \/ EnablePeripherals \/ PllLock \/ SwsFollow

\* stm32_clockconfig runs to its end unless it spins; the PLL locks and the
\* switch completes.
RccFairness ==
  /\ WF_<<rcc, clk>>(RccReset \/ HseOn \/ HsePoll \/ HseCheck \/ ClockConfig
                     \/ PllWait \/ SwsWait \/ EnablePeripherals)
  /\ WF_<<rcc, clk>>(PllLock) /\ WF_<<rcc, clk>>(SwsFollow)

RccTypeOK ==
  /\ rcc.cr \subseteq {"HSION", "HSEON", "HSEBYP", "CSSON", "PLLON"}
  /\ rcc.sw \in 0..2 /\ rcc.sws \in {SwsOf(s) : s \in 0..2}
  /\ rcc.timeout \in 0..HseTimeout /\ rcc.pllmul \in 2..16
  /\ {rcc.hpre, rcc.ppre1, rcc.ppre2} \subseteq {1, 2, 4, 8, 16, 64, 128, 256, 512}
  /\ clk \in {"reset", "hseon", "hsewait", "config", "pllwait", "swswait",
              "periph", "done"}
====

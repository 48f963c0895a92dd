------------------------------ MODULE I2CClock ------------------------------
(***************************************************************************)
(* The clock configurator of the STM32 I2C driver                          *)
(* (arch/arm/src/stm32/stm32_i2c.c): stm32_i2c_setfrequency stores the     *)
(* bus frequency of an instance, and stm32_i2c_setclock, called at the     *)
(* start of every transfer, derives the CCR and TRISE register values      *)
(* from it with the PE bit of CR1 cleared while they are written.          *)
(*                                                                         *)
(* Registers are modelled as naturals with their C widths: the divider is  *)
(* cast to uint16_t, so the wrap-around of the cast is kept.               *)
(***************************************************************************)
EXTENDS Integers, Bitwise

CONSTANTS
  PCLK1,        \* STM32_PCLK1_FREQUENCY, the APB1 clock in Hz
  DUTY16_9,     \* CONFIG_I2C_DUTY16_9: fast mode with Tlow/Thigh = 16/9
  Frequencies   \* frequencies a caller may pass to setfrequency

ASSUME PCLK1 \in Nat /\ PCLK1 >= 2000000    \* up_i2cinitialize refuses less
ASSUME DUTY16_9 \in BOOLEAN
\* f * 25 must not wrap the uint32_t product: TLC integers are 32-bit signed,
\* so frequencies are kept below the wrap point (see README).
ASSUME Frequencies \subseteq 1..85899345

VARIABLES
  frequency,    \* inst->frequency
  clocked,      \* the frequency the CCR/TRISE values were computed from
  ccr,          \* I2C_CCR register
  trise,        \* I2C_TRISE register
  oar1,         \* I2C_OAR1 register
  pe            \* I2C_CR1_PE, the peripheral enable bit

vars == <<frequency, clocked, ccr, trise, oar1, pe>>

U16(x) == x % 2^16

I2C_CCR_FS   == 2^15
I2C_CCR_DUTY == 2^14
I2C_OAR1_ONE == 2^14

\* freqmhz = (uint16_t)(STM32_PCLK1_FREQUENCY / 1000000)
FreqMhz == U16(PCLK1 \div 1000000)

(***************************************************************************)
(* The CCR and TRISE values stm32_i2c_setclock computes for frequency f.   *)
(***************************************************************************)
StdSpeed(f) ==
  LET s == U16(PCLK1 \div (f * 2)) IN IF s < 4 THEN 4 ELSE s

FastSpeed(f) ==
  LET s == IF DUTY16_9 THEN U16(PCLK1 \div (f * 25))
                       ELSE U16(PCLK1 \div (f * 3))
  IN IF s < 1 THEN 1 ELSE s

FastBits == IF DUTY16_9 THEN I2C_CCR_DUTY + I2C_CCR_FS ELSE I2C_CCR_FS

\* Mutation of CcrFor: fast mode chosen from 100 kHz on.
CcrForFastAt100k(f) ==
  IF f < 100000 THEN StdSpeed(f) ELSE FastBits | FastSpeed(f)

CcrFor(f) == IF f <= 100000 THEN StdSpeed(f) ELSE FastBits | FastSpeed(f)

TriseFor(f) ==
  IF f <= 100000 THEN U16(FreqMhz + 1) ELSE U16((FreqMhz * 300) \div 1000 + 1)

(***************************************************************************)
(* stm32_i2c_setclock: CR1 is read, written back without PE, CCR, TRISE   *)
(* and OAR1 are written and CR1 is restored, so PE ends as it began.       *)
(***************************************************************************)
SetClock(f) ==
  /\ ccr' = CcrFor(f)
  /\ trise' = TriseFor(f)
  /\ oar1' = I2C_OAR1_ONE
  /\ clocked' = f
  /\ UNCHANGED pe

(***************************************************************************)
(* State after up_i2cinitialize (stm32_i2c_init: setclock(100000), then    *)
(* CR1 = PE) and a stm32_i2c_setfrequency call by the instance's owner.    *)
(***************************************************************************)
SetFrequencyValue(f) == IF PCLK1 < 4000000 THEN 100000 ELSE f

Init ==
  /\ \E f \in Frequencies : frequency = SetFrequencyValue(f)
  /\ ccr = CcrFor(100000)
  /\ trise = TriseFor(100000)
  /\ oar1 = I2C_OAR1_ONE
  /\ clocked = 100000
  /\ pe = TRUE

\* stm32_i2c_process programs the clock from the instance's frequency.
ProcessSetClock ==
  /\ SetClock(frequency)
  /\ UNCHANGED frequency

Next == ProcessSetClock

Spec == Init /\ [][Next]_vars

-----------------------------------------------------------------------------
\* The divider field of CCR (bits 11:0) and the mode bit FS (bit 15).
CcrField == ccr % 2^12
CcrFast == (ccr \div I2C_CCR_FS) % 2 = 1
CcrDuty == (ccr \div I2C_CCR_DUTY) % 2 = 1

\* The SCL frequency the peripheral produces from the CCR value.
SclFrequency ==
  CASE ~CcrFast            -> PCLK1 \div (2 * CcrField)
    [] CcrFast /\ CcrDuty  -> PCLK1 \div (25 * CcrField)
    [] CcrFast /\ ~CcrDuty -> PCLK1 \div (3 * CcrField)

(***************************************************************************)
(* The clock registers agree with the requested frequency: CCR selects    *)
(* standard mode exactly when setclock was asked for at most 100 kHz, the *)
(* divider field is at least the hardware minimum of its mode, TRISE is   *)
(* the rise time of that same mode, and the resulting SCL frequency stays *)
(* within the mode's limit.  It is about the uint16_t cast of the divider *)
(* in stm32_i2c_setclock, whose high bits land on the DUTY and FS bits.   *)
(***************************************************************************)
ClockRegistersConsistent ==
  /\ CcrFast <=> clocked > 100000
  /\ CcrField >= (IF CcrFast THEN 1 ELSE 4)
  /\ trise = TriseFor(IF CcrFast THEN 400000 ELSE 100000)
  /\ SclFrequency <= (IF CcrFast THEN 400000 ELSE 100000)
=============================================================================

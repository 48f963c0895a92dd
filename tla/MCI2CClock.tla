----------------------------- MODULE MCI2CClock -----------------------------
(***************************************************************************)
(* Model-checking instance of I2CClock for an STM32F10x with a 36 MHz     *)
(* APB1 clock and the default 2:1 fast-mode duty cycle.                    *)
(***************************************************************************)
EXTENDS I2CClock

MCPCLK1 == 36000000

\* Lowest frequency whose standard-mode divider fits the 12-bit CCR field.
MinFittingFrequency == (MCPCLK1 \div 8192) + 1

\* Every frequency from the lowest representable one up to 400 kHz.
RepresentableFrequencies == MinFittingFrequency..400000

\* Every standard-mode frequency the divider field cannot hold.
LowFrequencies == 1..(MinFittingFrequency - 1)

\* Every frequency an I2C_SETFREQUENCY caller may pass up to 400 kHz.
RequestableFrequencies == LowFrequencies \cup RepresentableFrequencies
=============================================================================

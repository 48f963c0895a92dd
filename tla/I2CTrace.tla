------------------------------- MODULE I2CTrace -------------------------------
(***************************************************************************)
(* The trace instrumentation of the STM32 I2C driver (CONFIG_I2C_TRACE in  *)
(* arch/arm/src/stm32/stm32_i2c.c): tndx, isr_count, old_status and the    *)
(* trace[] array of a bus's priv.  process() resets it, every run of the  *)
(* interrupt handler opens a new entry when the status differs from the   *)
(* previous run's and stamps the entry with the event it handled, and     *)
(* process() dumps entries 0..tndx when the transfer ends.                 *)
(*                                                                         *)
(* The trace is one record so that a handler run can compose its calls    *)
(* within one step.  buf has one slot more than the array: buf[NTRACE] is *)
(* the memory that follows trace[] in struct stm32_i2c_priv_s.  The event  *)
(* parameter is left out.                                                  *)
(***************************************************************************)
EXTENDS Integers

CONSTANTS
  NTRACE,       \* CONFIG_I2C_NTRACE, the length of trace[]
  Statuses,     \* SR2|SR1 values the handler may pass to tracenew
  MaxIsr        \* handler runs per transfer (isr_count is a uint32_t)

ASSUME NTRACE \in Nat \ {0} /\ MaxIsr \in Nat

\* old_status after tracereset (0xffffffff) and the zeroed .bss values.
ResetStatus == "0xffffffff"
ZeroStatus  == "0x00000000"

Slots == 0..NTRACE

Entry(status, count, event) == [status |-> status, count |-> count, event |-> event]

\* The priv structures are static, so the trace starts zeroed.
TraceInit ==
  [tndx |-> 0, isrCount |-> 0, oldStatus |-> ZeroStatus,
   buf |-> [i \in Slots |-> Entry(ZeroStatus, 0, "NONE")]]

\* stm32_i2c_tracereset
TraceReset(t) == [t EXCEPT !.isrCount = 0, !.oldStatus = ResetStatus, !.tndx = -1]

\* stm32_i2c_tracenew: count the run; a changed status opens a new entry,
\* but the index stops moving once it has reached NTRACE.
TraceNew(t, status) ==
  LET c == t.isrCount + 1
      i == IF t.tndx < NTRACE THEN t.tndx + 1 ELSE t.tndx
  IN IF status = t.oldStatus
     THEN [t EXCEPT !.isrCount = c]
     ELSE [t EXCEPT !.isrCount = c, !.tndx = i,
                    !.buf[i] = Entry(status, c, "NONE"), !.oldStatus = status]

\* stm32_i2c_traceevent: the event overwrites the current entry's event.
TraceEvent(t, event) == [t EXCEPT !.buf[t.tndx].event = event]

\* stm32_i2c_tracedump: the entries 0..tndx it prints.
TraceDump(t) == [i \in 0..t.tndx |-> t.buf[i]]

====

------------------------------ MODULE I2CInstance -----------------------------
(***************************************************************************)
(* The instance layer of the STM32 I2C driver                              *)
(* (arch/arm/src/stm32/stm32_i2c.c): up_i2cinitialize and                  *)
(* up_i2cuninitialize with the priv->refs count, stm32_i2c_init/deinit and *)
(* stm32_i2c_sem_init/destroy behind them, the per-instance setters        *)
(* stm32_i2c_setfrequency and stm32_i2c_setaddress, and transfers on one   *)
(* bus seen from this layer: sem_excl taken and released around process(), *)
(* with the handler feeding the trace of I2CTrace while the peripheral is *)
(* powered and its interrupts attached.                                    *)
(*                                                                         *)
(* Threads are preemptible except inside irqsave()/irqrestore().  Opening *)
(* is one step (all of it after kmalloc runs with interrupts masked);     *)
(* closing is four: the unlocked refs test, the masked decrement, deinit, *)
(* and sem_destroy with kfree.                                             *)
(***************************************************************************)
EXTENDS I2CTrace, Integers, FiniteSets

CONSTANTS
  Threads,      \* tasks opening, using and closing instances of the bus
  Bus,          \* which of I2C1..I2C3 the modelled priv belongs to
  MaxOpens,     \* up_i2cinitialize calls in all
  Frequencies,  \* frequencies passed to stm32_i2c_setfrequency
  Addresses,    \* addresses passed to stm32_i2c_setaddress
  Events,       \* trace events a handler run may record
  PCLK1         \* STM32_PCLK1_FREQUENCY

ASSUME Bus \in {1, 2, 3} /\ MaxOpens \in Nat

VARIABLES
  refs,         \* priv->refs
  sem,          \* priv->sem_excl: its count and whether it is initialised
  hw,           \* the bus's RCC clock enable, IRQ attachment and CR1.PE
  pc,           \* per thread: idle, dec, deinit, destroy, xfer
  handle,       \* per thread: the instance it holds, 0 for none
  conf,         \* per instance: frequency, address, I2C_M_TEN flag
  nopens,       \* up_i2cinitialize calls made
  tr            \* the trace of priv (I2CTrace)

vars == <<refs, sem, hw, pc, handle, conf, nopens, tr>>

Instances == 1..MaxOpens
NoHandle == 0

\* inst->frequency, address and flags as up_i2cinitialize sets them.
DefaultConf == [frequency |-> 100000, address |-> 0, ten |-> FALSE]

HwOff == [clock |-> FALSE, irq |-> FALSE, pe |-> FALSE]

\* stm32_i2c_init: clock and reset, GPIOs, ISRs attached and enabled, CR2
\* and the clock programmed, then CR1 = PE.  All three buses are handled.
I2cInit == [clock |-> TRUE, irq |-> TRUE, pe |-> TRUE]

\* stm32_i2c_deinit: CR1 = 0 first; the switch then knows I2C1 and I2C2
\* only, so for I2C3 it returns ERROR with the clock and ISRs left on.
I2cDeinit(h) ==
  IF Bus \in {1, 2} THEN HwOff ELSE [h EXCEPT !.pe = FALSE]

\* stm32_i2c_sem_init: sem_excl = 1 (sem_isr is I2CDriver's).
SemInit == [count |-> 1, valid |-> TRUE]

Init ==
  /\ refs = 0
  /\ sem = [count |-> 0, valid |-> FALSE]
  /\ hw = HwOff
  /\ pc = [t \in Threads |-> "idle"]
  /\ handle = [t \in Threads |-> NoHandle]
  /\ conf = [i \in Instances |-> DefaultConf]
  /\ nopens = 0
  /\ tr = TraceInit

Idle(t) == pc[t] = "idle"

(***************************************************************************)
(* up_i2cinitialize: a port that is not this bus (NULL or another bus's   *)
(* priv) or a failed kmalloc leaves this bus alone; otherwise the new      *)
(* instance counts itself in refs, the first one bringing the bus up.     *)
(***************************************************************************)
Open(t) ==
  /\ Idle(t) /\ handle[t] = NoHandle
  /\ nopens < MaxOpens
  /\ nopens' = nopens + 1
  /\ \/ UNCHANGED <<refs, sem, hw, handle, conf>>
     \/ LET id == nopens + 1 IN
        /\ handle' = [handle EXCEPT ![t] = id]
        /\ conf' = [conf EXCEPT ![id] = DefaultConf]
        /\ refs' = refs + 1
        /\ IF refs = 0
           THEN sem' = SemInit /\ hw' = I2cInit
           ELSE UNCHANGED <<sem, hw>>
  /\ UNCHANGED <<pc, tr>>

(***************************************************************************)
(* up_i2cuninitialize.  The refs = 0 test is made before irqsave and       *)
(* returns ERROR without a change (a stutter).                             *)
(***************************************************************************)
CloseCheck(t) ==
  /\ Idle(t) /\ handle[t] # NoHandle
  /\ refs # 0
  /\ pc' = [pc EXCEPT ![t] = "dec"]
  /\ UNCHANGED <<refs, sem, hw, handle, conf, nopens, tr>>

\* With interrupts masked: decrement, and a remaining reference frees the
\* instance and returns.
CloseDec(t) ==
  /\ pc[t] = "dec"
  /\ refs' = refs - 1
  /\ IF refs - 1 # 0
     THEN /\ handle' = [handle EXCEPT ![t] = NoHandle]
          /\ pc' = [pc EXCEPT ![t] = "idle"]
     ELSE /\ pc' = [pc EXCEPT ![t] = "deinit"]
          /\ UNCHANGED handle
  /\ UNCHANGED <<sem, hw, conf, nopens, tr>>

\* After irqrestore: stm32_i2c_deinit.
CloseDeinit(t) ==
  /\ pc[t] = "deinit"
  /\ hw' = I2cDeinit(hw)
  /\ pc' = [pc EXCEPT ![t] = "destroy"]
  /\ UNCHANGED <<refs, sem, handle, conf, nopens, tr>>

\* stm32_i2c_sem_destroy and kfree.  What sem_destroy leaves in the count
\* is the kernel's; either the old count or 1.
CloseDestroy(t) ==
  /\ pc[t] = "destroy"
  /\ \E c \in {sem.count, 1} : sem' = [count |-> c, valid |-> FALSE]
  /\ handle' = [handle EXCEPT ![t] = NoHandle]
  /\ pc' = [pc EXCEPT ![t] = "idle"]
  /\ UNCHANGED <<refs, hw, conf, nopens, tr>>

(***************************************************************************)
(* The setters take sem_excl, write the instance and post it again; the   *)
(* only blocking point is sem_wait, so each is one step.                  *)
(***************************************************************************)
SetFrequencyValue(f) == IF PCLK1 < 4000000 THEN 100000 ELSE f

SetFrequency(t) ==
  /\ Idle(t) /\ handle[t] # NoHandle
  /\ sem.count > 0
  /\ \E f \in Frequencies :
       conf' = [conf EXCEPT ![handle[t]].frequency = SetFrequencyValue(f)]
  /\ UNCHANGED <<refs, sem, hw, pc, handle, nopens, tr>>

SetAddress(t) ==
  /\ Idle(t) /\ handle[t] # NoHandle
  /\ sem.count > 0
  /\ \E a \in Addresses, nbits \in {7, 10} :
       conf' = [conf EXCEPT ![handle[t]].address = a,
                            ![handle[t]].ten = (nbits = 10)]
  /\ UNCHANGED <<refs, sem, hw, pc, handle, nopens, tr>>

(***************************************************************************)
(* A transfer (stm32_i2c_write/read/writeread/transfer): sem_wait, then    *)
(* process() resets the trace; the handler runs while the transfer is in  *)
(* flight and the peripheral can interrupt; process() dumps the trace and *)
(* posts sem_excl.                                                         *)
(***************************************************************************)
Lock(t) ==
  /\ Idle(t) /\ handle[t] # NoHandle
  /\ sem.count > 0
  /\ sem' = [sem EXCEPT !.count = @ - 1]
  /\ tr' = TraceReset(tr)
  /\ pc' = [pc EXCEPT ![t] = "xfer"]
  /\ UNCHANGED <<refs, hw, handle, conf, nopens>>

\* stm32_i2c_isr: tracenew with the status read, then the event of the
\* branch taken (none, when no branch records one).
Isr ==
  /\ \E t \in Threads : pc[t] = "xfer"
  /\ hw.irq /\ hw.pe
  /\ tr.isrCount < MaxIsr
  /\ \E status \in Statuses :
       \/ tr' = TraceNew(tr, status)
       \/ \E e \in Events : tr' = TraceEvent(TraceNew(tr, status), e)
  /\ UNCHANGED <<refs, sem, hw, pc, handle, conf, nopens>>

Unlock(t) ==
  /\ pc[t] = "xfer"
  /\ sem' = [sem EXCEPT !.count = @ + 1]
  /\ pc' = [pc EXCEPT ![t] = "idle"]
  /\ UNCHANGED <<refs, hw, handle, conf, nopens, tr>>

\* Every call has been made and every instance closed.
Terminating ==
  /\ nopens = MaxOpens
  /\ \A t \in Threads : Idle(t) /\ handle[t] = NoHandle
  /\ UNCHANGED vars

Next ==
  \/ \E t \in Threads :
       \/ Open(t) \/ CloseCheck(t) \/ CloseDec(t) \/ CloseDeinit(t)
       \/ CloseDestroy(t) \/ SetFrequency(t) \/ SetAddress(t)
       \/ Lock(t) \/ Unlock(t)
  \/ Isr
  \/ Terminating

Spec == Init /\ [][Next]_vars

-----------------------------------------------------------------------------
(***************************************************************************)
(* The bus is up exactly while it is referenced: whenever no thread is in  *)
(* the middle of up_i2cuninitialize, refs > 0 means the clock is on, the  *)
(* ISRs are attached and PE is set, and refs = 0 means all three are off. *)
(***************************************************************************)
Closing == \E t \in Threads : pc[t] \in {"dec", "deinit", "destroy"}

HardwareMatchesRefs ==
  ~Closing =>
    IF refs > 0 THEN hw = I2cInit ELSE hw = HwOff

(***************************************************************************)
(* tracenew and traceevent write inside trace[], and tracedump prints only *)
(* entries of trace[], however many times the status changes.             *)
(***************************************************************************)
TraceWithinArray == DOMAIN TraceDump(tr) \subseteq 0..NTRACE - 1
====

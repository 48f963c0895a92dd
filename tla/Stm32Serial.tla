------------------------------ MODULE Stm32Serial -----------------------------
(***************************************************************************)
(* The STM32 USART lower half (arch/arm/src/stm32/stm32_serial.c) under    *)
(* the upper-half serial driver, for the USARTs of a board one of which is *)
(* the console: up_setup/shutdown/attach/detach, up_rxint and up_txint,    *)
(* up_send/receive/txready/rxavailable, the interrupt handler             *)
(* up_interrupt_common, up_putc and the boot-time up_earlyserialinit and  *)
(* up_serialinit.                                                          *)
(*                                                                         *)
(* The upper half (drivers/serial/serial.c) is not part of this source; it *)
(* is the environment here, as NuttX documents it: uart_open sets up a     *)
(* non-console port, attaches it and enables RX interrupts with interrupts *)
(* masked; uart_close waits for the buffer and txempty, then detaches and  *)
(* shuts down non-console ports; uart_xmitchars sends while txready and    *)
(* calls txint(false) when its buffer is empty; uart_recvchars receives    *)
(* while rxavailable.  Tasks call rxint, txint and up_putc at any time.    *)
(*                                                                         *)
(* The USART is modelled from the reference manual: TDR and the shift     *)
(* register, RXNE and ORE; data bytes are only counted.                    *)
(*                                                                         *)
(* Boot starts with stm32_clockconfig (Stm32Rcc), then stm32_lowsetup     *)
(* enables the console: the BRR values assume the bus clocks of board.h,  *)
(* which only the RCC steps make true.                                     *)
(***************************************************************************)
EXTENDS Integers, FiniteSets, Bitwise, Stm32Rcc

CONSTANTS
  Usarts,       \* the enabled U[S]ARTs
  Console,      \* CONSOLE_UART
  Threads,      \* tasks using the ports
  MaxTx,        \* bytes the tasks queue for transmission in all
  MaxRx,        \* bytes the remote ends send in all
  MaxPutc,      \* up_putc calls in all
  RxBufSize,    \* CONFIG_USARTn_RXBUFSIZE
  ErrInts,      \* CONFIG_USART_ERRINTS
  Baud,         \* CONFIG_USARTn_BAUD
  ApbClock,     \* per port: STM32_PCLK2_FREQUENCY (USART1) or STM32_PCLK1_FREQUENCY
  BaudRates,    \* configurable CONFIG_USARTn_BAUD values
  ApbClocks     \* PCLK1/PCLK2 frequencies of the boards

ASSUME Console \in Usarts /\ ErrInts \in BOOLEAN

VARIABLES
  dev,          \* per port: registers, priv->ie, IRQ and upper-half buffers
  th,           \* per task: where it is in a lower-half call
  boot,         \* reset, low (stm32_lowsetup done), early, running
  rxLeft,       \* bytes the remote ends may still send
  txLeft,       \* bytes the tasks may still queue
  putcLeft,     \* up_putc calls the tasks may still make
  wrote, sent   \* per port: bytes accepted for and sent on the line (history)

serialVars == <<dev, th, boot, rxLeft, txLeft, putcLeft, wrote, sent>>

vars == <<rcc, clk, dev, th, boot, rxLeft, txLeft, putcLeft, wrote, sent>>

IeBits  == {"RXNEIE", "TXEIE", "PEIE"}          \* CR1 bits kept in priv->ie
AllInts == IeBits \cup {"TCIE", "IDLEIE"}       \* USART_CR1_ALLINTS

(***************************************************************************)
(* The USART (RM0008): TXE while TDR is empty, a write to DR goes straight *)
(* to an idle shift register; RXNE, and ORE for a byte that finds RXNE.   *)
(***************************************************************************)
TXE(d) == ~d.tdr
TC(d)  == ~d.tdr /\ ~d.shift
RXNE(d) == d.rxne

\* up_serialout(DR): up_send.
Send(d) ==
  IF d.shift THEN [d EXCEPT !.tdr = TRUE] ELSE [d EXCEPT !.shift = TRUE]

\* up_serialin(DR) after SR: clears RXNE and ORE.
ReadDR(d) == [d EXCEPT !.rxne = FALSE, !.ore = FALSE]

\* The lines the interrupt controller sees.
Pending(d) ==
  \/ (RXNE(d) \/ d.ore) /\ "RXNEIE" \in d.cr1
  \/ TXE(d) /\ "TXEIE" \in d.cr1
  \/ TC(d) /\ "TCIE" \in d.cr1
  \/ d.ore /\ "EIE" \in d.cr3

(***************************************************************************)
(* up_restoreusartint and up_disableusartint.  RestoreUsartInt is the     *)
(* whole function in one step, as it is where interrupts are masked        *)
(* (up_txint, uart_open, uart_close, the handler); the unmasked calls of   *)
(* up_rxint and up_putc are the steps RestoreIe, RestoreCr1, RestoreCr3.   *)
(***************************************************************************)
\* Mutation of RestoreUsartInt: ie is ORed into CR1 unmasked, so its CR3
\* bit EIE (bit 0) lands on CR1 bit 0.
RestoreUsartIntUnmasked(d, ie) ==
  [d EXCEPT !.ie = ie, !.cr1 = (@ \ IeBits) \cup ie,
            !.cr3 = (@ \ {"EIE"}) \cup (ie \cap {"EIE"})]

RestoreUsartInt(d, ie) ==
  [d EXCEPT !.ie = ie,
            !.cr1 = (@ \ IeBits) \cup (ie \cap IeBits),
            !.cr3 = (@ \ {"EIE"}) \cup (ie \cap {"EIE"})]

\* The enables up_disableusartint returns, read from CR1 and CR3.
UsedInts(d) == (d.cr1 \cap IeBits) \cup (d.cr3 \cap {"EIE"})

DisableUsartInt(d) == RestoreUsartInt(d, {})

(***************************************************************************)
(* up_setup: CR2, CR1 and CR3 cleared of their interrupt and format bits  *)
(* (word length, parity and stop bits are constants of the port and left  *)
(* out), BRR, then UE|TE|RE; priv->ie = 0.  It runs where no interrupt or *)
(* task can come between its writes (boot, or uart_open with interrupts   *)
(* masked), so it is one step; but the first CR1 write clears TE, which    *)
(* loses a byte still in TDR or the shift register (RM0008, 27.3.2), and   *)
(* the later UE|TE|RE does not bring it back.                              *)
(***************************************************************************)
\* The BRR value: usartdiv32 = fCK / (baud/2), the mantissa shifted to
\* bits 15:4 and the rounded fraction ORed in at bits 3:0.
\* Mutation of Brr: the fraction is truncated instead of rounded.
BrrTruncated(apb, baud) ==
  LET usartdiv32 == apb \div (baud \div 2)
      mantissa   == usartdiv32 \div 32
  IN (mantissa * 16) | ((usartdiv32 - mantissa * 32) \div 2)

Brr(apb, baud) ==
  LET usartdiv32 == apb \div (baud \div 2)
      mantissa   == usartdiv32 \div 32
      fraction   == (usartdiv32 - mantissa * 32 + 1) \div 2
  IN (mantissa * 16) | fraction

Setup(u, d) ==
  [d EXCEPT !.cr1 = (@ \ (AllInts \cup {"TE", "RE"})) \cup {"UE", "TE", "RE"},
            !.cr3 = @ \ {"EIE"},
            !.brr = Brr(ApbClock[u], Baud),
            !.ie = {}, !.tdr = FALSE, !.shift = FALSE]

\* up_shutdown: interrupts off, then UE, TE and RE off.  Clearing TE during
\* a transmission freezes the baud counters and the byte in the shift
\* register is lost (RM0008, 27.3.2), as is one waiting in TDR.
Shutdown(d) ==
  [DisableUsartInt(d) EXCEPT !.cr1 = @ \ {"UE", "TE", "RE"}, !.tdr = FALSE, !.shift = FALSE]

(***************************************************************************)
(* The upper half's uart_xmitchars: send while txready and the buffer has *)
(* bytes, and call txint(false) (up_txint, interrupts already masked) once *)
(* it is empty.                                                            *)
(***************************************************************************)
TxintOff(d) == RestoreUsartInt(d, d.ie \ {"TXEIE"})

XmitChars(d) ==
  LET n  == IF TXE(d) /\ d.txq > 0 THEN 1 ELSE 0
      d1 == IF n = 1 THEN [Send(d) EXCEPT !.txq = @ - 1] ELSE d
      n2 == IF TXE(d1) /\ d1.txq > 0 THEN 1 ELSE 0
      d2 == IF n2 = 1 THEN [Send(d1) EXCEPT !.txq = @ - 1] ELSE d1
  IN IF d2.txq = 0 THEN TxintOff(d2) ELSE d2

\* uart_recvchars: up_receive while up_rxavailable; a full buffer drops it.
RecvChars(d) ==
  IF RXNE(d)
  THEN [ReadDR(d) EXCEPT !.rxq = IF @ < RxBufSize THEN @ + 1 ELSE @]
  ELSE d

(***************************************************************************)
(* up_interrupt_common: each pass reads SR and serves RXNE and TXE when   *)
(* their interrupts are enabled, until a pass serves nothing.  The handler *)
(* runs atomically against a frozen USART, where after one serving pass   *)
(* RXNE is clear and either TDR is full or TXEIE is off, so the second     *)
(* pass serves nothing and the 256-pass limit is never reached.            *)
(***************************************************************************)
IsrPass(d) ==
  LET d1 == IF RXNE(d) /\ "RXNEIE" \in d.ie THEN RecvChars(d) ELSE d
  IN IF TXE(d1) /\ "TXEIE" \in d1.ie THEN XmitChars(d1) ELSE d1

(***************************************************************************)
(* up_rxint: read priv->ie, set or clear the RX enables, and write it back *)
(* through up_restoreusartint, all without masking interrupts.            *)
(***************************************************************************)
RxInts == IF ErrInts THEN {"RXNEIE", "PEIE", "EIE"} ELSE {"RXNEIE"}

RxintMask(ie, enable) ==
  IF enable THEN ie \cup RxInts ELSE ie \ {"RXNEIE", "PEIE", "EIE"}

TxintOn(d) == XmitChars(RestoreUsartInt(d, d.ie \cup {"TXEIE"}))

Ports == [cr1 : SUBSET (AllInts \cup {"UE", "TE", "RE"}),
          cr3 : SUBSET {"EIE"}, brr : Nat,
          ie : SUBSET (IeBits \cup {"EIE"}),
          rxne : BOOLEAN, ore : BOOLEAN, tdr : BOOLEAN, shift : BOOLEAN,
          irq : BOOLEAN, open : BOOLEAN, txq : Nat, rxq : Nat]

\* "restore", "cr1", "cr3": before the priv->ie write, the CR1 and the CR3
\* read-modify-write of an unmasked up_restoreusartint, returning to "ret".
Pcs == {"idle", "restore", "cr1", "cr3", "read", "write", "putc"}

\* The upper-half call (uart_read, uart_write) or up_putc a task is in.
Calls == {"read", "write", "putc"}

\* At reset the registers are zero; priv->ie is zero in .data.
PortInit(u) ==
  [cr1 |-> {}, cr3 |-> {}, brr |-> 0,
   ie |-> {}, rxne |-> FALSE, ore |-> FALSE, tdr |-> FALSE, shift |-> FALSE,
   irq |-> FALSE, open |-> FALSE, txq |-> 0, rxq |-> 0]

Init ==
  /\ RccInit
  /\ dev = [u \in Usarts |-> PortInit(u)]
  /\ th = [t \in Threads |-> [pc |-> "idle", call |-> "read", u |-> Console,
                               ie |-> {}, saved |-> {}, ret |-> "idle"]]
  /\ boot = "reset"
  /\ rxLeft = MaxRx
  /\ txLeft = MaxTx
  /\ putcLeft = MaxPutc
  /\ wrote = [u \in Usarts |-> 0]
  /\ sent = [u \in Usarts |-> 0]

\* A pending interrupt of an attached port preempts the task at once, so a
\* task step happens only while none is pending.
Quiet == \A u \in Usarts : ~(dev[u].irq /\ Pending(dev[u]))

Idle(t) == th[t].pc = "idle" /\ Quiet

\* The tasks inside an upper-half call on a port; uart_close waits for them.
Busy(u) == {t \in Threads : th[t].pc # "idle" /\ th[t].u = u /\ th[t].call # "putc"}

(***************************************************************************)
(* Boot.                                                                   *)
(***************************************************************************)
\* stm32_lowsetup (after stm32_clockconfig): the console's BRR from the
\* same formula, then UE, TE and RE.
LowSetup ==
  /\ boot = "reset" /\ clk = "done"
  /\ dev' = [dev EXCEPT ![Console].brr = Brr(ApbClock[Console], Baud),
                        ![Console].cr1 = @ \cup {"UE", "TE", "RE"}]
  /\ boot' = "low"
  /\ UNCHANGED <<rcc, clk, wrote, sent, putcLeft, th, rxLeft, txLeft>>

\* up_earlyserialinit: every port's interrupts off, the console set up.
EarlySerialInit ==
  /\ boot = "low"
  /\ dev' = [u \in Usarts |->
               IF u = Console THEN Setup(u, DisableUsartInt(dev[u]))
               ELSE DisableUsartInt(dev[u])]
  /\ boot' = "early"
  /\ UNCHANGED <<rcc, clk, wrote, sent, putcLeft, th, rxLeft, txLeft>>

\* up_serialinit: uart_register of every port; no register changes.
SerialInit ==
  /\ boot = "early"
  /\ boot' = "running"
  /\ UNCHANGED <<rcc, clk, wrote, sent, putcLeft, dev, th, rxLeft, txLeft>>

(***************************************************************************)
(* The upper half's first open and last close, with interrupts masked.    *)
(***************************************************************************)
\* uart_open: up_setup unless console, up_attach, buffers emptied, rxint(true).
Open(t, u) ==
  /\ boot = "running" /\ Idle(t) /\ ~dev[u].open
  /\ LET d1 == IF u = Console THEN dev[u] ELSE Setup(u, dev[u])
         d2 == [d1 EXCEPT !.irq = TRUE, !.open = TRUE, !.txq = 0, !.rxq = 0]
     IN dev' = [dev EXCEPT ![u] = RestoreUsartInt(d2, RxintMask(d2.ie, TRUE))]
  /\ UNCHANGED <<rcc, clk, wrote, sent, putcLeft, th, boot, rxLeft, txLeft>>

\* uart_close: once the buffer is empty and txempty (up_txready) holds,
\* rxint(false), up_detach, and up_shutdown unless console.
Close(t, u) ==
  /\ Idle(t) /\ dev[u].open /\ Busy(u) \subseteq {s \in Threads : th[s].pc = "putc"}
  /\ dev[u].txq = 0 /\ TXE(dev[u])
  /\ LET d1 == RestoreUsartInt(dev[u], RxintMask(dev[u].ie, FALSE))
         d2 == [d1 EXCEPT !.irq = FALSE, !.open = FALSE]
     IN dev' = [dev EXCEPT ![u] = IF u = Console THEN d2 ELSE Shutdown(d2)]
  /\ UNCHANGED <<rcc, clk, wrote, sent, putcLeft, th, boot, rxLeft, txLeft>>

(***************************************************************************)
(* Task calls.  uart_read calls rxint(false), takes a byte and calls       *)
(* rxint(true); uart_write calls txint(false), buffers a byte and calls   *)
(* txint(true).  up_rxint reads priv->ie in one step and writes it back   *)
(* through the three unmasked steps of up_restoreusartint.                *)
(***************************************************************************)
\* up_rxint up to its up_restoreusartint: ie = priv->ie with the RX enables
\* set or cleared; the call then goes on at ret.
RxintRead(t, u, enable, ret) ==
  LET ie == RxintMask(dev[u].ie, enable)
  IN [th EXCEPT ![t] = [pc |-> "restore", call |-> "read", u |-> u,
                        ie |-> ie, saved |-> {}, ret |-> ret]]

ReadBegin(t, u) ==
  /\ Idle(t) /\ dev[u].open
  /\ th' = RxintRead(t, u, FALSE, "read")
  /\ UNCHANGED <<rcc, clk, wrote, sent, putcLeft, dev, boot, rxLeft, txLeft>>

\* up_restoreusartint, unmasked: priv->ie = ie.
RestoreIe(t) ==
  LET u == th[t].u
  IN /\ th[t].pc = "restore" /\ Quiet
     /\ dev' = [dev EXCEPT ![u].ie = th[t].ie]
     /\ th' = [th EXCEPT ![t].pc = "cr1"]
     /\ UNCHANGED <<rcc, clk, wrote, sent, putcLeft, boot, rxLeft, txLeft>>

\* The read-modify-write of CR1: its interrupt enables set to those of ie.
RestoreCr1(t) ==
  LET u == th[t].u
  IN /\ th[t].pc = "cr1" /\ Quiet
     /\ dev' = [dev EXCEPT ![u].cr1 = (@ \ IeBits) \cup (th[t].ie \cap IeBits)]
     /\ th' = [th EXCEPT ![t].pc = "cr3"]
     /\ UNCHANGED <<rcc, clk, wrote, sent, putcLeft, boot, rxLeft, txLeft>>

\* The read-modify-write of CR3 (EIE), and the return to the caller.
RestoreCr3(t) ==
  LET u == th[t].u
  IN /\ th[t].pc = "cr3" /\ Quiet
     /\ dev' = [dev EXCEPT ![u].cr3 = (@ \ {"EIE"}) \cup (th[t].ie \cap {"EIE"})]
     /\ th' = [th EXCEPT ![t].pc = th[t].ret]
     /\ UNCHANGED <<rcc, clk, wrote, sent, putcLeft, boot, rxLeft, txLeft>>

\* Take a byte from the receive buffer, if any, then call rxint(true).
ReadByte(t) ==
  LET u == th[t].u
  IN /\ th[t].pc = "read" /\ Quiet
     /\ dev' = [dev EXCEPT ![u].rxq = IF @ > 0 THEN @ - 1 ELSE 0]
     /\ th' = RxintRead(t, u, TRUE, "idle")
     /\ UNCHANGED <<rcc, clk, wrote, sent, putcLeft, boot, rxLeft, txLeft>>

\* txint(false) under irqsave, then one byte into the transmit buffer.
Write(t, u) ==
  /\ Idle(t) /\ dev[u].open /\ txLeft > 0
  /\ dev' = [dev EXCEPT ![u] = [TxintOff(@) EXCEPT !.txq = @ + 1]]
  /\ txLeft' = txLeft - 1
  /\ th' = [th EXCEPT ![t] = [@ EXCEPT !.pc = "write", !.call = "write", !.u = u]]
  /\ wrote' = [wrote EXCEPT ![u] = @ + 1]
  /\ UNCHANGED <<rcc, clk, sent, putcLeft, boot, rxLeft>>

\* up_txint(true): TXEIE on and uart_xmitchars, which turns it off again
\* once the buffer is empty.
WriteEnd(t) ==
  LET u == th[t].u
  IN /\ th[t].pc = "write" /\ Quiet
     /\ dev' = [dev EXCEPT ![u] = TxintOn(@)]
     /\ th' = [th EXCEPT ![t].pc = "idle"]
     /\ UNCHANGED <<rcc, clk, wrote, sent, putcLeft, boot, rxLeft, txLeft>>

\* up_putc: up_disableusartint(priv, &ie) on the console reads the enables
\* from CR1 and CR3 into ie, then restores 0.
PutcBegin(t) ==
  /\ Idle(t) /\ putcLeft > 0
  /\ putcLeft' = putcLeft - 1
  /\ th' = [th EXCEPT ![t] = [pc |-> "restore", call |-> "putc", u |-> Console,
                              ie |-> {}, saved |-> UsedInts(dev[Console]), ret |-> "putc"]]
  /\ UNCHANGED <<rcc, clk, wrote, sent, dev, boot, rxLeft, txLeft>>

\* up_lowputc waits for TXE and writes DR; then up_restoreusartint(priv, ie)
\* with the enables saved by up_disableusartint.
PutcEnd(t) ==
  /\ th[t].pc = "putc" /\ Quiet
  /\ TXE(dev[Console]) /\ {"UE", "TE"} \subseteq dev[Console].cr1
  /\ dev' = [dev EXCEPT ![Console] = Send(@)]
  /\ th' = [th EXCEPT ![t] = [@ EXCEPT !.pc = "restore", !.ie = th[t].saved, !.ret = "idle"]]
  /\ wrote' = [wrote EXCEPT ![Console] = @ + 1]
  /\ UNCHANGED <<rcc, clk, sent, putcLeft, boot, rxLeft, txLeft>>

(***************************************************************************)
(* The interrupt handler and the USART.                                    *)
(***************************************************************************)
Isr(u) ==
  /\ dev[u].irq /\ Pending(dev[u])
  /\ dev' = [dev EXCEPT ![u] = IsrPass(@)]
  /\ UNCHANGED <<rcc, clk, wrote, sent, putcLeft, th, boot, rxLeft, txLeft>>

\* A byte arrives from the line: RXNE, or ORE if RXNE is still set.
LineRx(u) ==
  /\ rxLeft > 0 /\ {"UE", "RE"} \subseteq dev[u].cr1
  /\ dev' = [dev EXCEPT ![u] = IF @.rxne THEN [@ EXCEPT !.ore = TRUE]
                                         ELSE [@ EXCEPT !.rxne = TRUE]]
  /\ rxLeft' = rxLeft - 1
  /\ UNCHANGED <<rcc, clk, wrote, sent, putcLeft, th, boot, txLeft>>

\* The shift register finishes a byte and takes the next from TDR.
ShiftDone(u) ==
  /\ dev[u].shift /\ {"UE", "TE"} \subseteq dev[u].cr1
  /\ dev' = [dev EXCEPT ![u] = IF @.tdr THEN [@ EXCEPT !.tdr = FALSE]
                                         ELSE [@ EXCEPT !.shift = FALSE]]
  /\ sent' = [sent EXCEPT ![u] = @ + 1]
  /\ UNCHANGED <<rcc, clk, wrote, putcLeft, th, boot, rxLeft, txLeft>>

Next ==
  \/ RccStep /\ UNCHANGED serialVars
  \/ LowSetup \/ EarlySerialInit \/ SerialInit
  \/ \E t \in Threads, u \in Usarts :
        Open(t, u) \/ Close(t, u) \/ ReadBegin(t, u) \/ Write(t, u)
  \/ \E t \in Threads :
        \/ RestoreIe(t) \/ RestoreCr1(t) \/ RestoreCr3(t)
        \/ ReadByte(t) \/ WriteEnd(t) \/ PutcBegin(t) \/ PutcEnd(t)
  \/ \E u \in Usarts : Isr(u) \/ LineRx(u) \/ ShiftDone(u)

\* A task inside a driver call runs on (the scheduler preempts but does not
\* starve it); a pending, attached interrupt is taken; the USART shifts.
Fairness ==
  /\ RccFairness
  /\ WF_vars(LowSetup) /\ WF_vars(EarlySerialInit) /\ WF_vars(SerialInit)
  /\ \A t \in Threads :
        WF_vars(RestoreIe(t) \/ RestoreCr1(t) \/ RestoreCr3(t) \/ ReadByte(t)
                \/ WriteEnd(t) \/ PutcEnd(t))
  /\ \A u \in Usarts : WF_vars(Isr(u)) /\ WF_vars(ShiftDone(u))

Spec == Init /\ [][Next]_vars /\ Fairness

(***************************************************************************)
(* Properties.                                                             *)
(***************************************************************************)
TypeOK ==
  /\ dev \in [Usarts -> Ports]
  /\ \A u \in Usarts : dev[u].txq \in 0..MaxTx /\ dev[u].rxq \in 0..RxBufSize
  /\ th \in [Threads -> [pc : Pcs, call : Calls, u : Usarts,
                          ie : SUBSET (IeBits \cup {"EIE"}),
                          saved : SUBSET (IeBits \cup {"EIE"}),
                          ret : {"idle", "read", "putc"}]]
  /\ RccTypeOK
  /\ boot \in {"reset", "low", "early", "running"}
  /\ rxLeft \in 0..MaxRx /\ txLeft \in 0..MaxTx /\ putcLeft \in 0..MaxPutc
  /\ wrote \in [Usarts -> 0..MaxTx + MaxPutc] /\ sent \in [Usarts -> 0..MaxTx + MaxPutc]

\* Every interrupt the USART raises on an attached port is served by
\* up_interrupt_common: it reads or writes DR or turns TXEIE off, so the
\* level-triggered interrupt does not fire again and again with nothing
\* done.  The handler decides from priv->ie while the USART raises the line
\* from CR1, so this is about the two agreeing whenever the handler can run,
\* also between the priv->ie write and the CR1 write of an unmasked
\* up_restoreusartint.
IsrServesPending ==
  \A u \in Usarts : dev[u].irq /\ Pending(dev[u]) => IsrPass(dev[u]) # dev[u]

\* Every byte a task has written to an open port is eventually handed to
\* the USART by the faked or the real TX interrupt.
TxDrains == \A u \in Usarts : dev[u].txq > 0 ~> dev[u].txq = 0

\* The BRR value as RM0008 defines it: fCK / baud in sixteenths, rounded
\* to the nearest, mantissa and fraction added.
BrrRef(apb, baud) == ((2 * apb) \div baud + 1) \div 2

\* The BRR of every port holds the rounded divider once set, and up_setup
\* would program it for every standard baud rate and bus clock as well:
\* the fraction ORed into BRR never drops its carry.
BrrRoundsDivider ==
  /\ \A u \in Usarts : dev[u].brr \in {0, BrrRef(ApbClock[u], Baud)}
  /\ \A apb \in ApbClocks, baud \in BaudRates : Brr(apb, baud) = BrrRef(apb, baud)

\* The RCC name and bus of USARTn (USART1 on APB2, the others on APB1).
UsartName(u) == <<"USART1", "USART2", "USART3", "UART4", "UART5">>[u]

UsartPclk(u) == IF u = 1 THEN Pclk2(rcc) ELSE Pclk1(rcc)

UsartEnabled(u) == UsartName(u) \in (IF u = 1 THEN rcc.apb2enr ELSE rcc.apb1enr)

\* Whenever a port's USART is enabled (UE, by stm32_lowsetup or up_setup),
\* stm32_clockconfig has turned its bus clock on and the bus runs at the
\* STM32_PCLKn_FREQUENCY its BRR was computed from, so the line runs at the
\* configured baud rate.
UsartClockAsConfigured ==
  \A u \in Usarts :
    "UE" \in dev[u].cr1 => UsartEnabled(u) /\ UsartPclk(u) = ApbClock[u]

(***************************************************************************)
(* The transmit path implements SerialTx: the bytes a port holds are those *)
(* in the upper half's buffer, in TDR and in the shift register.           *)
(***************************************************************************)
Held(u) == dev[u].txq + (IF dev[u].tdr THEN 1 ELSE 0) + (IF dev[u].shift THEN 1 ELSE 0)

ConsoleTx == INSTANCE SerialTx
               WITH Ports <- {Console},
                    written <- [p \in {Console} |-> wrote[p]],
                    held <- [p \in {Console} |-> Held(p)],
                    line <- [p \in {Console} |-> sent[p]]

PortTx == INSTANCE SerialTx
            WITH Ports <- Usarts, written <- wrote,
                 held <- [p \in Usarts |-> Held(p)], line <- sent

\* Every byte written to the console, by uart_write or up_putc, goes out on
\* the line exactly once and in time: the console is never shut down,
\* up_putc waits for TDR to be empty before it writes DR, and no later
\* up_setup of the console (up_earlyserialinit) clears TE under a byte.
ConsoleTxImplemented == ConsoleTx!Spec

\* The same for every port: no byte is lost on the way to the line, also
\* when the upper half closes a port once txempty (up_txready) holds.
PortTxImplemented == PortTx!Spec

=============================================================================

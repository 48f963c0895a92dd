# TLA+ models of the NuttX STM32 I2C, USART and clock drivers, and of the NFS RPC client

This directory holds TLA+ models of three NuttX STM32 drivers and of the
NFS client's RPC call, together with the TLC configurations that check them.
The parts are:

* the I2C master driver, `src/nuttx/arch/arm/src/stm32/stm32_i2c.c`: its
  transfer state machine, orchestrator, synchronization, clock configurator,
  instance layer and trace ring;
* the USART lower half, `src/nuttx/arch/arm/src/stm32/stm32_serial.c`;
* the boot-time clock tree of the STM32F10xxx,
  `src/nuttx/arch/arm/src/stm32/stm32f10xxx_rcc.c`;
* `krpc_call` in `src/nuttx/fs/nfs/rpc_subr.c`, the UDP remote procedure
  call of the NFS client.

The other files under `src/` are listed in `PROJECT.json` as not modelled,
each with the reason.

## The system

### The I2C driver

The driver has the following parts:

* **Clock configurator.** `stm32_i2c_setclock` (747-837) computes CCR and
  TRISE from the bus frequency. `stm32_i2c_setfrequency` (1434-1446) stores
  that frequency.
* **Synchronization layer.** It has three pieces:
  * `sem_excl` serializes whole transactions (`stm32_i2c_sem_wait`/`_post`).
  * `sem_isr` plus the `intstate` handshake (IDLE, WAITING, DONE) hand
    completion from the interrupt to the waiting thread
    (`stm32_i2c_sem_waitdone`, 454-523).
  * `stm32_i2c_sem_waitstop` (575-621) waits for a pending STOP, with a
    timeout.
* **Transaction orchestrator.** `stm32_i2c_process` (1475-1645) does the
  following, in order:
  * waits for a previous STOP;
  * clears the error flags and START/STOP;
  * installs `msgv`/`msgc`;
  * calls setclock and sendstart, and waits;
  * classifies the status into an error code.

  It is called by the API entry points `_write`, `_read`, `_writeread` and
  `_transfer`. These take `sem_excl` and build the message array on the
  caller's stack.
* **Transfer state machine.** `stm32_i2c_isr` (980-1183) runs on the event
  and error interrupts. It walks the messages as follows:
  * SB: load the cursor and send the address.
  * ADDR/TXE: send the next byte.
  * RXNE: store the received byte.
  * ITBUFEN: turn the buffer interrupts on or off.
  * BTF: splice a NORESTART message, restart, or STOP and signal DONE.
  * Error: clear SR1 and signal DONE.
* **Instance layer.** `up_i2cinitialize`/`up_i2cuninitialize` (1757-1864)
  count the instances of a bus in `priv->refs`. The first open powers the bus
  (`stm32_i2c_init`) and initializes its semaphores. The last close powers it
  down (`stm32_i2c_deinit`) and destroys them.
* **Trace.** Under `CONFIG_I2C_TRACE`, the handler records every change of
  status in `priv->trace[]` (677-736).

Two build switches change this picture:

* **`CONFIG_I2C_POLLED`.** No I2C interrupt is enabled. The waiting thread
  calls `stm32_i2c_isr` itself in a loop (526-564) until `intstate` is DONE or
  `CONFIG_STM32_I2CTIMEOTICKS` have elapsed. The handler then never sets
  ITBUFEN and sets DONE without testing for WAITING.
* **`I2C1_FSMC_CONFLICT`** (125-133, an STM32F103 with FSMC and I2C1). FSMC
  shares a pin with I2C1. `stm32_i2c_process` clears FSMCEN in RCC AHBENR
  before the transfer (`stm32_i2c_disablefsmc`, 925-945). It waits for the
  STOP after the transfer rather than before it (1635-1637). Then it restores
  FSMCEN from the saved AHBENR (`stm32_i2c_enablefsmc`, 955-967).

The thread and the interrupt share `priv` (the cursor, `status` and
`intstate`) and the peripheral registers. The peripheral and the slave on the
bus move on their own: bytes shift, START and STOP complete, and faults
happen.

### The USART lower half and the clock tree

At boot, `stm32_clockconfig` runs three functions of `stm32f10xxx_rcc.c` in
order:

1. `rcc_reset` puts the RCC in its reset state.
2. `stm32_stdclockconfig` turns on the crystal (HSE) and polls HSERDY up to
   `HSERDY_TIMEOUT` times. It then programs the flash wait states, the AHB,
   APB2 and APB1 prescalers and the PLL. It spins on PLLRDY, selects the PLL
   as SYSCLK, and spins until SWS shows the switch.
3. `rcc_enableperipherals` turns on the bus clocks of the configured
   peripherals.

`stm32_lowsetup` then enables the console USART. After that,
`up_earlyserialinit` and `up_serialinit` of `stm32_serial.c` register the
ports.

`up_setup` computes BRR from the compile-time `STM32_PCLKn_FREQUENCY`. The
baud rate is therefore right only if the RCC has really produced that
frequency, so the two parts interact.

The upper half (`drivers/serial/serial.c`) is not in this source. It calls
the lower half as follows:

* `up_setup`, `up_attach` and `up_rxint` on open.
* `up_rxint` around reads.
* `up_txint` around writes.
* `up_detach` and `up_shutdown` on close.

The lower half's interrupt handler `up_interrupt_common` calls back into the
upper half's `uart_recvchars` and `uart_xmitchars`. `up_putc` prints on the
console with its interrupts masked. The cached mask `priv->ie` is
read-modified-written by tasks and by the handler.

## Modules

| module | models | from |
|---|---|---|
| `I2CClock` | setclock and the initial setfrequency; the `uint16_t` casts are kept (`U16`) | the code |
| `MCI2CClock` | PCLK1 = 36 MHz, the frequency sets | – |
| `I2CHw` | the I2C peripheral (CR1, CR2, SR1/SR2, DR, the shift register) and the slave | the STM32F1 reference manual, not the code |
| `I2CDriver` | the API calls, process, waitstop, waitdone (interrupt-driven and polled), sem_excl, sem_isr, the ISR, and the FSMC disable and re-enable of the FSMC-conflict build | the code |
| `MCI2CDriver` | the request sets the runs use | – |
| `I2CTrace` | `tndx`, `isr_count`, `old_status`, `trace[]` and tracereset/new/event/dump as operators on one record | the code |
| `I2CInstance` | up_i2cinitialize/uninitialize with `refs`, init/deinit, sem_init/destroy, setfrequency/setaddress, transfers seen as sem_excl plus trace calls | the code |
| `MCI2CInstance` | the status values the trace sees | – |
| `Stm32Rcc` | rcc_reset, stm32_stdclockconfig, rcc_enableperipherals; the crystal, PLL lock and clock switch as hardware steps | the code; hardware from the reference manual |
| `Stm32Serial` | the USART lower half under the upper half as environment, composed with `Stm32Rcc` as its boot prefix | the code; the USART from the reference manual |
| `MCStm32Serial` | the board's clock tree, bus clocks, baud rates | – |
| `SerialTx` | what a serial port's transmit path promises: every accepted byte is held until it goes out on the line, none lost or invented, and every held byte eventually goes out | the upper half's contract, abstract |
| `KRpc` | `krpc_call`: socket setup, the bind loop, the static xid, the send loop with its back-off and the receive loop; the server and a lossy network as environment | the code |
| `MCKRpc` | the reserved port range cut to one port | – |

### I2CDriver: how the state and the actions correspond to the code

**State.** The variables map to the code as follows:

* `priv` holds `msgv`, `msgc`, `ptr`, `dcnt`, `flags`, `status` and
  `intstate` of `struct stm32_i2c_priv_s`.
* `semIsr` is the count of `sem_isr`, and `holder` is the owner of
  `sem_excl`.
* `pc` and `ret` are each thread's position and `sem_timedwait` result.
* `build` is the configuration, `[polled, fsmc]`. It is chosen in `Init`
  from the constants `PolledBuilds` and `FsmcBuilds` and is fixed for the
  behaviour. `SetItBuf`, `IsrSignal`, `WaitBegins` and `Finish` branch on it.
* `fsmcen` is FSMCEN in AHBENR. It is set at boot by `rcc_enableperipherals`
  under `CONFIG_STM32_FSMC`. `ahbenr[t]` is the FSMCEN bit that thread t's
  `process()` saved.
* `msgs[c]` is call c's message array on the caller's stack. It is kept after
  the call returns, so a pointer into it stays meaningful.

Buffers are abstracted to slots `<<call, msg, offset>>`. `ptr` and `msgv` are
such slots, so the model sees whenever the handler touches a call other than
the live one, or goes past its array. The ghost variables `handed`, `stored`,
`doneBy`, `stray`, `stopReq`, `res` and `waitRes` record what the properties
talk about.

**Actions.** A thread runs one call as the following atomic steps. The steps
split where the code lets the interrupt or another thread in.

| action | code |
|---|---|
| `Call` | the API builds its messages |
| `Lock` | `sem_wait(sem_excl)` |
| `ProcessStart` / `WaitStopTimeout` | waitstop returns or times out, then the rest of process()'s setup up to the first `sem_timedwait` (interrupts are off there under `irqsave`); `TimedWait` takes a stale `sem_isr` count at once or sleeps |
| `Timeout` / `Signal` | `sem_timedwait` fails with ETIMEDOUT or EINTR |
| `ReWait` | the do/while loop goes round again (`KeepWaiting`) |
| `Poll` / `PollExpires` | one pass of the polled waitdone loop: the handler runs on one of `PassResults` (`PollPass`), then the loop test goes round or returns OK (`WithinTicks`), or the tick limit returns ETIMEDOUT (`Expired`) |
| `Finish` | the end of waitdone, the getstatus and clrstart of a failed wait, `Classify` (1560-1624), `sem_post(sem_excl)`; in the FSMC build it stops before the final waitstop (`pc` = endstop) |
| `ProcessEnd` | FSMC build only: the final `sem_waitstop` returns or times out, then `stm32_i2c_enablefsmc` and `sem_post(sem_excl)` |

`Isr` is the whole handler, run atomically on the status snapshot
`GetStatus`. Its body `IsrBody` is a chain of step operators in the code's
order: `IsrEvent`, `IsrBufferIrq`, `IsrByteTransferFinished`, `IsrError`.

**Abstractions.** These are the main choices:

* `dcnt` saturates at -1 (`DecCount`). The code only tests `>= 0`, `> 0`,
  `= 0` and `<= 0`, so every negative value behaves alike.
* `msgc` is a `uint8_t`, so a stale SB after the last message wraps it to
  255. Counts from `MsgcMany` (3) to 255 are kept as `MsgcMany`.
* Reading through a NULL or past-the-end `msgv` is undefined behaviour. It is
  modelled as reading any message of `GarbageMsgs`.
* A thread runs only when no I2C interrupt is pending (`ThreadRuns`), because
  the NVIC runs the handler first.
* Deadlines have no clock. `DeadlinePasses` lets a deadline expire while the
  bus moves, at most `MaxTimeouts` times. It also lets one expire whenever
  nothing else can move (`BusStuck`).
* The polled loop has no clock either. `TicksRunOut` lets the tick limit pass
  at most `MaxTimeouts` times while the bus moves. It also lets it pass once a
  pass changes nothing and the peripheral cannot move (`HwCanProgress`, the
  disjunction of the guards of the peripheral's own steps). And it lets it
  pass in a transfer through a wrapped `msgc`, whose 255 restarts outlast
  any tick limit.

### I2CHw

The peripheral follows the reference manual:

* A byte moves only after ADDR is cleared.
* START and STOP are served after the byte in progress.
* A received byte is ACKed as CR1.ACK says when it completes.
* A full receiver stalls with BTF.
* After a NACK the master keeps clocking until STOP.

Faults are a NACK (AF), a bus error (BERR) and lost arbitration (ARLO), at
most `MaxFaults` of them.

### I2CInstance and I2CTrace

**State.**

* `refs` is `priv->refs`.
* `sem` is `sem_excl` (its count, and whether it is initialised).
* `hw` is the bus's RCC clock, IRQ attachment and CR1.PE.
* `handle` is the instance each thread holds.
* `conf` holds each instance's frequency, address and flags.
* `tr` is the trace record of `I2CTrace`.

**Actions.**

* `Open` is all of `up_i2cinitialize` after `kmalloc`. That part runs
  between `irqsave` and `irqrestore`.
* A close is four steps, split where the code leaves the critical section:
  * `CloseCheck` is the unlocked `refs` test.
  * `CloseDec` is the masked decrement.
  * `CloseDeinit` is `stm32_i2c_deinit`.
  * `CloseDestroy` is `sem_destroy` and `kfree`.
* `SetFrequency` and `SetAddress` model the two setters.
* `Lock`, `Isr` and `Unlock` are a transfer as this layer sees it. `Isr`
  composes `TraceNew` and `TraceEvent` within one step.

`I2cDeinit` keeps the missing I2C3 case of the switch. `TraceNew` keeps the
`tndx < CONFIG_I2C_NTRACE` test. The trace record's `buf` has one slot more
than `trace[]`: that slot stands for the memory that follows the array.

### Stm32Rcc and Stm32Serial

**Stm32Rcc state.** `rcc` holds CR, CFGR, FLASH_ACR, the reset and enable
registers and CIR. Its fields are the dividers and the multiplier that the
CFGR fields select. SW and SWS keep their encodings, because the code compares
SWS with a constant. `rcc` also holds the loop counter `timeout` of the HSE
poll and the crystal's start-up time. `clk` is where `stm32_clockconfig` is.

**Stm32Rcc actions.**

* `RccReset` is `rcc_reset`.
* `HseOn` sets HSEON; the crystal's start-up time is chosen from
  `HseStartups`.
* `HsePoll` is one pass of the for loop that finds HSERDY clear.
* `HseCheck` is the `if (timeout > 0)` after the loop. A timeout skips the
  whole configuration.
* `ClockConfig` is the flash setup, the prescalers, the PLL fields and PLLON.
* `PllWait` and `SwsWait` are one poll each of the two spins, so a spin that
  never ends is a behaviour that stutters in place.
* `EnablePeripherals` applies the enable sets `EnableAhb`, `EnableApb2` and
  `EnableApb1`, computed from `Config` and `ForcePower` as the `#ifdef`
  chains do.

`PllLock` and `SwsFollow` are the hardware.

**Stm32Serial state.** `dev[u]` holds each port's USART registers: CR1, CR3,
BRR, RXNE, ORE, TDR and the shift register. It also holds `priv->ie`, the
IRQ attachment, and the upper half's transmit and receive buffers. `th[t]`
is where each task is inside a lower-half call: its pc, the upper-half call
it is in, the mask an unmasked `up_restoreusartint` is writing (`ie`), the
mask `up_putc` saved (`saved`), and where the call goes on (`ret`). `wrote` and
`sent` are history: the bytes each port has accepted (by `uart_write` or, on
the console, `up_putc`) and the bytes the USART has shifted out.

**Stm32Serial actions.**

| action | code |
|---|---|
| `LowSetup` | `stm32_lowsetup`, environment |
| `EarlySerialInit` | `up_earlyserialinit` (1160-1181) |
| `SerialInit` | `up_serialinit` (1192-1225) |
| `Open` / `Close` | the upper half's first open and last close, around `up_setup`, `up_attach`, `up_rxint`, `up_detach` and `up_shutdown` |
| `ReadBegin` + `RxintRead` | `up_rxint(false)` up to its `up_restoreusartint`: the read of `priv->ie` with the RX enables cleared |
| `RestoreIe` / `RestoreCr1` / `RestoreCr3` | `up_restoreusartint` (517-536) called with interrupts enabled, by `up_rxint` and `up_putc`: the `priv->ie` write (523), the read-modify-write of CR1 (527-530), that of CR3 (532-535) |
| `ReadByte` | a byte from the receive buffer, then `up_rxint(true)` up to its restore |
| `Write` / `WriteEnd` | `up_txint(false)` and a byte into the buffer; `up_txint(true)` with the faked TX interrupt |
| `PutcBegin` / `PutcEnd` | `up_putc`: `up_disableusartint` reads CR1 and CR3 into the saved mask and restores 0; then `up_lowputc` (wait for TXE, write DR) and the restore of the saved mask |
| `Isr` | `up_interrupt_common` (800-861) |
| `LineRx` / `ShiftDone` | the line and the USART |

`up_shutdown` clears TE and UE. The reference manual says that clearing TE
during a transmission loses the byte being sent, so `Shutdown` also empties
TDR and the shift register. `up_setup` writes CR1 with TE cleared (640-658)
before it sets UE|TE|RE again (701-703), so `Setup` empties them as well.
`Setup` is one step: it runs at boot or in `uart_open` with interrupts
masked, and the USART neither shifts nor receives while TE and RE are off.

Where interrupts are masked (`up_txint`, open, close, the handler)
`RestoreUsartInt` is the whole of `up_restoreusartint` in one step.

**Refinement.** `Stm32Serial` implements `SerialTx` under the mapping
`written <- wrote`, `line <- sent`, and `held <- Held(u)`, the bytes in the
upper half's buffer plus one for a full TDR and one for a busy shift
register. `ConsoleTx` instantiates it for the console, `PortTx` for every
port; `ConsoleTxImplemented` and `PortTxImplemented` state that the
abstract specification, weak fairness of `Emit` included, is a property of
the serial model. TLC finds both violated: a byte is lost under a TE that
`up_setup` or `up_shutdown` clears (see "Counterexamples no run checks
yet").

A task steps only while no attached port has an interrupt pending (`Quiet`),
because the handler preempts it. The handler, another task's `up_txint`, the
line and the USART can all act between the steps of an unmasked
`up_restoreusartint`. An interrupt that the handler does not serve stays
pending, so from then on only the handler runs: the model's picture of an
interrupt storm.

### KRpc

**State.** `xid` is the `static` xid that every call shares. `task[c]`
holds the locals of caller `c`'s current `krpc_call`:
* the place in the function (`pc`);
* the bound port;
* `call->rp_xid`, `retries`, `timo` and `secs`;
* the seconds waited so far, the return value, and (history) the id of the
  call whose reply was taken.

`bound` is the set of ports bound by open sockets. `net` is a bag of
datagrams, each carrying its xid, the client port and the id of the call
that sent the request. The data of a call is abstracted away.

**Actions.**

| action | code |
|---|---|
| `Call` | the entry: `psock_socket` and the socket options (204-250), any of which may fail |
| `Bind` | the bind loop from port 1023 downwards, then `xid = rand()` and the header (252-301) |
| `Send` | one pass of the `for` loop: the exit with ETIMEDOUT, `psock_send` and the back-off (303-335) |
| `RecvTimeout` | EWOULDBLOCK after the 1 s receive timeout: `secs--`, and `retries--` at zero (336-344) |
| `RecvFail` | another `psock_recvfrom` error (346-349) |
| `Recv` | a datagram for the port: a foreign xid is skipped, a refusal ends in ECONNREFUSED, success returns 0 without closing the socket (351-391) |
| `Out` | the `out:` label: `psock_close` and return (393-395) |
| `Serve`, `Lose`, `Duplicate` | the server and the network, environment |

`Finished` lets the model stop once every caller has made its `MaxCalls`
calls. The code's buffer pointers (`so`, `sin`, `call`, `reply`, `tv`) are
never set. The model takes them as the storage of the call.

## Runs

| run | cfg | expect | what it shows |
|---|---|---|---|
| clock | `I2CClock.cfg` | violation | Finding 8. Every frequency from 1 Hz to 400 kHz is a possible request, and `ClockRegistersConsistent` (CCR selects the requested mode with a legal divider, TRISE of that mode, SCL within the mode's limit) fails for the standard-mode frequencies whose divider does not fit. |
| driver | `I2CDriver.cfg` | pass | One thread, two calls, one fault, one deadline (or tick limit) and one signal, in the interrupt-driven and the polled build, including the garbage paths after a stale cursor. `WaitOkMeansDone`: waitdone returns OK only for a call the handler signalled. `TypeOK` includes that `sem_isr` never holds more than one post. |
| driver_clean | `I2CDriver_clean.cfg` | pass | Two threads, two calls, no faults or timeouts, in all four combinations of the polled and the FSMC-conflict build. It checks `ResultMatchesTransfer`, `OkMeansHandedOff`, `CallsReturn` under the fairness below, and `FsmcOffWhileBusy`: while FSMC is enabled in the FSMC build, I2C1 is idle with no START or STOP pending. Its mutant `ProcessEndNoWait` re-enables FSMC without the final waitstop. |
| status_lost | `I2CDriver_status_lost.cfg` | violation | Finding 1. |
| stray | `I2CDriver_stray.cfg` | violation | Finding 2. |
| no_stop | `I2CDriver_no_stop.cfg` | violation | Finding 3. |
| irq_storm | `I2CDriver_irq_storm.cfg` | violation | Finding 4. |
| instance_race | `I2CInstance_race.cfg` | violation | Finding 5. |
| trace_overflow | `I2CInstance_trace.cfg` | violation | Finding 6. |
| serial | `Stm32Serial.cfg` | pass | See below. |
| serial_race | `Stm32Serial_race.cfg` | violation | Finding 7. |
| serial_storm | `Stm32Serial_storm.cfg` | violation | Finding 9, with the serial run's bounds. |

**The serial run** boots through `stm32_clockconfig`. One task then reads,
writes, and prints through `up_putc` on the console (USART1) and on USART2.
The run checks the following properties:

* `BrrRoundsDivider`: BRR is the rounded divider, for every standard baud
  rate and bus clock.
* `UsartClockAsConfigured`: an enabled USART has its bus clock on, and the
  clock runs at the frequency its BRR was computed from.
* `TxDrains`: every byte a task buffers is eventually handed to the USART.
  The run reaches the RXNE storm of finding 9. With `MaxTx = 2`, the faked
  TX interrupt has already moved every buffered byte into the USART by
  then, so the storm holds no byte back here. With two tasks it does
  (finding 7).

The I2C instance layer has no passing run, and its hardware and trace
properties fail (findings 5 and 6). `Open` and `CloseDec` change `refs` and
the instances held in one masked step each, so relating the two would hold
whatever the unmasked steps do.

## Findings

TLC reached each finding below as a counterexample. Lines refer to
`stm32_i2c.c` unless stated otherwise.

1. **The ISR stores `priv->status` on every run (1181).** A later interrupt
   overwrites an error the waiter has not read yet, so the call returns OK.
2. **process() does not reset `ptr`/`dcnt`/`flags` (1513).** After an aborted
   call, the next call's first ADDR interrupt sends a byte from the dead
   call's stack buffer.
3. **The error path issues no STOP (1156).** The lock is released with the
   bus still held.
4. **ITBUFEN is turned off only at `dcnt == 0` (1081).** With a negative
   `dcnt`, RXNE is not read and TXE is not written. The buffer interrupt then
   fires forever and no thread runs again.
5. **Uninitialize leaves the critical section before deinit (1856).** An
   open between the decrement and `stm32_i2c_deinit` brings the bus up and
   holds an instance. The closing thread then powers the bus down and
   destroys its `sem_excl`.
6. **The trace index reaches `CONFIG_I2C_NTRACE` (698).** tracenew moves
   `tndx` while it is below NTRACE, so the NTRACE-th new status is written to
   `trace[NTRACE]`, past the array. tracedump prints that entry too.
7. **`up_rxint` is unmasked (`stm32_serial.c` 982).** It reads `priv->ie`
   and writes it back without `irqsave`. Another task's `up_txint(true)` in
   between is undone: `priv->ie` loses TXEIE with bytes buffered. In the
   shortest trace the stale mask is written before the CR1 write, so TXE
   raises an interrupt that the handler ignores, for ever. Either way the
   bytes are never sent. The run has no receiver (`MaxRx = 0`), so this is
   the two-task race and not finding 9.
8. **The standard-mode divider overflows CCR (771).** `speed` is cast to
   `uint16_t` and ORed into CCR. It is clamped only from below. At or below
   PCLK1/8192 (4394 Hz at 36 MHz), its bits above 11 land on bits 12-15. For
   1 Hz the value 0xA880 sets FS, so the bus is set up in fast mode.
9. **`up_restoreusartint` writes `priv->ie` before CR1 (`stm32_serial.c`
   523).** `up_rxint` calls it with interrupts enabled. The steps are:
   1. `uart_read`'s `rxint(false)` writes `priv->ie` without RXNEIE.
   2. A byte arrives before the CR1 write, while CR1 still has RXNEIE.
   3. The USART raises RXNE. `up_interrupt_common` serves RXNE only when
      `priv->ie` has RXNEIE, so it returns without reading DR.
   4. The level interrupt is taken again at once. The task never reaches
      its CR1 write.

   One task is enough.

`BusReleasedBetweenCalls` (finding 3) reads `stopReq`, the model's record
that a STOP was requested since the last START. It would also flag an
ARLO, after which the hardware has already let go of the bus. The
counterexample TLC reports is a BERR, where the master still holds the bus.

### Earlier findings

`I2CDriver` still defines the properties of four earlier counterexamples. No current run checks them. Each was reached with a
configuration that is no longer among the runs:

* A timed-out call sees BUSY and returns EBUSY (1619;
  `TimeoutReportedAsTimeout`).
* In a two-byte read, ACK is cleared from the RXNE interrupt (1064), so a late
  handler lets the last byte be ACKed (`ReadNackLast`).
* TXE and BTF can arrive in one snapshot, so OK is returned before the slave
  has ACKed the last byte (1090; `OkNeverNacked`).
* After EINTR, the loop exits on DONE with ret = -1, so a finished transfer
  returns EBUSY.

### Counterexamples no run checks yet

The project's runs do not include the following configurations. Each
one's result below is what TLC reports for it.

* `I2CDriver_clean.cfg` with `MaxTimeouts = 1` finds `OkMeansHandedOff`
  violated in both builds (`stm32_i2c.c` 549 polled, 1535 interrupt-driven).
  1. The wait ends with ETIMEDOUT while the transfer is still on the bus.
     In the polled build, the thread was preempted between its call of the
     handler and the elapsed test, and finds the tick limit passed.
  2. The next call's first handler runs complete on that transfer's events.
  3. The next call returns OK without its own bytes having been sent.

  This is why driver_clean has no deadlines. Finding 2 is another effect
  of the same stale transfer.
* The same cfg with `MaxTimeouts = 1`, `PolledBuilds = {FALSE}`,
  `FsmcBuilds = {TRUE}` and only `FsmcOffWhileBusy` finds it violated in 9
  steps (`stm32_i2c.c` 1641).
  1. `sem_waitdone` times out, and `Finish` requests the STOP.
  2. The bus is held, so the STOP stays pending.
  3. The final `sem_waitstop` gives up, and `stm32_i2c_enablefsmc` turns
     FSMC back on while I2C1 still drives the shared pin.

* `KRpc.cfg` checks `TypeOK`, `WaitBounded` and `CallsReturn` for one caller
  making two calls.
  * The setup: one failing socket call, one duplicate, three sends, and the
    back-off capped at 2 s.
  * The result: 445k states, no error.
  * The mutants `SendCapOffByOne`, `SendOneExtra` and `BindUntilFree` break
    the three properties in turn.
* `KRpc_stale.cfg` finds `OwnReply` violated in 11 steps (`rpc_subr.c`
  285).
  1. A call times out while the server's answer is still in the network,
     and its socket is closed.
  2. The next call binds the same port, the highest free one.
  3. `xid = rand()` follows `srand(time(NULL))`, so within the same second
     the new call gets the same xid.
  4. The new call takes the old answer and returns 0 with the earlier
     call's result.
* `Stm32Serial.cfg` with `PROPERTY ConsoleTxImplemented` alone finds it
  violated in 17 steps (`stm32_serial.c` 658).
  1. A task's `up_putc` after `stm32_lowsetup` writes a byte, which goes
     into the shift register.
  2. `up_earlyserialinit` runs `up_setup` on the console, whose CR1 write
     clears TE while the byte is still being shifted out.
  3. The byte is lost. Setting UE|TE|RE again does not resend it.
* `Stm32Serial_cut.cfg` finds `PortTxImplemented` violated in 17 steps
  (`stm32_serial.c` 179).
  1. USART2 accepts a byte and the faked TX interrupt moves it into the
     USART.
  2. TDR empties into the shift register and TXE is set.
  3. The upper half's close sees `txempty`, which is `up_txready` (TXE,
     not TC), and calls `up_shutdown`.
  4. `up_shutdown` clears TE while the byte is still being shifted out,
     and the byte is lost.

## Bounds

**KRpc.** The reserved range 512..1023 is cut to port 1023. One successful
call (whose socket is never closed) then exhausts it, and a call that fails
frees it for the next. MAX_RESEND_DELAY is cut from 5 s to 2 s, so three
sends reach the cap. Two concurrent callers with these bounds exceed
4 million states and are not explored.

**I2C driver.**

* One thread is enough for the handler and handshake races. Two threads
  (driver_clean) exercise `sem_excl`.
* `MaxCalls = 2` is the least that carries state from one call to the next.
* `PolledBuilds` and `FsmcBuilds` give the values of the two build
  switches that a run explores. Violation runs are of the interrupt-driven
  build without the FSMC conflict, where their findings are. The status
  loss of finding 1 cannot happen in the polled build: there, `IsrSignal`
  sets DONE unconditionally.
* The runs allow one fault, one timeout and one signal. Every finding needs
  at most one of each.
* `MaxRx = 6` covers the bytes a one- or two-byte read clocks before STOP.
* The clock run enumerates every frequency from 1 Hz to 400 kHz, so both
  the frequencies whose divider fits and those whose divider does not are
  requested. Frequencies stay below 85,899,346, so `f * 25` cannot wrap.

**Instance layer.**

* Two threads and `MaxOpens = 2` give an open during another thread's close.
* The trace overflow needs `NTRACE = 2` and two distinct statuses
  (`MaxIsr = 3`). With `NTRACE = 1` a single status already reaches
  `trace[1]`.

**Serial.**

* USART1 (console, APB2) and USART2 (APB1) cover both buses, and both the
  console and non-console paths of open, close and setup.
* The pass run has one task, `MaxTx = 2`, `MaxRx = 1` and `MaxPutc = 1`.
  One received byte opens the window of finding 9. Overrun (ORE) needs a
  second byte. No property of the pass run is about ORE.
* serial_storm uses the pass run's bounds.
* The race needs two tasks and `MaxTx = 3`, and no receiver. With fewer bytes, the faked TX
  interrupt sends them all, and the lost TXEIE does not matter.
* `BrrRoundsDivider` enumerates the eleven standard baud rates against the
  ten bus clocks of the STM32F1/F2 boards.
* `HseTimeout = 2` polls. The crystal starts after 0 or 1 polls, so it
  starts within the timeout on both paths of the loop. A start-up of 2 polls
  or more is the timeout case. It makes `UsartClockAsConfigured` fail at
  `stm32_lowsetup`: SYSCLK stays on the 8 MHz HSI, while BRR assumes 72 MHz.
  The source says as much ("we are hosed"), and the case is listed as a
  hazard.

## Fairness

**KRpc.** Each caller has weak fairness on `Bind`, `Send` and
`RecvTimeout`: the task is scheduled, and SO_RCVTIMEO makes
`psock_recvfrom` return within a second when nothing arrives. The server and
the network get no fairness, because a call must return even if no answer
ever comes.

* **I2C.**
  * `WF` on `Isr`: an enabled interrupt is taken.
  * `WF` on the peripheral's progress steps. Faults have no fairness.
  * `WF` per thread on its continuation steps: the scheduler runs a ready
    thread.
  * `WF` on a deadline once the bus is stuck, because the timeouts are
    finite.
  * A polling thread never blocks. `Poll` is in its continuation group,
    and `PollExpires` has its own `WF`: the tick limit is finite, so the
    loop ends once `TicksRunOut` allows it.
  * Signals are not fair.
* **Serial.**
  * `WF` on each port's `Isr` and `ShiftDone`: the NVIC takes an attached
    interrupt, and the USART shifts a byte out.
  * `WF` per task on the steps that finish a call it is inside.
  * `WF` on the boot steps. The code does not wait for anything else there.
  * `WF` on `PllLock` and `SwsFollow`: the PLL locks, and the clock switch
    completes.
  * `up_putc` is bounded (`MaxPutc`). Unbounded printing would starve the
    buffered output, and the code makes no promise about that.

## Not modelled

* **Serial.**
  * `up_ioctl`: a `memcpy` for TIOCSERGSTRUCT, plus a TIOCCBRK branch that
    does not compile.
  * The `!USE_SERIALDRIVER` `up_putc`.
  * Word length, parity and stop bits.
* **NFS.** `krpc_portmap` (a wrapper that passes `retries = -1`) and the XDR
  string and address codecs, which convert data through pointers that are
  never set.
* **RCC.**
  * Starting from a boot loader that left the PLL running. `rcc_reset` clears
    SW and then PLLON without waiting for SWS, which matters only in that
    case. The model starts from power-on reset.
  * ADCPRE and MCO.
  * `stm32_clockconfig` itself, which is not in this source.
* **I2C.**
  * `stm32_i2c_transfer`. Its message lists are represented by the three
    shapes of `_write`, `_read` and `_writeread`.
  * A second bus in the FSMC build. `stm32_i2c_disablefsmc` tests
    `priv->base` only under `CONFIG_STM32_I2C2`, and the model has I2C1
    alone.
  * 10-bit addresses and zero-length messages.
  * The length of a wait. The deadline recomputation after EINTR and the
    `tv_nsec` boundary at 489 need a clock.
* **Other files.** `up_initialize` (MIPS), the syslog
  stream, `sched_setupidlefiles`, the xtrs serial driver and the
  configuration headers are I/O or registration glue for other
  architectures. None of them has state that interacts with the modelled
  drivers.

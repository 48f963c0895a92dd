------------------------------- MODULE I2CDriver ------------------------------
(***************************************************************************)
(* The transfer path of the STM32 I2C driver                             *)
(* (arch/arm/src/stm32/stm32_i2c.c, no FSMC conflict), interrupt-driven   *)
(* or, in the CONFIG_I2C_POLLED build, polled: the API entry points       *)
(* stm32_i2c_write/read/writeread, the orchestrator stm32_i2c_process,    *)
(* the handshake stm32_i2c_sem_waitdone, the bus lock sem_excl and the    *)
(* handler stm32_i2c_isr, running against the peripheral of I2CHw.       *)
(*                                                                         *)
(* A thread's process() runs as atomic steps split where the code lets    *)
(* the interrupt handler or another thread in: taking sem_excl, the setup *)
(* up to the first sleep in sem_timedwait, and each wake-up of that wait. *)
(* The handler runs atomically.  In the polled build no interrupt is      *)
(* attached: the waiting thread calls the handler itself, one call per    *)
(* step.  Buffers are abstracted to slots <<call, msg, off>>; the         *)
(* handler's pointers are kept as such slots, so a pointer into a call    *)
(* that has returned is visible to the model.                             *)
(***************************************************************************)
EXTENDS I2CHw, Integers, Sequences, FiniteSets

CONSTANTS
  Threads,      \* threads calling the driver on one bus
  NoThread,     \* no thread holds sem_excl
  Requests,     \* message lists the threads pass (built with the API operators)
  MaxCalls,     \* calls made in all
  MaxTimeouts,  \* sem_timedwait deadlines (and waitstop deadlines) that expire
  MaxSignals,   \* signals that interrupt sem_timedwait with EINTR
  PolledBuilds, \* the values of CONFIG_I2C_POLLED checked
  FsmcBuilds    \* the values of I2C1_FSMC_CONFLICT checked

ASSUME /\ PolledBuilds \subseteq BOOLEAN /\ PolledBuilds # {}
       /\ FsmcBuilds \subseteq BOOLEAN /\ FsmcBuilds # {}

VARIABLES
  build,        \* the configuration (fixed for a behaviour)
  fsmcen,       \* FSMCEN of RCC AHBENR
  ahbenr,       \* per thread: the AHBENR value its process() saved
  pc,           \* per thread: idle, lock, waitstop, blocked, polling, woken,
                \* endstop
  callOf,       \* per thread: the call it is making
  ret,          \* per thread: what sem_timedwait returned (OK, ETIMEDOUT,
                \* EINTR)
  holder,       \* the thread holding sem_excl
  semIsr,       \* the count of priv->sem_isr
  priv,         \* msgv, msgc, ptr, dcnt, flags, status and intstate of priv
  msgs,         \* per call: its message array (the caller's stack)
  ncalls,       \* calls started
  res,          \* per call: what process() returned, "none" while running
  waitRes,      \* per call: what sem_waitdone returned
  doneBy,       \* per call: how the handler signalled it (none, stop, error)
  handed,       \* slots the handler wrote to DR
  stored,       \* slots the handler filled from DR
  stray,        \* the handler touched memory that is not the live call's
  stopReq,      \* a STOP was requested since the last transfer was set up
  timeouts, signals

vars == <<hw, faults, build, fsmcen, ahbenr, pc, callOf, ret, holder, semIsr,
          priv, msgs, ncalls, res, waitRes, doneBy, handed, stored, stray,
          stopReq, timeouts, signals>>

Calls == 1..MaxCalls

\* CONFIG_I2C_POLLED: no interrupt is attached, the waiting thread polls.
polled == build.polled
\* I2C1_FSMC_CONFLICT (an STM32F10xxx with FSMC and I2C1): the FSMC clock
\* is switched off around every transfer.
fsmc == build.fsmc
NULL == <<>>

(***************************************************************************)
(* Messages (struct i2c_msg_s): the address is left out, flags keep        *)
(* I2C_M_READ and I2C_M_NORESTART, the buffer is the call's own.           *)
(***************************************************************************)
Msg(rd, norestart, len) == [read |-> rd, norestart |-> norestart, len |-> len]

\* stm32_i2c_write and stm32_i2c_read: one message.
WriteMsgs(buflen) == <<Msg(FALSE, FALSE, buflen)>>
ReadMsgs(buflen)  == <<Msg(TRUE, FALSE, buflen)>>

\* stm32_i2c_writeread: a negative read length asks for no restart, and the
\* second message then carries I2C_M_NORESTART without I2C_M_READ.
WriteReadMsgs(wbuflen, buflen) ==
  <<Msg(FALSE, FALSE, wbuflen),
    Msg(buflen > 0, buflen <= 0, IF buflen > 0 THEN buflen ELSE -buflen)>>

(***************************************************************************)
(* What the handler reads through a msgv that is NULL or points past the  *)
(* caller's array: whatever lies there, so any of a few message shapes.   *)
(***************************************************************************)
GarbageMsgs ==
  {Msg(rd, nr, len) : rd \in BOOLEAN, nr \in BOOLEAN, len \in {0, 1}}

PrivInit ==
  [msgv |-> NULL, msgc |-> 0, ptr |-> NULL, dcnt |-> 0,
   flags |-> [read |-> FALSE, norestart |-> FALSE], status |-> {},
   intstate |-> "IDLE"]

(***************************************************************************)
(* The call whose transfer is in flight: its thread holds sem_excl and     *)
(* waits in sem_waitdone.                                                  *)
(***************************************************************************)
LiveCall ==
  IF holder # NoThread /\ pc[holder] \in {"blocked", "polling", "woken"}
  THEN callOf[holder] ELSE 0

\* Pointers that are not NULL and point into no call's memory (NULL + 1,
\* or a cursor loaded from garbage); every such address reads alike.
WildMsgv == <<0, 0>>
WildPtr  == <<0, 0, 0>>

ValidMsgv(mv) == mv # NULL /\ mv[1] # 0 /\ mv[2] <= Len(msgs[mv[1]])
MsgOf(mv, junk) == IF ValidMsgv(mv) THEN msgs[mv[1]][mv[2]] ELSE junk
LiveMsgv(mv) == ValidMsgv(mv) /\ mv[1] = LiveCall

\* priv->msgv++ and priv->msgv->buffer.
NextMsgv(mv) ==
  CASE ValidMsgv(mv) -> <<mv[1], mv[2] + 1>>
    [] mv = NULL     -> WildMsgv
    [] OTHER         -> mv
BufferOf(mv) == IF ValidMsgv(mv) THEN <<mv[1], mv[2], 0>> ELSE WildPtr

\* A slot of the live call's buffer of the given direction.
LiveSlot(p, rd) ==
  /\ p # NULL /\ p[1] # 0 /\ p[1] = LiveCall /\ p[2] <= Len(msgs[p[1]])
  /\ msgs[p[1]][p[2]].read = rd /\ p[3] < msgs[p[1]][p[2]].len

(***************************************************************************)
(* --priv->dcnt.  The code only ever tests dcnt >= 0, > 0, = 0 and <= 0,  *)
(* so every negative value behaves as -1 and is kept as -1.               *)
(***************************************************************************)
DecCount(d) == IF d > 0 THEN d - 1 ELSE -1

(***************************************************************************)
(* priv->msgc--, on a uint8_t: 0 wraps to 255.  Counts from MsgcMany up   *)
(* to 255 are kept as MsgcMany, and a decrement of MsgcMany may stay there *)
(* (keep) or reach MsgcMany - 1: every count the code goes through is      *)
(* covered.  MsgcMany exceeds the length of every request.                 *)
(***************************************************************************)
MsgcMany == 3

DecMsgc(m, keep) ==
  CASE m = 0               -> MsgcMany
    [] m = MsgcMany /\ keep -> MsgcMany
    [] OTHER               -> m - 1

\* priv->ptr++ (NULL + 1 is a wild pointer).
Advance(p) == IF p = NULL \/ p[1] = 0 THEN WildPtr ELSE <<p[1], p[2], p[3] + 1>>
SlotsOf(c, rd) ==
  UNION {{<<c, i, o>> : o \in 0..(msgs[c][i].len - 1)} :
         i \in {j \in 1..Len(msgs[c]) : msgs[c][j].read = rd}}

(***************************************************************************)
(* Register helpers of the driver.                                         *)
(***************************************************************************)
\* stm32_i2c_sendstart: clear ACK, set START.
SendStart(h) == [h EXCEPT !.cr1 = (@ \ {"ACK"}) \cup {"START"}]
\* stm32_i2c_sendstop: clear ACK, set STOP.
SendStop(h) == [h EXCEPT !.cr1 = (@ \ {"ACK"}) \cup {"STOP"}]
\* stm32_i2c_clrstart: clear START, STOP and PEC.
ClrStart(h) == [h EXCEPT !.cr1 = @ \ {"START", "STOP"}]
\* stm32_i2c_getstatus: SR1 | SR2 << 16; the SR2 read clears ADDR.
GetStatus(h) == StatusOf(h)

(***************************************************************************)
(* stm32_i2c_isr, as a sequence of steps over s = [p |-> priv, h |-> hw,  *)
(* hand, store: slots it transferred, bad: a stray access, post: it posted *)
(* sem_isr, done: how it signalled], all on the status snapshot st.        *)
(***************************************************************************)
\* Start bit sent: load the cursor from msgv, send the address, set ACK for
\* a read of more than one byte, advance msgv.
IsrStartBit(s) ==
  LET mv  == s.p.msgv
      m   == MsgOf(mv, s.junk)
      h1  == AfterAddrWrite(s.h, m.read)
  IN [s EXCEPT
        !.p = [@ EXCEPT !.ptr = BufferOf(mv),
                        !.dcnt = m.len,
                        !.flags = [read |-> m.read, norestart |-> m.norestart],
                        !.msgv = NextMsgv(mv),
                        !.msgc = DecMsgc(@, "SB" \in s.keep)],
        !.h = [h1 EXCEPT !.rxLen = m.len,
                         !.cr1 = IF m.len > 1 /\ m.read THEN @ \cup {"ACK"}
                                 ELSE @],
        !.bad = @ \/ ~LiveMsgv(mv)]

\* Mutation of IsrSendByte: the decrement tested with > instead of >=.
IsrSendByteOffByOne(s) ==
  LET d == DecCount(s.p.dcnt)
  IN IF d > 0
     THEN [s EXCEPT !.p = [@ EXCEPT !.dcnt = d, !.ptr = Advance(@)],
                    !.h = AfterDRWrite(@, IF s.p.ptr = NULL THEN WildPtr
                                                           ELSE s.p.ptr),
                    !.hand = @ \cup {s.p.ptr},
                    !.bad = @ \/ ~LiveSlot(s.p.ptr, FALSE)]
     ELSE [s EXCEPT !.p.dcnt = d]

\* Address sent or DR empty in a write: send the next byte if any is left.
IsrSendByte(s) ==
  LET d == DecCount(s.p.dcnt)
  IN IF d >= 0
     THEN [s EXCEPT !.p = [@ EXCEPT !.dcnt = d, !.ptr = Advance(@)],
                    !.h = AfterDRWrite(@, IF s.p.ptr = NULL THEN WildPtr
                                                           ELSE s.p.ptr),
                    !.hand = @ \cup {s.p.ptr},
                    !.bad = @ \/ ~LiveSlot(s.p.ptr, FALSE)]
     ELSE [s EXCEPT !.p.dcnt = d]

\* The handler sets ITBUFEN; the polled build leaves it out.
SetItBuf(h) == IF polled THEN h ELSE [h EXCEPT !.cr2 = @ \cup {"ITBUFEN"}]

\* Address sent in a read: enable the buffer interrupts.
IsrReadAddr(s) == [s EXCEPT !.h = SetItBuf(@)]

\* DR not empty: store the byte if one is expected; clear ACK when one
\* byte is left to receive.
IsrReceiveByte(s) ==
  LET d == DecCount(s.p.dcnt)
      h1 == AfterDRRead(s.h)
  IN IF d >= 0
     THEN [s EXCEPT !.p = [@ EXCEPT !.dcnt = d, !.ptr = Advance(@)],
                    !.h = IF d = 1 THEN [h1 EXCEPT !.cr1 = @ \ {"ACK"}] ELSE h1,
                    !.store = @ \cup {s.p.ptr},
                    !.bad = @ \/ ~LiveSlot(s.p.ptr, TRUE)]
     ELSE [s EXCEPT !.p.dcnt = d]

\* The first branch chain of the handler.
IsrEvent(s, st) ==
  CASE "SB" \in st -> IsrStartBit(s)
    [] ~s.p.flags.read /\ {"ADDR", "TXE"} \cap st # {} -> IsrSendByte(s)
    [] s.p.flags.read /\ "ADDR" \in st -> IsrReadAddr(s)
    [] "RXNE" \in st -> IsrReceiveByte(s)
    [] OTHER -> s

\* Buffer interrupts on while bytes remain, off when none remain (not in
\* the polled build).
IsrBufferIrq(s) ==
  CASE polled -> s
    [] s.p.dcnt > 0 -> [s EXCEPT !.h.cr2 = @ \cup {"ITBUFEN"}]
    [] s.p.dcnt = 0 -> [s EXCEPT !.h.cr2 = @ \ {"ITBUFEN"}]
    [] OTHER -> s

\* Mutation of IsrSignal: post whatever intstate is.
IsrSignalUnguarded(s, how) ==
  [s EXCEPT !.post = TRUE, !.p.intstate = "DONE", !.done = how]

\* Wake the waiting thread: sem_post and intstate DONE, if it is WAITING;
\* the polled build only sets intstate DONE, whatever it was.
IsrSignal(s, how) ==
  CASE polled -> [s EXCEPT !.p.intstate = "DONE", !.done = how]
    [] s.p.intstate = "WAITING" ->
         [s EXCEPT !.post = TRUE, !.p.intstate = "DONE", !.done = how]
    [] OTHER -> s

\* Mutation of BtfAck: the DR read is left out.
BtfAckSkipped(h) == h

\* The DR read that acknowledges BTF ("ACK ISR").
BtfAck(h) == AfterDRRead(h)

\* Last byte transferred: splice a NORESTART message, restart, or stop and
\* signal completion.
IsrByteTransferFinished(s, st) ==
  LET h1 == BtfAck(s.h)
      mv == s.p.msgv
      m  == MsgOf(mv, s.junk)
  IN CASE s.p.msgc > 0 /\ m.norestart ->
            [s EXCEPT !.h = SetItBuf(h1),
                      !.p = [@ EXCEPT !.ptr = BufferOf(mv),
                                      !.dcnt = m.len,
                                      !.flags = [read |-> m.read,
                                                 norestart |-> m.norestart],
                                      !.msgv = NextMsgv(mv),
                                      !.msgc = DecMsgc(@, "BTF" \in s.keep)],
                      !.bad = @ \/ ~LiveMsgv(mv)]
       [] s.p.msgc > 0 -> [s EXCEPT !.h = SendStart(h1)]
       [] mv # NULL ->
            IsrSignal([s EXCEPT !.h = SendStop(h1), !.p.msgv = NULL,
                                !.stop = TRUE],
                      IF st \cap ErrorFlags = {} THEN "stop" ELSE "error")
       [] OTHER -> [s EXCEPT !.h = h1]

\* An error flag: clear SR1 and signal the waiting thread.
IsrError(s) == IsrSignal([s EXCEPT !.h = AfterSR1Clear(@)], "error")

IsrBody(st, junk, keep) ==
  LET s0 == [p |-> priv, h |-> AfterStatusRead(hw), hand |-> {}, store |-> {},
             bad |-> FALSE, post |-> FALSE, done |-> "none", stop |-> FALSE,
             junk |-> junk, keep |-> keep]
      s1 == IsrBufferIrq(IsrEvent(s0, st))
      s2 == IF s1.p.dcnt <= 0 /\ "BTF" \in st
            THEN IsrByteTransferFinished(s1, st) ELSE s1
      s3 == IF st \cap ErrorFlags # {} THEN IsrError(s2) ELSE s2
  IN [s3 EXCEPT !.p.status = st]

\* A run of the handler reads at most two messages, msgv and msgv + 1, and
\* decrements msgc at most twice; it chooses among garbage messages and
\* large counts only when it can meet them.
JunkChoices ==
  IF ValidMsgv(priv.msgv) /\ ValidMsgv(NextMsgv(priv.msgv))
  THEN {Msg(FALSE, FALSE, 0)} ELSE GarbageMsgs
KeepChoices ==
  IF priv.msgc \in {0, MsgcMany} THEN SUBSET {"SB", "BTF"} ELSE {{}}

\* What a run s of the handler leaves behind.
HandlerRan(s) ==
  /\ hw' = s.h
  /\ priv' = s.p
  /\ handed' = handed \cup s.hand
  /\ stored' = stored \cup s.store
  /\ stray' = (stray \/ s.bad)
  /\ stopReq' = (stopReq \/ s.stop)
  /\ doneBy' = IF s.done # "none" /\ LiveCall # 0
               THEN [doneBy EXCEPT ![LiveCall] = s.done] ELSE doneBy

(***************************************************************************)
(* The interrupt: the handler runs when the peripheral raises an enabled  *)
(* event or error interrupt.  Its sem_post wakes the thread blocked in    *)
(* sem_timedwait, or raises the count when none is blocked.                *)
(***************************************************************************)
Isr ==
  /\ IrqPending(hw)
  /\ \E junk \in JunkChoices, keep \in KeepChoices :
     LET s == IsrBody(GetStatus(hw), junk, keep)
         waiter == {t \in Threads : pc[t] = "blocked"}
     IN /\ HandlerRan(s)
        /\ IF s.post /\ waiter # {}
           THEN /\ pc' = [t \in Threads |-> IF t \in waiter THEN "woken" ELSE pc[t]]
                /\ ret' = [t \in Threads |-> IF t \in waiter THEN "OK" ELSE ret[t]]
                /\ UNCHANGED semIsr
           ELSE /\ semIsr' = IF s.post THEN semIsr + 1 ELSE semIsr
                /\ UNCHANGED <<pc, ret>>
  /\ UNCHANGED <<faults, build, fsmcen, ahbenr, callOf, holder, msgs, ncalls,
                 res, waitRes, timeouts,
                 signals>>

(***************************************************************************)
(* A thread calls stm32_i2c_write, _read or _writeread: the API builds the *)
(* message array on its stack and calls stm32_i2c_sem_wait.                *)
(***************************************************************************)
(***************************************************************************)
(* Threads run only when no I2C interrupt is pending: the NVIC runs (and  *)
(* tail-chains) a pending handler before it returns to any thread.        *)
(***************************************************************************)
ThreadRuns == ~IrqPending(hw)

Call(t) ==
  /\ ThreadRuns
  /\ pc[t] = "idle" /\ ncalls < MaxCalls
  /\ \E r \in Requests :
       /\ msgs' = [msgs EXCEPT ![ncalls + 1] = r]
       /\ callOf' = [callOf EXCEPT ![t] = ncalls + 1]
       /\ ncalls' = ncalls + 1
       /\ pc' = [pc EXCEPT ![t] = "lock"]
  /\ UNCHANGED <<hw, faults, build, fsmcen, ahbenr, ret, holder, semIsr, priv,
                 res, waitRes, doneBy,
                 handed, stored, stray, stopReq, timeouts, signals>>

\* stm32_i2c_sem_wait: sem_wait on sem_excl, retried on EINTR.
Lock(t) ==
  /\ ThreadRuns
  /\ pc[t] = "lock" /\ holder = NoThread
  /\ holder' = t
  /\ pc' = [pc EXCEPT ![t] = "waitstop"]
  /\ UNCHANGED <<hw, faults, build, fsmcen, ahbenr, callOf, ret, semIsr, priv,
                 msgs, ncalls, res,
                 waitRes, doneBy, handed, stored, stray, stopReq, timeouts,
                 signals>>

(***************************************************************************)
(* stm32_i2c_process up to the sleep in stm32_i2c_sem_waitdone: clear the *)
(* SR1 error flags, clrstart, install msgv/msgc, setclock (its PE toggle), *)
(* status = 0, sendstart; then with interrupts off enable ITERREN and      *)
(* ITEVFEN, intstate = WAITING, and the first sem_timedwait.              *)
(***************************************************************************)
\* sem_timedwait on sem_isr: a count left by an earlier sem_post is taken
\* and returns OK at once; otherwise the thread sleeps.
TimedWait(t) ==
  IF semIsr > 0
  THEN /\ semIsr' = semIsr - 1
       /\ pc' = [pc EXCEPT ![t] = "woken"]
       /\ ret' = [ret EXCEPT ![t] = "OK"]
  ELSE /\ pc' = [pc EXCEPT ![t] = "blocked"]
       /\ UNCHANGED <<semIsr, ret>>

\* The wait begins: the interrupt build enables ITERREN and ITEVFEN and
\* sleeps in sem_timedwait, the polled build starts calling the handler.
WaitBegins(t, h) ==
  \/ /\ ~polled
     /\ hw' = [h EXCEPT !.cr2 = @ \cup {"ITERREN", "ITEVFEN"}]
     /\ TimedWait(t)
  \/ /\ polled
     /\ hw' = h
     /\ pc' = [pc EXCEPT ![t] = "polling"]
     /\ UNCHANGED <<semIsr, ret>>

\* stm32_i2c_disablefsmc: FSMCEN is cleared and the old AHBENR returned;
\* without the conflict it is the constant 0.
DisableFsmc(t) ==
  /\ fsmcen' = (fsmcen /\ ~fsmc)
  /\ ahbenr' = [ahbenr EXCEPT ![t] = fsmc /\ fsmcen]

\* stm32_i2c_enablefsmc: FSMCEN is set again if the saved value had it.
EnableFsmc(t) == fsmcen' = (fsmcen \/ ahbenr[t])

Setup(t) ==
  LET c  == callOf[t]
  IN /\ DisableFsmc(t)
     /\ WaitBegins(t, SendStart(AfterPEToggle(ClrStart(AfterSR1Clear(hw)))))
     /\ priv' = [priv EXCEPT !.msgv = <<c, 1>>, !.msgc = Len(msgs[c]),
                             !.status = {}, !.intstate = "WAITING"]
     /\ stopReq' = FALSE

\* stm32_i2c_sem_waitstop returns: STOP is clear (the FSMC-conflict build
\* does not wait here) ...
ProcessStart(t) ==
  /\ ThreadRuns
  /\ pc[t] = "waitstop" /\ (fsmc \/ "STOP" \notin hw.cr1)
  /\ Setup(t)
  /\ UNCHANGED <<faults, build, callOf, holder, msgs, ncalls, res, waitRes,
                 doneBy, handed, stored, stray, timeouts, signals>>

(***************************************************************************)
(* Deadlines.  A deadline may pass while the bus is still moving, as often *)
(* as MaxTimeouts allows; once neither the handler nor the peripheral can *)
(* move, time alone passes and the deadline certainly expires.             *)
(***************************************************************************)
BusStuck == ~IrqPending(hw) /\ ~HwCanProgress

DeadlinePasses ==
  \/ timeouts < MaxTimeouts /\ timeouts' = timeouts + 1
  \/ BusStuck /\ UNCHANGED timeouts

\* ... or its CONFIG_STM32_I2CTIMEOTICKS deadline passes with STOP pending.
WaitStopTimeout(t) ==
  /\ ThreadRuns
  /\ pc[t] = "waitstop" /\ ~fsmc /\ "STOP" \in hw.cr1
  /\ DeadlinePasses
  /\ Setup(t)
  /\ UNCHANGED <<faults, build, callOf, holder, msgs, ncalls, res, waitRes,
                 doneBy, handed, stored, stray, signals>>

\* The sem_timedwait deadline passes (ETIMEDOUT) ...
Timeout(t) ==
  /\ pc[t] = "blocked"
  /\ DeadlinePasses
  /\ pc' = [pc EXCEPT ![t] = "woken"]
  /\ ret' = [ret EXCEPT ![t] = "ETIMEDOUT"]
  /\ UNCHANGED <<hw, faults, build, fsmcen, ahbenr, callOf, holder, semIsr,
                 priv, msgs, ncalls, res,
                 waitRes, doneBy, handed, stored, stray, stopReq, signals>>

\* ... or a signal interrupts it (EINTR).
Signal(t) ==
  /\ pc[t] = "blocked" /\ signals < MaxSignals
  /\ signals' = signals + 1
  /\ pc' = [pc EXCEPT ![t] = "woken"]
  /\ ret' = [ret EXCEPT ![t] = "EINTR"]
  /\ UNCHANGED <<hw, faults, build, fsmcen, ahbenr, callOf, holder, semIsr,
                 priv, msgs, ncalls, res,
                 waitRes, doneBy, handed, stored, stray, stopReq, timeouts>>

(***************************************************************************)
(* The polled stm32_i2c_sem_waitdone: the thread calls stm32_i2c_isr and  *)
(* loops while intstate is not DONE and fewer than                         *)
(* CONFIG_STM32_I2CTIMEOTICKS have elapsed since the loop began, then     *)
(* returns OK if DONE, else ETIMEDOUT.  The model has no clock; when the  *)
(* limit is reached is the choice of TicksRunOut.                         *)
(***************************************************************************)
\* The results one call of the handler can have in the current state.
PassResults ==
  {IsrBody(GetStatus(hw), junk, keep) :
     junk \in JunkChoices, keep \in KeepChoices}

\* The handler, called by the thread, took the state to s.
PollPass(s) ==
  /\ HandlerRan(s)
  /\ UNCHANGED <<faults, build, fsmcen, ahbenr, callOf, holder, semIsr, msgs,
                 ncalls, res, waitRes, signals>>

\* Within the limit: DONE returns OK, anything else polls again.
WithinTicks(t, s) ==
  /\ \/ /\ s.p.intstate = "DONE"
        /\ pc' = [pc EXCEPT ![t] = "woken"]
        /\ ret' = [ret EXCEPT ![t] = "OK"]
     \/ /\ s.p.intstate # "DONE"
        /\ UNCHANGED <<pc, ret>>
  /\ UNCHANGED timeouts

\* The limit is reached: as often as MaxTimeouts allows while the bus
\* moves; certainly once a pass changes nothing and the peripheral cannot
\* move; and in a transfer through a wrapped msgc, whose up to 255
\* restarts outlast any tick limit.
TicksRunOut(s) ==
  \/ timeouts < MaxTimeouts /\ timeouts' = timeouts + 1
  \/ /\ \/ s.h = hw /\ s.p = priv /\ ~HwCanProgress
        \/ priv.msgc = MsgcMany
     /\ UNCHANGED timeouts

\* Past the limit without DONE: ETIMEDOUT.
Expired(t, s) ==
  /\ s.p.intstate # "DONE"
  /\ TicksRunOut(s)
  /\ pc' = [pc EXCEPT ![t] = "woken"]
  /\ ret' = [ret EXCEPT ![t] = "ETIMEDOUT"]

Poll(t) ==
  /\ pc[t] = "polling"
  /\ \E s \in PassResults : WithinTicks(t, s) /\ PollPass(s)

PollExpires(t) ==
  /\ pc[t] = "polling"
  /\ \E s \in PassResults : Expired(t, s) /\ PollPass(s)

\* Mutation of KeepWaiting: the loop retries on EINTR only, without the
\* intstate test.
KeepWaitingOnSignal(t) == ret[t] = "EINTR"

\* The wait loop continues: OK or EINTR and intstate is not DONE.
KeepWaiting(t) == ret[t] \in {"OK", "EINTR"} /\ priv.intstate # "DONE"

ReWait(t) ==
  /\ ThreadRuns
  /\ pc[t] = "woken" /\ KeepWaiting(t)
  /\ TimedWait(t)
  /\ UNCHANGED <<hw, faults, build, fsmcen, ahbenr, callOf, holder, priv,
                 msgs, ncalls, res,
                 waitRes, doneBy, handed, stored, stray, stopReq, timeouts,
                 signals>>

(***************************************************************************)
(* The error code stm32_i2c_process derives from a status: the first      *)
(* error flag in the code's order, else EBUSY if BUSY is set, else the    *)
(* errval it already had.                                                  *)
(***************************************************************************)
Classify(status, errval) ==
  CASE "BERR" \in status     -> "EIO"
    [] "ARLO" \in status     -> "EAGAIN"
    [] "AF" \in status       -> "ENXIO"
    [] "OVR" \in status      -> "EIO"
    [] "PECERR" \in status   -> "EPROTO"
    [] "TIMEOUT" \in status  -> "ETIME"
    [] "SMBALERT" \in status -> "EINTR"
    [] "BUSY" \in status     -> "EBUSY"
    [] OTHER                 -> errval

(***************************************************************************)
(* The wait ends: sem_waitdone sets intstate IDLE and disables the I2C    *)
(* interrupts; process, on a negative return, reads the live status and   *)
(* calls clrstart with errval ETIMEDOUT, else takes the handler's status  *)
(* without BUSY; it classifies, posts sem_excl and returns.                *)
(***************************************************************************)
\* Mutation of DoneStatus: the SR2 half is not masked off.
DoneStatusUnmasked(st) == st

\* The handler's status after a completed wait: status & 0xffff, SR1 only.
DoneStatus(st) == st \ {"BUSY"}

Finish(t) ==
  /\ ThreadRuns
  /\ pc[t] = "woken" /\ ~KeepWaiting(t)
  /\ LET c      == callOf[t]
         failed == ret[t] # "OK"
         h1     == IF polled THEN hw ELSE [hw EXCEPT !.cr2 = {}]
         status == IF failed THEN GetStatus(h1) ELSE DoneStatus(priv.status)
         errval == Classify(status, IF failed THEN "ETIMEDOUT" ELSE "OK")
     IN /\ hw' = IF failed THEN ClrStart(AfterStatusRead(h1)) ELSE h1
        /\ priv' = [priv EXCEPT !.intstate = "IDLE"]
        /\ res' = [res EXCEPT ![c] = errval]
        /\ waitRes' = [waitRes EXCEPT ![c] = IF failed THEN "ERROR" ELSE "OK"]
  /\ \/ /\ ~fsmc
        /\ holder' = NoThread
        /\ pc' = [pc EXCEPT ![t] = "idle"]
     \/ /\ fsmc
        /\ pc' = [pc EXCEPT ![t] = "endstop"]
        /\ UNCHANGED holder
  /\ UNCHANGED <<faults, build, fsmcen, ahbenr, callOf, ret, semIsr, msgs,
                 ncalls, doneBy, handed,
                 stored, stray, stopReq, timeouts, signals>>

(***************************************************************************)
(* The end of process() in the FSMC-conflict build: sem_waitstop, then    *)
(* stm32_i2c_enablefsmc with the saved AHBENR, then sem_excl is posted.   *)
(* The wait ends when STOP is clear or when its deadline passes.          *)
(***************************************************************************)
\* Mutation of ProcessEnd: the FSMC is re-enabled without waiting for STOP.
ProcessEndNoWait(t) ==
  /\ ThreadRuns
  /\ pc[t] = "endstop"
  /\ UNCHANGED timeouts
  /\ EnableFsmc(t)
  /\ holder' = NoThread
  /\ pc' = [pc EXCEPT ![t] = "idle"]
  /\ UNCHANGED <<hw, faults, build, ahbenr, callOf, ret, semIsr, priv, msgs,
                 ncalls, res, waitRes, doneBy, handed, stored, stray, stopReq,
                 signals>>

ProcessEnd(t) ==
  /\ ThreadRuns
  /\ pc[t] = "endstop"
  /\ \/ "STOP" \notin hw.cr1 /\ UNCHANGED timeouts
     \/ "STOP" \in hw.cr1 /\ DeadlinePasses
  /\ EnableFsmc(t)
  /\ holder' = NoThread
  /\ pc' = [pc EXCEPT ![t] = "idle"]
  /\ UNCHANGED <<hw, faults, build, ahbenr, callOf, ret, semIsr, priv, msgs,
                 ncalls, res, waitRes, doneBy, handed, stored, stray, stopReq,
                 signals>>

-----------------------------------------------------------------------------
Init ==
  /\ hw = HwInit /\ faults = 0
  /\ build \in [polled : PolledBuilds, fsmc : FsmcBuilds]
  /\ fsmcen = TRUE        \* rcc_enableperipherals, CONFIG_STM32_FSMC
  /\ ahbenr = [t \in Threads |-> FALSE]
  /\ pc = [t \in Threads |-> "idle"]
  /\ callOf = [t \in Threads |-> 0]
  /\ ret = [t \in Threads |-> "OK"]
  /\ holder = NoThread
  /\ semIsr = 0
  /\ priv = PrivInit
  /\ msgs = [c \in Calls |-> <<>>]
  /\ ncalls = 0
  /\ res = [c \in Calls |-> "none"]
  /\ waitRes = [c \in Calls |-> "none"]
  /\ doneBy = [c \in Calls |-> "none"]
  /\ handed = {} /\ stored = {} /\ stray = FALSE
  /\ stopReq = TRUE
  /\ timeouts = 0 /\ signals = 0

ThreadStep(t) ==
  \/ Call(t) \/ Lock(t) \/ ProcessStart(t) \/ WaitStopTimeout(t)
  \/ Poll(t) \/ PollExpires(t) \/ Timeout(t) \/ Signal(t) \/ ReWait(t)
  \/ Finish(t) \/ ProcessEnd(t)

\* Every call has returned: the threads stop calling.
Terminating ==
  /\ ncalls = MaxCalls /\ \A t \in Threads : pc[t] = "idle"
  /\ UNCHANGED vars

HwStep == HwNext /\ UNCHANGED <<build, fsmcen, ahbenr, pc, callOf, ret,
                                holder, semIsr, priv, msgs,
                                ncalls, res, waitRes, doneBy, handed, stored,
                                stray, stopReq, timeouts, signals>>

Next == (\E t \in Threads : ThreadStep(t)) \/ Isr \/ HwStep \/ Terminating

(***************************************************************************)
(* Fairness: the interrupt controller runs a pending handler, the         *)
(* peripheral and a responsive slave keep the bus moving, and the         *)
(* scheduler runs a thread that can proceed (a polling thread never      *)
(* blocks, so it keeps calling the handler), and a deadline expires once  *)
(* it is the only thing left to happen, as does the tick limit of a      *)
(* polling thread once TicksRunOut lets it.  Faults and signals are never *)
(* forced.                                                                *)
(***************************************************************************)
Fairness ==
  /\ WF_vars(Isr)
  /\ WF_vars(HwStep /\ HwStart)
  /\ WF_vars(HwStep /\ HwStop)
  /\ WF_vars(HwStep /\ HwAddrAck)
  /\ WF_vars(HwStep /\ HwTxByte)
  /\ WF_vars(HwStep /\ HwRxByte)
  /\ \A t \in Threads :
       /\ WF_vars(Lock(t) \/ ProcessStart(t) \/ Poll(t) \/ ReWait(t)
                   \/ Finish(t) \/ ProcessEnd(t))
       /\ WF_vars(BusStuck /\ (Timeout(t) \/ WaitStopTimeout(t)))
       /\ WF_vars(PollExpires(t))

Spec == Init /\ [][Next]_vars /\ Fairness

-----------------------------------------------------------------------------
TypeOK ==
  /\ HwTypeOK
  /\ build \in [polled : BOOLEAN, fsmc : BOOLEAN] /\ fsmcen \in BOOLEAN
  /\ ahbenr \in [Threads -> BOOLEAN]
  /\ pc \in [Threads -> {"idle", "lock", "waitstop", "blocked", "polling",
                         "woken", "endstop"}]
  /\ callOf \in [Threads -> 0..MaxCalls]
  /\ ret \in [Threads -> {"OK", "ETIMEDOUT", "EINTR"}]
  /\ holder \in Threads \cup {NoThread}
  /\ semIsr \in 0..1
  /\ priv.intstate \in {"IDLE", "WAITING", "DONE"}
  /\ priv.dcnt \in Int /\ priv.msgc \in 0..MsgcMany
  /\ ncalls \in 0..MaxCalls
  /\ doneBy \in [Calls -> {"none", "stop", "error"}]
  /\ stray \in BOOLEAN /\ stopReq \in BOOLEAN

(***************************************************************************)
(* The handler only ever reads or writes the buffers and the message      *)
(* array of the call in flight, within bounds (stm32_i2c_isr dereferences  *)
(* priv->msgv and priv->ptr, which process() does not reset).             *)
(***************************************************************************)
NoStray == ~stray

(***************************************************************************)
(* A call returns OK exactly when the handler completed its transfer with *)
(* STOP and no error (the DONE handshake of stm32_i2c_isr and the wait    *)
(* loop of stm32_i2c_sem_waitdone agree).                                  *)
(***************************************************************************)
ResultMatchesTransfer ==
  \A c \in Calls :
    res[c] # "none" => (res[c] = "OK" <=> doneBy[c] = "stop")

(***************************************************************************)
(* A call that returns OK had every byte of its write messages handed to  *)
(* DR and every slot of its read messages filled by the handler.           *)
(***************************************************************************)
OkMeansHandedOff ==
  \A c \in Calls :
    res[c] = "OK" => SlotsOf(c, FALSE) \subseteq handed
                     /\ SlotsOf(c, TRUE) \subseteq stored

(***************************************************************************)
(* sem_waitdone returns OK for a call only after the handler signalled    *)
(* that call DONE, whatever counts stale posts left in sem_isr and however *)
(* signals and deadlines interleave with the handler.                     *)
(***************************************************************************)
WaitOkMeansDone ==
  \A c \in Calls : waitRes[c] = "OK" => doneBy[c] # "none"

(***************************************************************************)
(* A call whose wait timed out without the handler ever signalling it     *)
(* returns ETIMEDOUT (stm32_i2c_process after sem_waitdone fails).         *)
(***************************************************************************)
TimeoutReportedAsTimeout ==
  \A c \in Calls :
    waitRes[c] = "ERROR" /\ doneBy[c] = "none" => res[c] = "ETIMEDOUT"

(***************************************************************************)
(* In a read, the first byte the master NACKs is the last byte the        *)
(* message asks for (the ACK handling of the SB and RXNE branches).        *)
(***************************************************************************)
ReadNackLast ==
  hw.rd /\ hw.rxCount >= hw.rxLen => hw.nackAt = hw.rxLen

(***************************************************************************)
(* When sem_excl is free the previous transaction has requested STOP, so  *)
(* the next one starts from a released bus.                                *)
(***************************************************************************)
BusReleasedBetweenCalls == holder = NoThread => stopReq

(***************************************************************************)
(* No byte of a call that returned OK is NACKed by the slave, before or   *)
(* after the return.                                                       *)
(***************************************************************************)
OkNeverNacked ==
  \A c \in Calls : res[c] = "OK" => \A b \in hw.nacked : b[1] # c

(***************************************************************************)
(* In the I2C1_FSMC_CONFLICT build the FSMC is clocked only while I2C1    *)
(* leaves the bus alone: from the START request of a transfer until its   *)
(* STOP has gone out, FSMCEN is clear (process() disables it before the   *)
(* transfer and re-enables it after sem_waitstop, whoever runs between).  *)
(***************************************************************************)
FsmcOffWhileBusy ==
  fsmc /\ fsmcen => hw.phase = "idle" /\ hw.cr1 \cap {"START", "STOP"} = {}

(***************************************************************************)
(* Every call returns (the handler or a deadline always ends the wait).   *)
(***************************************************************************)
CallsReturn == \A t \in Threads : pc[t] = "lock" ~> pc[t] = "idle"

====

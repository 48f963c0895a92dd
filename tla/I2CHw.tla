-------------------------------- MODULE I2CHw --------------------------------
(***************************************************************************)
(* The environment of the STM32 I2C driver: one I2C peripheral in master  *)
(* mode and the slave on its bus, as the driver sees them through CR1,     *)
(* CR2, SR1/SR2 and DR.  The behaviour follows the STM32F1 reference       *)
(* manual (RM0008, I2C chapter), not the driver source: a byte moves only *)
(* after ADDR has been cleared, a START or STOP request takes effect after *)
(* the byte in progress, a received byte is acknowledged according to the *)
(* ACK bit at the moment it completes, and a receiver whose DR and shift   *)
(* register are both full stretches the clock (BTF) until DR is read.      *)
(*                                                                         *)
(* Data is abstracted: a transmitted byte is the token <<call, msg, off>>  *)
(* of the buffer slot it was taken from; received bytes are only counted. *)
(***************************************************************************)
EXTENDS Naturals

CONSTANTS
  MaxFaults,    \* bus faults (NACK, bus error, lost arbitration) the slave side may inject
  MaxRx         \* bytes a receiver may clock in during one read phase

VARIABLES
  hw,           \* the peripheral registers and the bus, a record (see HwType)
  faults        \* bus faults injected so far

NoByte == <<>>                        \* an empty DR or shift register
ErrorFlags  == {"BERR", "ARLO", "AF", "OVR", "PECERR", "TIMEOUT", "SMBALERT"}
EventFlags  == {"SB", "ADDR", "BTF"}
Phases == {"idle", "start", "addr", "tx", "rx", "held"}

HwInit ==
  [cr1 |-> {}, cr2 |-> {}, sr |-> {}, phase |-> "idle", rd |-> FALSE,
   txDR |-> NoByte, txShift |-> NoByte, rxDR |-> FALSE, rxShift |-> FALSE,
   rxCount |-> 0, nackAt |-> 0, rxLen |-> 0, acked |-> {}, nacked |-> {}]

\* SR1.TXE and SR1.RXNE are derived from the data path; SR2.BUSY from the bus.
TXE(h)  == h.phase = "tx" /\ h.txDR = NoByte
RXNE(h) == h.rxDR

\* The combined SR1 | SR2 << 16 value, as a set of flag names.
StatusOf(h) ==
  h.sr \cup (IF TXE(h) THEN {"TXE"} ELSE {})
       \cup (IF RXNE(h) THEN {"RXNE"} ELSE {})
       \cup (IF h.phase # "idle" THEN {"BUSY"} ELSE {})

\* The event and error interrupt lines of the peripheral.
IrqPending(h) ==
  \/ /\ "ITEVFEN" \in h.cr2
     /\ \/ h.sr \cap EventFlags # {}
        \/ "ITBUFEN" \in h.cr2 /\ (TXE(h) \/ RXNE(h))
  \/ "ITERREN" \in h.cr2 /\ h.sr \cap ErrorFlags # {}

(***************************************************************************)
(* How the peripheral answers the driver's register accesses.             *)
(***************************************************************************)
\* Reading SR1 then SR2 clears ADDR.
AfterStatusRead(h) == [h EXCEPT !.sr = @ \ {"ADDR"}]

\* A DR write after SB sends the address byte, whose R/W bit is rd.
AfterAddrWrite(h, rd) ==
  [h EXCEPT !.sr = @ \ {"SB", "BTF"}, !.phase = "addr", !.rd = rd,
            !.txDR = NoByte, !.rxCount = 0, !.nackAt = 0]

\* A data write in the transmitter loads the shift register at once when it
\* is empty, otherwise DR; outside the transmitter it has no effect.
AfterDRWrite(h, byte) ==
  IF h.phase # "tx" THEN h
  ELSE IF h.txShift = NoByte
       THEN [h EXCEPT !.txShift = byte, !.sr = @ \ {"BTF"}]
       ELSE [h EXCEPT !.txDR = byte, !.sr = @ \ {"BTF"}]

\* A DR read after an SR1 read clears BTF; a full shift register moves to DR.
AfterDRRead(h) ==
  [h EXCEPT !.sr = @ \ {"BTF"}, !.rxDR = h.rxShift, !.rxShift = FALSE]

\* Writing 0 to SR1 clears the rc_w0 error flags only.
AfterSR1Clear(h) == [h EXCEPT !.sr = @ \ ErrorFlags]

\* CR1.PE cleared and set again: the peripheral resets only when no
\* communication is in progress; otherwise PE=0 is deferred to its end.
AfterPEToggle(h) ==
  IF h.phase = "idle"
  THEN [h EXCEPT !.sr = {}, !.txDR = NoByte, !.txShift = NoByte,
                 !.rxDR = FALSE, !.rxShift = FALSE]
  ELSE h

(***************************************************************************)
(* Steps the peripheral and the slave take on their own.                  *)
(***************************************************************************)
\* A START request is served on an idle bus, after the last transmitted
\* byte, or after a NACK (a repeated START).
HwStart ==
  /\ "START" \in hw.cr1
  /\ \/ hw.phase \in {"idle", "held"}
     \/ hw.phase = "tx" /\ hw.txShift = NoByte
  /\ hw' = [hw EXCEPT !.cr1 = @ \ {"START"}, !.sr = (@ \ {"BTF"}) \cup {"SB"},
                      !.phase = "start"]
  /\ UNCHANGED faults

\* A STOP request ends the transfer after the byte in progress.
HwStop ==
  /\ "STOP" \in hw.cr1
  /\ \/ hw.phase \in {"idle", "held"}
     \/ hw.phase = "tx" /\ hw.txShift = NoByte
  /\ hw' = [hw EXCEPT !.cr1 = @ \ {"STOP"}, !.sr = @ \ {"BTF"},
                      !.phase = "idle"]
  /\ UNCHANGED faults

\* The slave acknowledges its address (ADDR) or does not (AF, a fault).
HwAddrAck ==
  /\ hw.phase = "addr"
  /\ hw' = [hw EXCEPT !.sr = @ \cup {"ADDR"},
                      !.phase = IF hw.rd THEN "rx" ELSE "tx"]
  /\ UNCHANGED faults

HwAddrNack ==
  /\ hw.phase = "addr"
  /\ faults < MaxFaults
  /\ hw' = [hw EXCEPT !.sr = @ \cup {"AF"}, !.phase = "held"]
  /\ faults' = faults + 1

\* The byte in the shift register goes out; the slave ACKs it and the next
\* byte moves from DR to the shift register, or BTF is set when DR is empty.
HwTxByte ==
  /\ hw.phase = "tx" /\ hw.txShift # NoByte /\ "ADDR" \notin hw.sr
  /\ hw' = [hw EXCEPT !.acked = @ \cup {hw.txShift}, !.txShift = hw.txDR,
                      !.txDR = NoByte,
                      !.sr = IF hw.txDR = NoByte THEN @ \cup {"BTF"} ELSE @]
  /\ UNCHANGED faults

\* ... or NACKs it: AF is set and the master holds the bus.
HwTxNack ==
  /\ hw.phase = "tx" /\ hw.txShift # NoByte /\ "ADDR" \notin hw.sr
  /\ faults < MaxFaults
  /\ hw' = [hw EXCEPT !.nacked = @ \cup {hw.txShift}, !.txShift = NoByte,
                      !.sr = @ \cup {"AF"}, !.phase = "held"]
  /\ faults' = faults + 1

\* A byte is clocked in, ACKed iff CR1.ACK is set as it completes; it lands
\* in DR, or in the shift register with BTF (clock stretched) when DR is
\* full.  A pending STOP or START is generated once the byte is complete.
HwRxByte ==
  /\ hw.phase = "rx" /\ ~hw.rxShift /\ "ADDR" \notin hw.sr
  /\ hw.rxCount < MaxRx
  /\ LET n == hw.rxCount + 1
         full == hw.rxDR
         StartServed == "START" \in hw.cr1 /\ "STOP" \notin hw.cr1
     IN hw' = [hw EXCEPT
                 !.rxCount = n,
                 !.nackAt = IF "ACK" \notin hw.cr1 /\ @ = 0 THEN n ELSE @,
                 !.rxDR = TRUE,
                 !.rxShift = full,
                 !.sr = (IF full THEN @ \cup {"BTF"} ELSE @)
                        \cup (IF StartServed THEN {"SB"} ELSE {}),
                 !.cr1 = IF "STOP" \in @ THEN @ \ {"STOP"}
                         ELSE IF "START" \in @ THEN @ \ {"START"} ELSE @,
                 !.phase = IF "STOP" \in hw.cr1 THEN "idle"
                           ELSE IF StartServed THEN "start" ELSE "rx"]
  /\ UNCHANGED faults

\* A misplaced START/STOP on the bus (BERR, the master keeps the bus) or a
\* lost arbitration (ARLO, the peripheral drops to slave mode and the
\* transmission it was making, with its BTF, is gone).
HwBusError ==
  /\ hw.phase # "idle"
  /\ faults < MaxFaults
  /\ hw' = [hw EXCEPT !.sr = @ \cup {"BERR"}]
  /\ faults' = faults + 1

HwArbitrationLost ==
  /\ hw.phase \in {"addr", "tx", "rx"}
  /\ faults < MaxFaults
  /\ hw' = [hw EXCEPT !.sr = (@ \ {"BTF"}) \cup {"ARLO"}, !.phase = "idle",
                      !.txDR = NoByte, !.txShift = NoByte]
  /\ faults' = faults + 1

\* The peripheral can still move on its own (one of HwStart, HwStop,
\* HwAddrAck, HwTxByte, HwRxByte is enabled): the disjunction of their
\* guards, as a state predicate.
HwCanProgress ==
  \/ /\ hw.cr1 \cap {"START", "STOP"} # {}
     /\ \/ hw.phase \in {"idle", "held"}
        \/ hw.phase = "tx" /\ hw.txShift = NoByte
  \/ hw.phase = "addr"
  \/ hw.phase = "tx" /\ hw.txShift # NoByte /\ "ADDR" \notin hw.sr
  \/ /\ hw.phase = "rx" /\ ~hw.rxShift /\ "ADDR" \notin hw.sr
     /\ hw.rxCount < MaxRx

HwNext ==
  \/ HwStart \/ HwStop \/ HwAddrAck \/ HwAddrNack \/ HwTxByte \/ HwTxNack
  \/ HwRxByte \/ HwBusError \/ HwArbitrationLost

HwTypeOK ==
  /\ hw.cr1 \subseteq {"START", "STOP", "ACK"}
  /\ hw.cr2 \subseteq {"ITERREN", "ITEVFEN", "ITBUFEN"}
  /\ hw.sr \subseteq EventFlags \cup ErrorFlags
  /\ hw.phase \in Phases
  /\ hw.rd \in BOOLEAN /\ hw.rxDR \in BOOLEAN /\ hw.rxShift \in BOOLEAN
  /\ hw.rxCount \in 0..MaxRx /\ hw.nackAt \in 0..MaxRx
  /\ faults \in 0..MaxFaults

====

------------------------------ MODULE MCI2CDriver -----------------------------
(***************************************************************************)
(* Model-checking instances of I2CDriver: the requests the threads make.  *)
(***************************************************************************)
EXTENDS I2CDriver

\* Writes, a one-byte read, and both forms of stm32_i2c_writeread.
MCRequests ==
  {WriteMsgs(2), ReadMsgs(1), WriteReadMsgs(1, 1), WriteReadMsgs(1, -1)}

\* A two-byte write, a one-byte read and a NORESTART writeread.
MCFaultRequests == {WriteMsgs(2), ReadMsgs(1), WriteReadMsgs(1, -1)}

\* A two-byte read, where ACK must be cleared while the bus keeps clocking.
MCReadRequests == {ReadMsgs(2)}

\* Single-byte transfers.
MCShortRequests == {WriteMsgs(1), ReadMsgs(1)}

\* A two-byte write.
MCWriteRequests == {WriteMsgs(2)}
====

----------------------------- MODULE MCI2CInstance ----------------------------
(***************************************************************************)
(* Model-checking instances of I2CInstance.                                *)
(***************************************************************************)
EXTENDS I2CInstance

\* The SR2|SR1 values of the handler runs of a one-byte write.
MCStatuses == {"SB", "ADDR|TXE", "TXE|BTF"}
====

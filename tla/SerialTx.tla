-------------------------------- MODULE SerialTx --------------------------------
(***************************************************************************)
(* What the transmit path of a serial port promises its writers: every    *)
(* byte the port accepts (into the upper half's buffer, or from up_putc)  *)
(* is held until it goes out on the line, one at a time; no byte is lost  *)
(* on the way, none is invented, and every held byte eventually goes out. *)
(* Data is abstracted to counts.                                           *)
(***************************************************************************)
EXTENDS Naturals

CONSTANTS Ports

VARIABLES
  written,      \* per port: bytes the port has accepted
  held,         \* per port: accepted bytes not yet on the line
  line          \* per port: bytes sent on the line

vars == <<written, held, line>>

Init ==
  /\ written = [p \in Ports |-> 0]
  /\ held = [p \in Ports |-> 0]
  /\ line = [p \in Ports |-> 0]

Accept(p) ==
  /\ written' = [written EXCEPT ![p] = @ + 1]
  /\ held' = [held EXCEPT ![p] = @ + 1]
  /\ UNCHANGED line

Emit(p) ==
  /\ held[p] > 0
  /\ held' = [held EXCEPT ![p] = @ - 1]
  /\ line' = [line EXCEPT ![p] = @ + 1]
  /\ UNCHANGED written

Next == \E p \in Ports : Accept(p) \/ Emit(p)

Spec == Init /\ [][Next]_vars /\ \A p \in Ports : WF_vars(Emit(p))
====

------------------------------- MODULE MCKRpc -------------------------------
(* krpc_call for TLC.  The reserved range 512..1023 the bind loop walks is *)
(* cut to its highest port, so that a socket left bound by a successful   *)
(* call exhausts it and a port closed on an error path is bound again by  *)
(* the next call; MAX_RESEND_DELAY (5 s) is cut to 2 s, so that three     *)
(* sends reach the cap of the back-off.                                    *)
EXTENDS KRpc

MCLowPort == 1023
MCHighPort == 1023
====

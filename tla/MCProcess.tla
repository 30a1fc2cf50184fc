------------------------------ MODULE MCProcess ------------------------------
(***************************************************************************)
(* Up to three processes (the kernels of projects 8 and 9 create two and   *)
(* one); registers count modulo three.                                     *)
(***************************************************************************)
EXTENDS Process

MCSlots == 1 .. 3
MCValues == 0 .. 2
=============================================================================

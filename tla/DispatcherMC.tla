---------------------------- MODULE DispatcherMC ----------------------------
(***************************************************************************)
(* The instance of Dispatcher that TLC checks: two customers, of whom one  *)
(* writes a message of white space between two others.                     *)
(***************************************************************************)
EXTENDS Dispatcher

CONSTANTS u1, u2

MCUsers == {u1, u2}
MCBlank == [u \in MCUsers |-> IF u = u1 THEN {2} ELSE {}]
=============================================================================

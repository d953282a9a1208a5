---------------------------- MODULE MCCabinetHold ----------------------------
(***************************************************************************)
(* The instance of CabinetHold that TLC checks.  Tasks are interchangeable *)
(* but not declared so: symmetry is not sound for AdmissionEnds.           *)
(***************************************************************************)
EXTENDS CabinetHold
==============================================================================

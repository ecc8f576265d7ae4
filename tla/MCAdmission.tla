----------------------------- MODULE MCAdmission -----------------------------
(***************************************************************************)
(* Admission on a small instance: five boxes and two slots, so that three  *)
(* requests wait behind a full controller and the head, the middle and     *)
(* the tail of the deque can be cancelled.                                 *)
(***************************************************************************)
EXTENDS Admission

\* The ids are model values, which TLC compares with anything.
=============================================================================

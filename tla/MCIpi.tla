------------------------------- MODULE MCIpi -------------------------------
(* Ipi by itself: three processors for the locks, two for the shootdown    *)
(* table and the interrupt line.                                           *)
EXTENDS Ipi
=============================================================================

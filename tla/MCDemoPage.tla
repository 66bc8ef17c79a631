----------------------------- MODULE MCDemoPage -----------------------------
(* An instance of DemoPage for TLC. *)
EXTENDS DemoPage, TLC

(* Requests, and the rows with an attack button, differ in nothing but     *)
(* their identity.                                                         *)
Interchangeable == Permutations(Requests) \cup Permutations(AttackRows)
=============================================================================

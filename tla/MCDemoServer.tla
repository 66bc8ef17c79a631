---------------------------- MODULE MCDemoServer ----------------------------
(* An instance of DemoServer for TLC. *)
EXTENDS DemoServer
=============================================================================

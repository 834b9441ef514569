---------------------------- MODULE MCEchoServer ----------------------------
(* Two clients of two bytes each; a write blocks at the second byte.       *)
EXTENDS EchoServer
=============================================================================

------------------------------- MODULE MCFtp --------------------------------
(* One client that sends two lines, one that asks for a list, and two      *)
(* ports; a file that exists and one that does not; servers started with   *)
(* many descriptors, or few enough for two transfers.                      *)
EXTENDS Ftp

CONSTANTS c1, c2

Ports == <<"p1", "p2">>
Lines == [c \in Client |-> IF c = c1 THEN <<{"QUIT", "PWD", "NOOP", "f", "g"}, {"LS"}>> ELSE <<{"LS"}>>]
=============================================================================

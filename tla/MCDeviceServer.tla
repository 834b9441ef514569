--------------------------- MODULE MCDeviceServer ---------------------------
(* Two clients, of which one sends two commands; the words give every      *)
(* command and one that is not known.                                      *)
EXTENDS DeviceServer

CONSTANTS c1, c2

Asks == [c \in Client |-> IF c = c1 THEN 2 ELSE 1]
=============================================================================

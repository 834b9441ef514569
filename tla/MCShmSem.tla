------------------------------ MODULE MCShmSem ------------------------------
(* Two producers and a consumer, two times, one kill, one removal.         *)
EXTENDS ShmSem
=============================================================================

------------------------------ MODULE MCSemRW -------------------------------
(* Three processes of two rounds; one kill, one removal of the semaphore,  *)
(* and an operator that may open it twice.                                 *)
EXTENDS SemRW
=============================================================================

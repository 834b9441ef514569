---------------------------- MODULE MCFileServer ----------------------------
(* Two pids, two file names of which one exists, and a queue with room for *)
(* a message per client and one per kill.                                  *)
EXTENDS FileServer

CONSTANTS present, absent, size

MCStat == (present :> size) @@ (absent :> NoFile)
=============================================================================

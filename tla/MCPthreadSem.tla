---------------------------- MODULE MCPthreadSem ----------------------------
(* Four increments before the post and four that the threads share.        *)
EXTENDS PthreadSem
=============================================================================

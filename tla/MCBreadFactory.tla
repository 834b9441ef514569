--------------------------- MODULE MCBreadFactory ---------------------------
(* Two makers and a boxer as in the code; 3 boxes of 2 loaves for the 10   *)
(* of 10, so that makers race for the last loaf while the boxer packs.     *)
EXTENDS BreadFactory
=============================================================================

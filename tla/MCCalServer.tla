---------------------------- MODULE MCCalServer -----------------------------
(* Two clients, two servers, operands of which one product is zero and one *)
(* overflows the width.                                                    *)
EXTENDS CalServer

MCOp == {0, 3}
=============================================================================

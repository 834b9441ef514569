------------------------------ MODULE MCCapture ------------------------------
(* A screen of 3 x 3 pixels with plain lines, or with padded ones and panned. *)
(* A picture of 2 x 2, or of an odd width with padded rows: it fits in a      *)
(* corner, runs over the right edge or runs off the bottom.                   *)
EXTENDS Capture

MCGeometry == {<<3, 0, 0>>, <<4, 1, 1>>}
MCPicture == {<<2, 2, 2>>, <<3, 2, 4>>}
MCPosition == {<<0, 0>>, <<1, 1>>, <<1, 2>>}
MCCounts == {0, 2}
MCGranted == {1, 2, 3}
==============================================================================

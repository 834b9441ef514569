------------------------------ MODULE Factory -------------------------------
(***************************************************************************)
(* What the bakery of EX04-06 is for: loaves are made one at a time up to  *)
(* NUM_OF_BREAD, and BoxSize loaves that nobody has boxed fill a box.      *)
(***************************************************************************)
EXTENDS Integers

CONSTANTS
    NUM_OF_BREAD,   \* loaves to make
    BoxSize         \* loaves in a box

VARIABLES bread_count, box_count

vars == <<bread_count, box_count>>

Init == bread_count = 0 /\ box_count = 0

Bake ==
    /\ bread_count < NUM_OF_BREAD
    /\ bread_count' = bread_count + 1
    /\ UNCHANGED box_count

Pack ==
    /\ bread_count - box_count * BoxSize >= BoxSize
    /\ box_count' = box_count + 1
    /\ UNCHANGED bread_count

Next == Bake \/ Pack

Spec == Init /\ [][Next]_vars
=============================================================================

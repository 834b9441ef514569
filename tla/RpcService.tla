----------------------------- MODULE RpcService -----------------------------
(***************************************************************************)
(* What a request/reply service over an unreliable server promises: an     *)
(* answer consumes one request that was asked under the same client and    *)
(* not answered before, so no answer is invented or given twice.  Requests *)
(* may be lost, one at a time or all at once, and a client may give up.    *)
(* FileServer implements it (the module says how its state maps here).     *)
(***************************************************************************)
EXTENDS Integers

CONSTANTS
    Client,       \* those who ask
    Name,         \* what they ask about
    None          \* no answer

VARIABLES
    status,       \* per client: idle, asked or answered
    answer,       \* per client: the name the answer is about
    pending       \* per client and name: requests neither answered nor lost

vars == <<status, answer, pending>>

Zero == [c \in Client |-> [n \in Name |-> 0]]

Init ==
    /\ status = [c \in Client |-> "idle"]
    /\ answer = [c \in Client |-> None]
    /\ pending = Zero

Ask(c, n) ==
    /\ status[c] = "idle"
    /\ status' = [status EXCEPT ![c] = "asked"]
    /\ pending' = [pending EXCEPT ![c][n] = @ + 1]
    /\ UNCHANGED answer

Reply(c, n) ==
    /\ status[c] = "asked"
    /\ pending[c][n] > 0
    /\ status' = [status EXCEPT ![c] = "answered"]
    /\ answer' = [answer EXCEPT ![c] = n]
    /\ pending' = [pending EXCEPT ![c][n] = @ - 1]

Lose(c, n) ==
    /\ pending[c][n] > 0
    /\ pending' = [pending EXCEPT ![c][n] = @ - 1]
    /\ UNCHANGED <<status, answer>>

(* The client gives up, is killed, or starts over after an answer.         *)
Leave(c) ==
    /\ status[c] # "idle"
    /\ status' = [status EXCEPT ![c] = "idle"]
    /\ answer' = [answer EXCEPT ![c] = None]
    /\ UNCHANGED pending

(* The service is taken down: requests are lost and those who asked leave. *)
TakeDown ==
    /\ pending' = Zero
    /\ status' = [c \in Client |-> IF status[c] = "asked" THEN "idle" ELSE status[c]]
    /\ UNCHANGED answer

Next ==
    \/ \E c \in Client : Leave(c) \/ \E n \in Name : Ask(c, n) \/ Reply(c, n) \/ Lose(c, n)
    \/ TakeDown

Spec == Init /\ [][Next]_vars
=============================================================================

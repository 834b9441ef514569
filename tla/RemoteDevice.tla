---------------------------- MODULE RemoteDevice ----------------------------
(***************************************************************************)
(* What a device server promises to clients that wait for each answer: a   *)
(* command is carried out at most once, after it was asked and before it   *)
(* is answered; the answer is the result of that very command; and the LED *)
(* changes only so.  A client may give up; a command may get no answer.    *)
(* DeviceServer implements it (the module says how its state maps here).   *)
(***************************************************************************)
CONSTANTS
    Client,       \* those who ask
    Command,      \* what they ask for
    Outcome(_),   \* per command: the possible results, each with its effect on the LED
    None          \* nothing

VARIABLES
    led,          \* the LED
    asked,        \* per client: the command not answered yet
    result,       \* per client: the result of that command, once carried out
    told          \* per client: the last answer, until it asks again

vars == <<led, asked, result, told>>

Init ==
    /\ led = 0
    /\ asked = [c \in Client |-> None]
    /\ result = [c \in Client |-> None]
    /\ told = [c \in Client |-> None]

Ask(c, cmd) ==
    /\ asked[c] = None
    /\ asked' = [asked EXCEPT ![c] = cmd]
    /\ told' = [told EXCEPT ![c] = None]
    /\ UNCHANGED <<led, result>>

Do(c) ==
    /\ asked[c] # None /\ result[c] = None
    /\ \E o \in Outcome(asked[c]) :
          /\ result' = [result EXCEPT ![c] = o.result]
          /\ led' = IF o.led = None THEN led ELSE o.led
    /\ UNCHANGED <<asked, told>>

Answer(c) ==
    /\ result[c] # None
    /\ asked' = [asked EXCEPT ![c] = None]
    /\ told' = [told EXCEPT ![c] = result[c]]
    /\ result' = [result EXCEPT ![c] = None]
    /\ UNCHANGED led

Next == \E c \in Client : Do(c) \/ Answer(c) \/ \E cmd \in Command : Ask(c, cmd)

Spec == Init /\ [][Next]_vars
=============================================================================

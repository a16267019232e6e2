-------------------------- MODULE CommandService --------------------------
(***************************************************************************)
(* What a queue pair promises to the threads that submit commands to it: a *)
(* command is performed by the device at most once, and its caller is      *)
(* given the reply to it, and to no other command, after it was performed. *)
(* The promise is kept as long as the callers keep the rules of the queue; *)
(* once one of them has broken a rule nothing is promised.                 *)
(***************************************************************************)
EXTENDS Integers

CONSTANTS Threads, NoCmd

VARIABLES
    kept,       \* the callers have kept the rules so far
    issued,     \* number of commands issued: they are 0 .. issued - 1
    pending,    \* thread -> the command its call is about, or NoCmd
    performed,  \* commands the device is done with
    reply       \* thread -> the command the last reply was about

vars == <<kept, issued, pending, performed, reply>>

Init ==
    /\ kept = TRUE
    /\ issued = 0
    /\ pending = [t \in Threads |-> NoCmd]
    /\ performed = {}
    /\ reply = [t \in Threads |-> NoCmd]

Issue(t) ==
    /\ pending[t] = NoCmd
    /\ pending' = [pending EXCEPT ![t] = issued]
    /\ issued' = issued + 1
    /\ UNCHANGED <<performed, reply>>

Perform(n) ==
    /\ n < issued /\ n \notin performed
    /\ performed' = performed \cup {n}
    /\ UNCHANGED <<issued, pending, reply>>

Reply(t) ==
    /\ pending[t] \in performed /\ reply[t] # pending[t]
    /\ reply' = [reply EXCEPT ![t] = pending[t]]
    /\ UNCHANGED <<issued, pending, performed>>

Return(t) ==
    /\ pending[t] # NoCmd /\ reply[t] = pending[t]
    /\ pending' = [pending EXCEPT ![t] = NoCmd]
    /\ UNCHANGED <<issued, performed, reply>>

Next ==
    \/ /\ kept /\ kept'
       /\ \/ \E t \in Threads : Issue(t) \/ Reply(t) \/ Return(t)
          \/ \E n \in 0..issued : Perform(n)
    \/ ~kept'

Spec == Init /\ [][Next]_vars /\ [][kept' => kept]_vars

============================================================================

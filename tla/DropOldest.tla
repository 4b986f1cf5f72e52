----------------------------- MODULE DropOldest -----------------------------
(***************************************************************************)
(* What LockFreeQueue promises its users: one atomic queue of at most      *)
(* Size entries, in which a push into a full queue discards the oldest     *)
(* entry and a pop returns the oldest one, or reports that there is none.  *)
(*                                                                         *)
(* An entry is the number of its push, so the queue is always the interval *)
(* gone + 1 .. pushed and two counters describe it.                        *)
(***************************************************************************)
EXTENDS Integers

CONSTANTS
    Size,   \* entries the queue holds
    Nothing \* what a pop of an empty queue returns

VARIABLES
    pushed, \* entries pushed so far
    gone,   \* entries popped or discarded so far
    out     \* what the last pop returned

vars == <<pushed, gone, out>>

Held == pushed - gone

Init == pushed = 0 /\ gone = 0 /\ out = Nothing

Push ==
    /\ pushed' = pushed + 1
    /\ gone' = IF Held = Size THEN gone + 1 ELSE gone
    /\ UNCHANGED out

Pop ==
    /\ Held > 0
    /\ gone' = gone + 1
    /\ out' = gone + 1
    /\ UNCHANGED pushed

FindEmpty ==
    /\ Held = 0
    /\ out' = Nothing
    /\ UNCHANGED <<pushed, gone>>

Next == Push \/ Pop \/ FindEmpty

Spec == Init /\ [][Next]_vars
=============================================================================

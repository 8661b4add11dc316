---------------------------- MODULE BoundedStack ----------------------------
(***************************************************************************)
(* What the stack instructions of the Dez VM promise together: a LIFO      *)
(* stack of at most Capacity values.  Programs may also overwrite values   *)
(* inside it with an ordinary store, one at a time.                        *)
(***************************************************************************)
EXTENDS Naturals, Sequences

CONSTANTS
    Values,     \* what can be pushed
    Capacity    \* number of slots

VARIABLE stack

TypeOK == stack \in Seq(Values) /\ Len(stack) <= Capacity

Init == stack = <<>>

Push ==
    /\ Len(stack) < Capacity
    /\ Len(stack') = Len(stack) + 1
    /\ stack'[Len(stack')] \in Values
    /\ \A i \in 1 .. Len(stack) : stack'[i] = stack[i]

Pop == stack # <<>> /\ stack' = SubSeq(stack, 1, Len(stack) - 1)

Overwrite ==
    /\ Len(stack') = Len(stack)
    /\ \E i \in 1 .. Len(stack) :
          /\ stack'[i] \in Values
          /\ \A j \in 1 .. Len(stack) : j # i => stack'[j] = stack[j]

Next == Push \/ Pop \/ Overwrite

Spec == Init /\ [][Next]_stack
=============================================================================

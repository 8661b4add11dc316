----------------------------- MODULE Dictionary -----------------------------
(***************************************************************************)
(* What a symbol table promises: a name is bound at most once, a binding   *)
(* never changes, a lookup answers with the binding of the name, and a     *)
(* definition is refused only for a bound name or for lack of room.        *)
(***************************************************************************)
EXTENDS Integers, FiniteSets

CONSTANTS
    Names,
    Values,
    Capacity    \* number of names that can be bound

VARIABLES
    bindings,   \* a function from the bound names to their values
    asked,      \* the name the last call was about
    accepted,   \* whether that was a definition and was accepted
    found       \* what it found if it was a lookup: at most one value

Bound == DOMAIN bindings

Init ==
    /\ Bound = {}
    /\ asked \in Names
    /\ accepted = FALSE
    /\ found = {}

Define(n) ==
    /\ n \notin Bound
    /\ Cardinality(Bound) < Capacity
    /\ DOMAIN bindings' = Bound \union {n}
    /\ bindings'[n] \in Values
    /\ \A m \in Bound : bindings'[m] = bindings[m]
    /\ asked' = n
    /\ accepted' = TRUE
    /\ found' = {}

Refuse(n) ==
    /\ n \in Bound \/ Cardinality(Bound) >= Capacity
    /\ asked' = n
    /\ accepted' = FALSE
    /\ found' = {}
    /\ UNCHANGED bindings

Lookup(n) ==
    /\ asked' = n
    /\ accepted' = FALSE
    /\ found' = {bindings[m] : m \in Bound \intersect {n}}
    /\ UNCHANGED bindings

Next == \E n \in Names : Define(n) \/ Refuse(n) \/ Lookup(n)

Spec == Init /\ [][Next]_<<bindings, asked, accepted, found>>
=============================================================================

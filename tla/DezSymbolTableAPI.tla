------------------------- MODULE DezSymbolTableAPI --------------------------
(***************************************************************************)
(* The symbol table on its own: a caller that defines labels, strings and  *)
(* constants, reserves string space and looks names up, in any order       *)
(* (src/assembler/dez_symbol_table.c).                                     *)
(***************************************************************************)
EXTENDS DezSymbolTable, FiniteSets

CONSTANTS
    Numbers,    \* the label addresses and constant values used
    Texts,      \* the string literals used
    AddrLimit   \* bound: no string is added once next_string_addr is above it

ASSUME APIAssumption ==
    /\ Numbers \subseteq Nat
    /\ AddrLimit \in Nat
    /\ \A text \in Texts : Len(text) \in Nat

VARIABLES
    table,      \* the symbol table
    asked,      \* the name the last call was about
    accepted,   \* whether that was a definition that returned true
    result       \* the symbol it returned if it was a find, as a set: empty for NULL

tableVars == <<table, asked, accepted, result>>

\* The array never grows past its size, and every index in the cache is one
\* of a symbol; a search returns one symbol at most.
TableTypeOK ==
    /\ IsSymbolTable(table)
    /\ asked \in Names
    /\ accepted \in BOOLEAN
    /\ Cardinality(result) <= 1

TableInit ==
    /\ table = EmptySymbolTable
    /\ asked \in Names
    /\ accepted = FALSE
    /\ result = {}

Answer(n, ok, symbols) == asked' = n /\ accepted' = ok /\ result' = symbols

DefineLabel(n, address) ==
    /\ Answer(n, Added(table, n), {})
    /\ table' = AfterDefineLabel(table, n, address)

DefineConstant(n, value) ==
    /\ Answer(n, Added(table, n), {})
    /\ table' = AfterDefineConstant(table, n, value)

DefineString(n, text) ==
    /\ table.next_string_addr <= AddrLimit
    /\ Answer(n, Added(table, n), {})
    /\ table' = AfterDefineString(table, n, text)

LookUp(n) ==
    /\ Answer(n, FALSE, IF Find(table, n) = None THEN {} ELSE {table.symbols[Find(table, n)]})
    /\ table' = AfterFind(table, n)

AllocateString(text) ==
    /\ table.next_string_addr <= AddrLimit
    /\ table' = Allocated(table, text)
    /\ UNCHANGED <<asked, accepted, result>>

TableNext ==
    \/ \E n \in Names :
          \/ \E k \in Numbers : DefineLabel(n, k) \/ DefineConstant(n, k)
          \/ \E text \in Texts : DefineString(n, text)
          \/ LookUp(n)
    \/ \E text \in Texts : AllocateString(text)

TableSpec == TableInit /\ [][TableNext]_tableVars

----------------------------------------------------------------------------
(* Correctness. *)

DefinedNames == {table.symbols[i].name : i \in 1 .. Len(table.symbols)}

Position(n) == CHOOSE i \in 1 .. Len(table.symbols) : table.symbols[i].name = n

Bindings == [n \in DefinedNames |-> table.symbols[Position(n)]]

Contract ==
    INSTANCE Dictionary WITH
        Values   <- [name : Names, type : SymbolType, address : Nat, text : Texts \union {<<>>}],
        Capacity <- MaxSymbols,
        bindings <- Bindings,
        found    <- result

\* When every name fits its field, the array with the cache in front of it
\* is a dictionary: whatever was looked up, refused or evicted from the
\* cache before, find answers with the one definition of the name.
ImplementsDictionary == Contract!Spec

\* The bytes of two strings, terminators included, never overlap, nor reach
\* past next_string_addr, although refused definitions take space too; and
\* symbol_table_get_string finds every string by its address.
StringBytes(s) == s.address .. s.address + Len(s.text)

StringIndexes == {i \in 1 .. Len(table.symbols) : table.symbols[i].type = "STRING"}

StringsApart ==
    \A i \in StringIndexes :
        /\ \A a \in StringBytes(table.symbols[i]) : a < table.next_string_addr
        /\ \A j \in StringIndexes \ {i} :
              StringBytes(table.symbols[i]) \intersect StringBytes(table.symbols[j]) = {}
        /\ StringAt(table, table.symbols[i].address) = i
=============================================================================

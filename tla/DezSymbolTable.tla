--------------------------- MODULE DezSymbolTable ---------------------------
(***************************************************************************)
(* The assembler's symbol table (src/assembler/dez_symbol_table.c): an     *)
(* array of symbols in order of definition, and a hash table of indexes    *)
(* into it that only remembers, for each slot, the last symbol a search    *)
(* found.  The hash table is a cache: a definition does not enter the new  *)
(* symbol, and a slot may be taken over by any other name that hashes to   *)
(* it.                                                                     *)
(*                                                                         *)
(* The functions of the source take a pointer to the table; the operators  *)
(* here take the table t and give what the function returns or the table   *)
(* it leaves, so that callers can compose calls.  Indexes start at 1 and   *)
(* None stands for the -1 of an empty slot and for NULL.  The fields       *)
(* defined (always true) and line (used in messages) are left out, and so  *)
(* is value (equal to address for constants, 0 otherwise).                 *)
(***************************************************************************)
EXTENDS Integers, Sequences

CONSTANTS
    Names,          \* names a caller may use
    Stored,         \* Stored[n]: what strncpy keeps of n (63 characters)
    Hash,           \* Hash[n]: the slot of n
    HashSlots,      \* the slots (0 .. DEZ_SYMBOL_HASH_SIZE - 1)
    MaxSymbols,     \* size of the array (1024)
    StringStart     \* address of the first string (0x100)

ASSUME SymbolTableAssumption ==
    /\ Stored \in [Names -> Names]
    /\ \A n \in Names : Stored[Stored[n]] = Stored[n]
    /\ Hash \in [Names -> HashSlots]
    /\ MaxSymbols \in Nat
    /\ StringStart \in Nat

None == 0

SymbolType == {"LABEL", "STRING", "CONSTANT"}

\* symbol_t; text is the string_value of a string, empty for the others.
IsSymbol(s) ==
    /\ s.name \in Names
    /\ s.type \in SymbolType
    /\ s.address \in Nat
    /\ s.type # "STRING" => s.text = <<>>

IsSymbolTable(t) ==
    /\ Len(t.symbols) <= MaxSymbols
    /\ \A i \in 1 .. Len(t.symbols) : IsSymbol(t.symbols[i])
    /\ t.hash_table \in [HashSlots -> 0 .. Len(t.symbols)]
    /\ t.next_string_addr \in Nat

\* symbol_table_init
EmptySymbolTable ==
    [symbols          |-> <<>>,
     hash_table       |-> [h \in HashSlots |-> None],
     next_string_addr |-> StringStart]

----------------------------------------------------------------------------
(* symbol_table_find *)

CachedIndex(t, n) == t.hash_table[Hash[n]]

\* Mutant: the name behind the cached index is not compared.
CacheHitAny(t, n) == CachedIndex(t, n) \in 1 .. Len(t.symbols)

CacheHit(t, n) ==
    /\ CachedIndex(t, n) \in 1 .. Len(t.symbols)
    /\ t.symbols[CachedIndex(t, n)].name = n

Matches(t, n) == {i \in 1 .. Len(t.symbols) : t.symbols[i].name = n}

\* The linear search runs from the newest symbol to the oldest.
LastMatch(t, n) == CHOOSE i \in Matches(t, n) : \A j \in Matches(t, n) : j <= i

\* The index find returns, and the table it leaves.
Find(t, n) ==
    IF CacheHit(t, n) THEN CachedIndex(t, n)
    ELSE IF Matches(t, n) = {} THEN None
    ELSE LastMatch(t, n)

AfterFind(t, n) ==
    IF Find(t, n) = None THEN t ELSE [t EXCEPT !.hash_table[Hash[n]] = Find(t, n)]

----------------------------------------------------------------------------
(* symbol_table_add and its callers *)

\* Mutant: off by one.
FullLate(t) == Len(t.symbols) > MaxSymbols

Full(t) == Len(t.symbols) >= MaxSymbols

\* Whether add returns true, and the table it leaves.  A refused definition
\* may still have moved a cache entry, through its search.
Added(t, n) == ~Full(t) /\ Find(t, n) = None

AfterAdd(t, n, type, address, text) ==
    IF Full(t) THEN t
    ELSE IF Find(t, n) # None THEN AfterFind(t, n)
    ELSE [t EXCEPT !.symbols =
              Append(@, [name |-> Stored[n], type |-> type, address |-> address, text |-> text])]

AfterDefineLabel(t, n, address) == AfterAdd(t, n, "LABEL", address, <<>>)

AfterDefineConstant(t, n, value) == AfterAdd(t, n, "CONSTANT", value, <<>>)

\* Mutant: the null terminator is not counted.
AllocatedNoTerminator(t, text) == [t EXCEPT !.next_string_addr = @ + Len(text)]

\* symbol_table_allocate_string
Allocated(t, text) == [t EXCEPT !.next_string_addr = @ + Len(text) + 1]

\* The address is taken before the name is looked up: a refused definition
\* leaves a gap.
AfterDefineString(t, n, text) ==
    AfterAdd(Allocated(t, text), n, "STRING", t.next_string_addr, text)

\* symbol_table_get_string: the first string symbol at the address.
StringAt(t, address) ==
    LET here == {i \in 1 .. Len(t.symbols) :
                    t.symbols[i].type = "STRING" /\ t.symbols[i].address = address}
    IN  IF here = {} THEN None ELSE CHOOSE i \in here : \A j \in here : i <= j

----------------------------------------------------------------------------
\* The condition under which the table is a dictionary: a longer name is looked
\* up in full and stored cut, so it is never found and can be defined again and
\* again.
NamesFit == \A n \in Names : Stored[n] = n
=============================================================================

------------------------ MODULE DezSymbolTableProofs ------------------------
(***************************************************************************)
(* Proofs about the symbol table.                                          *)
(*                                                                         *)
(* First what the operators of DezSymbolTable do to a table, for every     *)
(* caller of them: searches only move the cache, a definition appends or   *)
(* leaves the array alone, and both keep the cache within the array.  T is *)
(* the set of texts the caller's strings are taken from.  Then the order   *)
(* of the strings (Ordered), by which a string is found at its address,    *)
(* and the names (Unique), by which a search through the cache finds the   *)
(* symbol of a name.                                                       *)
(*                                                                         *)
(* Then the table on its own (DezSymbolTableAPI).  Strings never share     *)
(* bytes and are found by their addresses: the array holds the strings in  *)
(* the order of their addresses, and a definition only appends, at or      *)
(* above the next free address.  Array and cache stay in their bounds.     *)
(* And when all names fit their field, the table is a dictionary: no name  *)
(* is twice in the array, and so it does not matter whether the cache or   *)
(* the loop over the array finds it.                                       *)
(***************************************************************************)
EXTENDS DezSymbolTableAPI, DezArithmetic, FiniteSetTheorems


Entry(T) == [name : Names, type : SymbolType, address : Nat, text : T \union {<<>>}]

\* The part of the type invariant the proofs use.
Shape(T, t) ==
    /\ t = [symbols |-> t.symbols, hash_table |-> t.hash_table,
            next_string_addr |-> t.next_string_addr]
    /\ t.symbols \in Seq(Entry(T))
    /\ t.next_string_addr \in Nat

TextsHaveLengths(T) == \A text \in T : Len(text) \in Nat

LEMMA TextLength ==
    ASSUME NEW T, TextsHaveLengths(T), NEW text \in T \union {<<>>}
    PROVE  Len(text) \in Nat
  BY DEF TextsHaveLengths

LEMMA EntryFields ==
    ASSUME NEW T, TextsHaveLengths(T), NEW symbols \in Seq(Entry(T)), NEW i \in 1 .. Len(symbols)
    PROVE  /\ symbols[i] \in Entry(T)
           /\ symbols[i].address \in Nat
           /\ Len(symbols[i].text) \in Nat
<1>1. symbols[i] \in Entry(T)
  OBVIOUS
<1>2. symbols[i].address \in Nat /\ symbols[i].text \in T \union {<<>>}
  BY <1>1 DEF Entry
<1>. QED
  BY <1>1, <1>2, TextLength

----------------------------------------------------------------------------
(* What calls do to the array. *)

\* A search changes the cache only.
LEMMA FindKeeps ==
    ASSUME NEW T, NEW t, Shape(T, t), NEW n
    PROVE  /\ AfterFind(t, n).symbols = t.symbols
           /\ AfterFind(t, n).next_string_addr = t.next_string_addr
           /\ Shape(T, AfterFind(t, n))
  BY DEF AfterFind, Shape

LEMMA AllocatedShape ==
    ASSUME NEW T, TextsHaveLengths(T), NEW t, Shape(T, t), NEW text \in T
    PROVE  /\ Allocated(t, text).symbols = t.symbols
           /\ Allocated(t, text).hash_table = t.hash_table
           /\ Allocated(t, text).next_string_addr = t.next_string_addr + Len(text) + 1
           /\ Shape(T, Allocated(t, text))
<1>1. Len(text) \in Nat
  BY TextLength
<1>. QED
  BY <1>1 DEF Allocated, Shape

\* A definition appends its symbol or leaves the array alone.
LEMMA AddCases ==
    ASSUME NEW T, NEW t, Shape(T, t), NEW n \in Names, NEW type \in SymbolType,
           NEW address \in Nat, NEW text \in T \union {<<>>}
    PROVE  LET u == AfterAdd(t, n, type, address, text)
               s == [name |-> Stored[n], type |-> type, address |-> address, text |-> text]
           IN  /\ Shape(T, u)
               /\ u.next_string_addr = t.next_string_addr
               /\ s \in Entry(T)
               /\ Added(t, n)  => u.symbols = Append(t.symbols, s)
               /\ ~Added(t, n) => u.symbols = t.symbols
<1> DEFINE u == AfterAdd(t, n, type, address, text)
           s == [name |-> Stored[n], type |-> type, address |-> address, text |-> text]
<1>1. s \in Entry(T)
  BY SymbolTableAssumption DEF Entry
<1>2. CASE Added(t, n)
  <2>1. u = [t EXCEPT !.symbols = Append(t.symbols, s)]
    BY <1>2 DEF AfterAdd, Added
  <2>2. /\ u.symbols = Append(t.symbols, s)
        /\ u.next_string_addr = t.next_string_addr
        /\ Shape(T, u)
    <3>. HIDE DEF u, s
    <3>1. Append(t.symbols, s) \in Seq(Entry(T))
      BY <1>1 DEF Shape
    <3>2. u = [symbols |-> Append(t.symbols, s), hash_table |-> t.hash_table,
               next_string_addr |-> t.next_string_addr]
      BY <2>1 DEF Shape
    <3>. QED
      BY <3>1, <3>2 DEF Shape
  <2>. QED
    BY <1>1, <1>2, <2>2
<1>3. CASE ~Added(t, n)
  <2>1. u = t \/ u = AfterFind(t, n)
    BY <1>3 DEF AfterAdd, Added
  <2>. QED
    BY <1>1, <1>3, <2>1, FindKeeps
<1>. QED
  BY <1>2, <1>3

----------------------------------------------------------------------------
(* What a search finds. *)

\* The search, through the cache or not, finds a symbol of the name if the
\* array holds one.
LEMMA FindMatches ==
    ASSUME NEW T, NEW t, t.symbols \in Seq(Entry(T)), NEW n
    PROVE  /\ Find(t, n) = None <=> Matches(t, n) = {}
           /\ Find(t, n) # None => Find(t, n) \in Matches(t, n)
           /\ Find(t, n) \in 0 .. Len(t.symbols)
<1>1. Len(t.symbols) \in Nat /\ Matches(t, n) \in SUBSET (1 .. Len(t.symbols))
  BY DEF Matches
<1>2. CASE CacheHit(t, n)
  BY <1>1, <1>2 DEF CacheHit, Find, Matches, None
<1>3. CASE ~CacheHit(t, n) /\ Matches(t, n) = {}
  BY <1>1, <1>3 DEF Find, None
<1>4. CASE ~CacheHit(t, n) /\ Matches(t, n) # {}
  <2>1. PICK i \in Matches(t, n) : \A j \in Matches(t, n) : j <= i
    <3>1. Matches(t, n) \in SUBSET (0 .. Len(t.symbols))
      BY <1>1
    <3>. QED
      BY <1>1, <1>4, <3>1, GreatestElement
  <2>2. LastMatch(t, n) \in Matches(t, n)
    BY <2>1 DEF LastMatch
  <2>. QED
    BY <1>1, <1>4, <2>2 DEF Find, None
<1>. QED
  BY <1>2, <1>3, <1>4

\* A search keeps the cache within the array.
LEMMA FindTable ==
    ASSUME NEW T, NEW t, Shape(T, t), IsSymbolTable(t), NEW n \in Names
    PROVE  IsSymbolTable(AfterFind(t, n))
<1>1. /\ AfterFind(t, n).symbols = t.symbols
      /\ AfterFind(t, n).next_string_addr = t.next_string_addr
  BY FindKeeps
<1>2. AfterFind(t, n).hash_table \in [HashSlots -> 0 .. Len(t.symbols)]
  <2>1. Find(t, n) \in 0 .. Len(t.symbols) /\ t.hash_table \in [HashSlots -> 0 .. Len(t.symbols)]
    BY FindMatches DEF Shape, IsSymbolTable
  <2>2. \/ AfterFind(t, n).hash_table = t.hash_table
        \/ AfterFind(t, n).hash_table = [t.hash_table EXCEPT ![Hash[n]] = Find(t, n)]
    BY DEF AfterFind, Shape
  <2>. QED
    BY <2>1, <2>2, SymbolTableAssumption
<1>. QED
  BY <1>1, <1>2 DEF IsSymbolTable

LEMMA AllocatedTable ==
    ASSUME NEW T, TextsHaveLengths(T), NEW t, Shape(T, t), IsSymbolTable(t), NEW text \in T
    PROVE  IsSymbolTable(Allocated(t, text))
<1>1. t.next_string_addr \in Nat /\ Len(text) \in Nat
  BY TextLength DEF Shape
<1>2. t.next_string_addr + Len(text) + 1 \in Nat
  BY <1>1
<1>. QED
  BY <1>2, AllocatedShape DEF IsSymbolTable

LEMMA AddTable ==
    ASSUME NEW T, NEW t, Shape(T, t), IsSymbolTable(t), NEW n \in Names, NEW type \in SymbolType,
           NEW address \in Nat, NEW text \in T \union {<<>>}, type # "STRING" => text = <<>>
    PROVE  IsSymbolTable(AfterAdd(t, n, type, address, text))
<1>. DEFINE s == [name |-> Stored[n], type |-> type, address |-> address, text |-> text]
            u == AfterAdd(t, n, type, address, text)
<1>1. CASE Added(t, n)
  <2>1. s \in Entry(T) /\ IsSymbol(s)
    BY SymbolTableAssumption DEF Entry, IsSymbol
  <2>2. u = [t EXCEPT !.symbols = Append(t.symbols, s)]
    BY <1>1 DEF AfterAdd, Added
  <2>. HIDE DEF s, u
  <2>3. /\ u.symbols = Append(t.symbols, s)
        /\ u.hash_table = t.hash_table /\ u.next_string_addr = t.next_string_addr
    BY <2>2 DEF Shape
  <2>4. t.symbols \in Seq(Entry(T)) /\ Len(t.symbols) < MaxSymbols
    BY <1>1, SymbolTableAssumption DEF Shape, Added, Full
  <2>5. /\ Len(u.symbols) = Len(t.symbols) + 1
        /\ \A i \in 1 .. Len(u.symbols) : u.symbols[i] = IF i = Len(t.symbols) + 1 THEN s
                                                                               ELSE t.symbols[i]
    BY <2>1, <2>3, <2>4
  <2>6. \A i \in 1 .. Len(u.symbols) : IsSymbol(u.symbols[i])
    BY <2>1, <2>4, <2>5 DEF IsSymbolTable
  <2>7. u.hash_table \in [HashSlots -> 0 .. Len(u.symbols)]
    BY <2>3, <2>4, <2>5 DEF IsSymbolTable
  <2>8. Len(u.symbols) <= MaxSymbols
    BY <2>4, <2>5, SymbolTableAssumption
  <2>. QED
    BY <2>3, <2>6, <2>7, <2>8 DEF IsSymbolTable, u
<1>2. CASE ~Added(t, n)
  BY <1>2, FindTable DEF AfterAdd, Added
<1>. QED
  BY <1>1, <1>2

----------------------------------------------------------------------------
(* Strings never share bytes. *)

\* Strings are stored in the order of their addresses.
Ordered(t) ==
    \A i \in 1 .. Len(t.symbols) : t.symbols[i].type = "STRING" =>
        /\ t.symbols[i].address + Len(t.symbols[i].text) < t.next_string_addr
        /\ \A j \in 1 .. Len(t.symbols) : j > i /\ t.symbols[j].type = "STRING" =>
              t.symbols[i].address + Len(t.symbols[i].text) < t.symbols[j].address

\* A symbol appended at or above the old next address, below the new one.
LEMMA AppendOrdered ==
    ASSUME NEW T, TextsHaveLengths(T), NEW t, NEW u, Shape(T, t), Ordered(t), NEW s \in Entry(T),
           u.symbols = Append(t.symbols, s) \/ u.symbols = t.symbols,
           u.next_string_addr \in Nat, u.next_string_addr >= t.next_string_addr,
           s.type = "STRING" => /\ s.address >= t.next_string_addr
                                /\ s.address + Len(s.text) < u.next_string_addr
    PROVE  Ordered(u)
<1>1. t.symbols \in Seq(Entry(T)) /\ t.next_string_addr \in Nat
  BY DEF Shape
<1>2. \A i \in 1 .. Len(t.symbols) :
          t.symbols[i].address \in Nat /\ Len(t.symbols[i].text) \in Nat
  BY <1>1, EntryFields
<1>3. s.address \in Nat /\ Len(s.text) \in Nat
  BY TextLength DEF Entry
<1>4. CASE u.symbols = t.symbols
  BY <1>1, <1>2, <1>4 DEF Ordered
<1>5. CASE u.symbols = Append(t.symbols, s)
  <2>1. /\ Len(u.symbols) = Len(t.symbols) + 1
        /\ u.symbols[Len(t.symbols) + 1] = s
        /\ \A i \in 1 .. Len(t.symbols) : u.symbols[i] = t.symbols[i]
    BY <1>1, <1>5
  <2>. SUFFICES ASSUME NEW i \in 1 .. Len(u.symbols), u.symbols[i].type = "STRING"
                PROVE  /\ u.symbols[i].address + Len(u.symbols[i].text) < u.next_string_addr
                       /\ \A j \in 1 .. Len(u.symbols) : j > i /\ u.symbols[j].type = "STRING" =>
                             u.symbols[i].address + Len(u.symbols[i].text) < u.symbols[j].address
    BY DEF Ordered
  <2>2. CASE i = Len(t.symbols) + 1
    BY <1>1, <1>3, <2>1, <2>2
  <2>3. CASE i \in 1 .. Len(t.symbols)
    <3> DEFINE end == t.symbols[i].address + Len(t.symbols[i].text)
    <3>0. /\ end = u.symbols[i].address + Len(u.symbols[i].text)
          /\ end \in Nat
          /\ t.symbols[i].type = "STRING"
      <4>1. u.symbols[i] = t.symbols[i]
        BY <2>1, <2>3
      <4>2. t.symbols[i].address \in Nat /\ Len(t.symbols[i].text) \in Nat
        BY <1>2, <2>3
      <4>3. end \in Nat
        <5>1. \A p, l \in Nat : p + l \in Nat
          OBVIOUS
        <5>. QED
          BY <4>2, <5>1
      <4>. HIDE DEF end
      <4>4. end = u.symbols[i].address + Len(u.symbols[i].text)
        BY <4>1 DEF end
      <4>. QED
        BY <4>1, <4>3, <4>4
    <3>1. end < t.next_string_addr
      BY <2>3, <3>0 DEF Ordered
    <3>2. end < u.next_string_addr
      <4>. HIDE DEF end
      <4>. QED
        BY <1>1, <3>0, <3>1
    <3>3. ASSUME NEW j \in 1 .. Len(u.symbols), j > i, u.symbols[j].type = "STRING"
          PROVE  end < u.symbols[j].address
      <4>1. CASE j = Len(t.symbols) + 1
        <5>1. u.symbols[j] = s
          BY <2>1, <4>1
        <5>2. s.address >= t.next_string_addr
          BY <3>3, <5>1
        <5>3. end < s.address
          <6>. HIDE DEF end
          <6>. QED
            BY <1>1, <1>3, <3>0, <3>1, <5>2
        <5>. QED
          BY <5>1, <5>3
      <4>2. CASE j \in 1 .. Len(t.symbols)
        BY <2>1, <2>3, <3>0, <3>3, <4>2 DEF Ordered
      <4>. QED
        BY <1>1, <2>1, <4>1, <4>2
    <3>. QED
      BY <3>0, <3>2, <3>3
  <2>. QED
    BY <1>1, <2>1, <2>2, <2>3
<1>. QED
  BY <1>4, <1>5

\* A string is found by its address.
LEMMA StringFound ==
    ASSUME NEW T, TextsHaveLengths(T), NEW t, Shape(T, t), Ordered(t),
           NEW i \in 1 .. Len(t.symbols), t.symbols[i].type = "STRING"
    PROVE  StringAt(t, t.symbols[i].address) = i
<1>. DEFINE here == {j \in 1 .. Len(t.symbols) :
                        /\ t.symbols[j].type = "STRING"
                        /\ t.symbols[j].address = t.symbols[i].address}
<1>1. Len(t.symbols) \in Nat
  BY DEF Shape
<1>2. \A j \in 1 .. Len(t.symbols) :
          t.symbols[j].address \in Nat /\ Len(t.symbols[j].text) \in Nat
  BY EntryFields DEF Shape
<1>3. ASSUME NEW j \in here, j # i PROVE FALSE
  <2>1. \/ t.symbols[i].address + Len(t.symbols[i].text) < t.symbols[j].address
        \/ t.symbols[j].address + Len(t.symbols[j].text) < t.symbols[i].address
    BY <1>1, <1>3 DEF Ordered
  <2>2. \A p, l \in Nat : ~(p + l < p)
    OBVIOUS
  <2>. QED
    BY <1>2, <2>1, <2>2
<1>4. here = {i}
  <2>1. i \in here
    OBVIOUS
  <2>. HIDE DEF here
  <2>. QED
    BY <1>3, <2>1
<1>5. (CHOOSE j \in here : \A l \in here : j <= l) = i
  <2>. HIDE DEF here
  <2>. QED
    BY <1>4
<1>. QED
  BY <1>4, <1>5 DEF StringAt

----------------------------------------------------------------------------
(* Names. *)

\* A name is in the array once at most.
Unique(t) ==
    \A i, j \in 1 .. Len(t.symbols) : t.symbols[i].name = t.symbols[j].name => i = j

LEMMA UniqueAppend ==
    ASSUME NEW T, NEW t, NEW u, t.symbols \in Seq(Entry(T)), Unique(t),
           NEW s \in Entry(T), Matches(t, s.name) = {}, u.symbols = Append(t.symbols, s)
    PROVE  /\ Unique(u)
           /\ Len(u.symbols) = Len(t.symbols) + 1
           /\ u.symbols[Len(t.symbols) + 1] = s
           /\ \A i \in 1 .. Len(t.symbols) : u.symbols[i] = t.symbols[i]
<1>1. /\ Len(u.symbols) = Len(t.symbols) + 1 /\ Len(t.symbols) \in Nat
      /\ u.symbols[Len(t.symbols) + 1] = s
      /\ \A i \in 1 .. Len(t.symbols) : u.symbols[i] = t.symbols[i]
  OBVIOUS
<1>2. \A i \in 1 .. Len(t.symbols) : t.symbols[i].name # s.name
  BY DEF Matches
<1>3. \A i \in 1 .. Len(u.symbols) : i \in 1 .. Len(t.symbols) \/ i = Len(t.symbols) + 1
  BY <1>1
<1>4. Unique(u)
  BY <1>1, <1>2, <1>3 DEF Unique
<1>. QED
  BY <1>1, <1>4

\* The search finds the one symbol of a name.
LEMMA UniqueFind ==
    ASSUME NEW T, NEW t, t.symbols \in Seq(Entry(T)), Unique(t), NEW i \in 1 .. Len(t.symbols)
    PROVE  Find(t, t.symbols[i].name) = i
<1>1. i \in Matches(t, t.symbols[i].name)
  BY DEF Matches
<1>2. Find(t, t.symbols[i].name) \in Matches(t, t.symbols[i].name)
  BY <1>1, FindMatches
<1>. QED
  BY <1>2 DEF Matches, Unique

\* A definition is refused because the name is there, or the table full.
LEMMA AddedIff ==
    ASSUME NEW T, NEW t, t.symbols \in Seq(Entry(T)), NEW n
    PROVE  Added(t, n) <=> ~Full(t) /\ Matches(t, n) = {}
  BY FindMatches DEF Added
----------------------------------------------------------------------------
(* The table on its own. *)


LEMMA TextsTyped == TextsHaveLengths(Texts)
  BY APIAssumption DEF TextsHaveLengths

SInv == Shape(Texts, table) /\ Ordered(table)

----------------------------------------------------------------------------
(* Strings never share bytes. *)

\* A definition of a label or a constant.
LEMMA PlainDefinition ==
    ASSUME SInv, NEW n \in Names, NEW type \in {"LABEL", "CONSTANT"}, NEW k \in Nat,
           table' = AfterAdd(table, n, type, k, <<>>)
    PROVE  SInv'
<1> DEFINE s == [name |-> Stored[n], type |-> type, address |-> k, text |-> <<>>]
<1>1. /\ Shape(Texts, table')
      /\ table'.next_string_addr = table.next_string_addr
      /\ s \in Entry(Texts)
      /\ table'.symbols = Append(table.symbols, s) \/ table'.symbols = table.symbols
  BY AddCases DEF SInv, SymbolType
<1>2. s.type # "STRING" /\ table.next_string_addr \in Nat
  BY DEF SInv, Shape
<1>3. Ordered(table')
  <2>. HIDE DEF s
  <2>. QED
    BY <1>1, <1>2, AppendOrdered, TextsTyped DEF SInv
<1>. QED
  BY <1>1, <1>3 DEF SInv

LEMMA StringDefinition ==
    ASSUME SInv, NEW n \in Names, NEW text \in Texts,
           table' = AfterDefineString(table, n, text)
    PROVE  SInv'
<1> DEFINE t == Allocated(table, text)
           s == [name |-> Stored[n], type |-> "STRING",
                 address |-> table.next_string_addr, text |-> text]
<1>1. /\ Shape(Texts, t) /\ t.symbols = table.symbols
      /\ t.next_string_addr = table.next_string_addr + Len(text) + 1
      /\ Len(text) \in Nat /\ table.next_string_addr \in Nat
  BY AllocatedShape, TextLength, TextsTyped DEF SInv, Shape
<1>2. /\ Shape(Texts, table')
      /\ table'.next_string_addr = t.next_string_addr
      /\ s \in Entry(Texts)
      /\ table'.symbols = Append(t.symbols, s) \/ table'.symbols = t.symbols
  <2>. HIDE DEF t
  <2>1. table' = AfterAdd(t, n, "STRING", table.next_string_addr, text)
    BY DEF AfterDefineString, t
  <2>. QED
    BY <1>1, <2>1, AddCases DEF SymbolType
<1>3. s.address = table.next_string_addr /\ s.text = text
  OBVIOUS
<1>4. Ordered(table')
  <2>. HIDE DEF s, t
  <2>. QED
    BY <1>1, <1>2, <1>3, AppendOrdered, TextsTyped DEF SInv
<1>. QED
  BY <1>2, <1>4 DEF SInv

LEMMA NextSInv == SInv /\ [TableNext]_tableVars => SInv'
<1>. SUFFICES ASSUME SInv, [TableNext]_tableVars PROVE SInv'
  OBVIOUS
<1>1. ASSUME NEW n \in Names, NEW k \in Numbers, DefineLabel(n, k) \/ DefineConstant(n, k)
      PROVE  SInv'
  BY <1>1, PlainDefinition, APIAssumption
     DEF DefineLabel, DefineConstant, AfterDefineLabel, AfterDefineConstant
<1>2. ASSUME NEW n \in Names, NEW text \in Texts, DefineString(n, text)
      PROVE  SInv'
  BY <1>2, StringDefinition DEF DefineString
<1>3. ASSUME NEW n \in Names, LookUp(n)
      PROVE  SInv'
  BY <1>3, FindKeeps DEF LookUp, SInv, Ordered
<1>4. ASSUME NEW text \in Texts, AllocateString(text)
      PROVE  SInv'
  <2>1. /\ Shape(Texts, table') /\ table'.symbols = table.symbols
        /\ table'.next_string_addr = table.next_string_addr + Len(text) + 1
    BY <1>4, AllocatedShape, TextsTyped DEF AllocateString, SInv
  <2>2. /\ Len(text) \in Nat /\ table.next_string_addr \in Nat
        /\ table.symbols \in Seq(Entry(Texts))
    BY TextLength, TextsTyped DEF SInv, Shape
  <2>3. \A i \in 1 .. Len(table.symbols) :
            table.symbols[i].address \in Nat /\ Len(table.symbols[i].text) \in Nat
    BY <2>2, EntryFields, TextsTyped
  <2>. QED
    BY <2>1, <2>2, <2>3 DEF SInv, Ordered
<1>5. CASE UNCHANGED tableVars
  BY <1>5 DEF tableVars, SInv
<1>. QED
  BY <1>1, <1>2, <1>3, <1>4, <1>5 DEF TableNext

LEMMA InitSInv == TableInit => SInv
  BY SymbolTableAssumption DEF TableInit, EmptySymbolTable, SInv, Shape, Ordered

\* Whatever is called, strings lie in the array in the order of their
\* addresses, below the next free one.
THEOREM SymbolTableInvariance == TableSpec => []SInv
  BY InitSInv, NextSInv, PTL DEF TableSpec

\* No two strings of the table share a byte, whatever was defined, refused or
\* looked up and however names collide or are cut, and a string is found by
\* its address.
THEOREM StringsNeverOverlap == TableSpec => []StringsApart
<1>1. ASSUME SInv PROVE StringsApart
  <2>1. table.symbols \in Seq(Entry(Texts)) /\ table.next_string_addr \in Nat
    BY <1>1 DEF SInv, Shape
  <2>2. \A i \in 1 .. Len(table.symbols) :
            table.symbols[i].address \in Nat /\ Len(table.symbols[i].text) \in Nat
    BY <2>1, EntryFields, TextsTyped
  <2>3. ASSUME NEW i \in StringIndexes
        PROVE  \A a \in StringBytes(table.symbols[i]) : a < table.next_string_addr
    BY <1>1, <2>1, <2>2, <2>3 DEF SInv, Ordered, StringBytes, StringIndexes
  <2>4. ASSUME NEW i \in StringIndexes, NEW j \in StringIndexes \ {i}
        PROVE  StringBytes(table.symbols[i]) \intersect StringBytes(table.symbols[j]) = {}
    <3>1. i \in 1 .. Len(table.symbols) /\ j \in 1 .. Len(table.symbols) /\ i # j
      BY DEF StringIndexes
    <3>2. \/ table.symbols[i].address + Len(table.symbols[i].text) < table.symbols[j].address
          \/ table.symbols[j].address + Len(table.symbols[j].text) < table.symbols[i].address
      BY <1>1, <2>1, <3>1 DEF SInv, Ordered, StringIndexes
    <3>3. ASSUME NEW p \in Nat, NEW m \in Nat, NEW q \in Nat, NEW l \in Nat,
                 p + m < q \/ q + l < p
          PROVE  (p .. p + m) \intersect (q .. q + l) = {}
      BY <3>3
    <3>. QED
      BY <2>2, <3>1, <3>2, <3>3 DEF StringBytes
  <2>5. ASSUME NEW i \in StringIndexes
        PROVE  StringAt(table, table.symbols[i].address) = i
    <3>1. i \in 1 .. Len(table.symbols) /\ table.symbols[i].type = "STRING"
      BY DEF StringIndexes
    <3>. QED
      BY <1>1, <3>1, StringFound, TextsTyped DEF SInv
  <2>. QED
    BY <2>3, <2>4, <2>5 DEF StringsApart
<1>. QED
  BY <1>1, SymbolTableInvariance, PTL

TypeInv == SInv /\ TableTypeOK

LEMMA InitTypeInv == TableInit => TypeInv
<1>. SUFFICES ASSUME TableInit PROVE TableTypeOK
  BY InitSInv DEF TypeInv
<1>1. IsSymbolTable(EmptySymbolTable)
  BY SymbolTableAssumption DEF EmptySymbolTable, IsSymbolTable, None
<1>2. Cardinality({}) <= 1
  BY FS_EmptySet
<1>. QED
  BY <1>1, <1>2 DEF TableInit, TableTypeOK

LEMMA NextTypeInv == TypeInv /\ [TableNext]_tableVars => TypeInv'
<1>. SUFFICES ASSUME TypeInv, [TableNext]_tableVars PROVE TableTypeOK'
  BY NextSInv DEF TypeInv
<1>. Shape(Texts, table) /\ IsSymbolTable(table) /\ TableTypeOK
  BY DEF TypeInv, SInv, TableTypeOK
<1>1. ASSUME NEW n \in Names, NEW k \in Numbers, DefineLabel(n, k) \/ DefineConstant(n, k)
      PROVE  TableTypeOK'
  <2>1. /\ asked' = n /\ accepted' = Added(table, n) /\ result' = {}
        /\ \E type \in {"LABEL", "CONSTANT"} : table' = AfterAdd(table, n, type, k, <<>>)
    BY <1>1 DEF DefineLabel, DefineConstant, AfterDefineLabel, AfterDefineConstant, Answer
  <2>2. IsSymbolTable(table')
    BY <2>1, AddTable, APIAssumption DEF SymbolType
  <2>3. accepted' \in BOOLEAN
    BY <2>1 DEF Added
  <2>. QED
    BY <2>1, <2>2, <2>3, FS_EmptySet DEF TableTypeOK
<1>2. ASSUME NEW n \in Names, NEW text \in Texts, DefineString(n, text)
      PROVE  TableTypeOK'
  <2>. DEFINE t == Allocated(table, text)
  <2>1. /\ asked' = n /\ accepted' = Added(table, n) /\ result' = {}
        /\ table' = AfterAdd(t, n, "STRING", table.next_string_addr, text)
    BY <1>2 DEF DefineString, AfterDefineString, Answer
  <2>2. Shape(Texts, t) /\ IsSymbolTable(t) /\ table.next_string_addr \in Nat
    BY AllocatedShape, AllocatedTable, TextsTyped DEF Shape
  <2>3. IsSymbolTable(table')
    <3>. HIDE DEF t
    <3>. QED
      BY <2>1, <2>2, AddTable DEF SymbolType
  <2>4. accepted' \in BOOLEAN
    BY <2>1 DEF Added
  <2>. QED
    BY <2>1, <2>3, <2>4, FS_EmptySet DEF TableTypeOK
<1>3. ASSUME NEW n \in Names, LookUp(n)
      PROVE  TableTypeOK'
  <2>1. IsSymbolTable(table')
    BY <1>3, FindTable DEF LookUp
  <2>2. asked' = n /\ accepted' = FALSE
    BY <1>3 DEF LookUp, Answer
  <2>3. result' = {} \/ \E s : result' = {s}
    BY <1>3 DEF LookUp, Answer
  <2>4. Cardinality({}) = 0 /\ \A s : Cardinality({s}) = 1
    BY FS_EmptySet, FS_Singleton
  <2>5. Cardinality(result') = 0 \/ Cardinality(result') = 1
    BY <2>3, <2>4, Zenon
  <2>6. Cardinality(result') <= 1
    BY <2>5
  <2>. QED
    BY <2>1, <2>2, <2>6 DEF TableTypeOK
<1>4. ASSUME NEW text \in Texts, AllocateString(text)
      PROVE  TableTypeOK'
  BY <1>4, AllocatedTable, TextsTyped DEF AllocateString, TableTypeOK
<1>5. CASE UNCHANGED tableVars
  BY <1>5 DEF tableVars, TableTypeOK
<1>. QED
  BY <1>1, <1>2, <1>3, <1>4, <1>5 DEF TableNext

\* The array never outgrows its size and the cache never points outside it,
\* whatever is called and however names collide or are cut.
THEOREM SymbolTableTypeCorrect == TableSpec => []TableTypeOK
<1>1. TableSpec => []TypeInv
  BY InitTypeInv, NextTypeInv, PTL DEF TableSpec
<1>. QED
  BY <1>1, PTL DEF TypeInv

----------------------------------------------------------------------------
(* The array with its cache implements the dictionary.                     *)

\* When every name fits its field, a name is in the array once at most: what
\* the search cannot find is not there.  This is what makes the symbol the
\* cache points to, the newest one and the one the dictionary binds the same.
DictInv == TypeInv /\ Unique(table)

\* What a call does to the names and symbols of the array.
Appended(n, s) ==
    /\ s \in Entry(Texts) /\ s.name = n
    /\ Matches(table, n) = {}
    /\ Len(table.symbols) < MaxSymbols
    /\ table'.symbols = Append(table.symbols, s)

LEMMA AppendedOrKept ==
    ASSUME NamesFit, NEW t, Shape(Texts, t), t.symbols = table.symbols, t.hash_table = table.hash_table,
           NEW n \in Names, NEW type \in SymbolType, NEW address \in Nat,
           NEW text \in Texts \union {<<>>}, table' = AfterAdd(t, n, type, address, text)
    PROVE  /\ Added(t, n) <=> Added(table, n)
           /\ Added(table, n) => \E s : Appended(n, s)
           /\ ~Added(table, n) =>
                 /\ table'.symbols = table.symbols
                 /\ Matches(table, n) # {} \/ Len(table.symbols) >= MaxSymbols
<1>. DEFINE s == [name |-> Stored[n], type |-> type, address |-> address, text |-> text]
<1>1. /\ Added(t, n) <=> Added(table, n)
      /\ Matches(t, n) = Matches(table, n)
  BY DEF Added, Full, Find, CacheHit, CachedIndex, Matches, LastMatch
<1>2. /\ s \in Entry(Texts) /\ s.name = n
      /\ Added(t, n) => table'.symbols = Append(t.symbols, s)
      /\ ~Added(t, n) => table'.symbols = t.symbols
  BY AddCases DEF NamesFit
<1>3. /\ Find(t, n) = None <=> Matches(t, n) = {}
      /\ Len(t.symbols) \in Nat
  BY FindMatches DEF Shape
<1>. HIDE DEF s
<1>4. /\ Added(t, n) => Matches(t, n) = {} /\ Len(t.symbols) < MaxSymbols
      /\ ~Added(t, n) => Matches(t, n) # {} \/ Len(t.symbols) >= MaxSymbols
  BY <1>3, SymbolTableAssumption DEF Added, Full
<1>. QED
  BY <1>1, <1>2, <1>4 DEF Appended

\* Uniqueness survives.
LEMMA AppendedUnique ==
    ASSUME table.symbols \in Seq(Entry(Texts)), Unique(table), NEW n, NEW s, Appended(n, s)
    PROVE  /\ Unique(table')
           /\ Len(table'.symbols) = Len(table.symbols) + 1
           /\ table'.symbols[Len(table.symbols) + 1] = s
           /\ \A i \in 1 .. Len(table.symbols) : table'.symbols[i] = table.symbols[i]
  BY UniqueAppend DEF Appended

\* The definitions of the three kinds, seen as one: the answer, and what
\* happens to the array.
LEMMA DefinitionStep ==
    ASSUME NamesFit, TypeInv, NEW n \in Names,
           \/ \E k \in Numbers : DefineLabel(n, k) \/ DefineConstant(n, k)
           \/ \E text \in Texts : DefineString(n, text)
    PROVE  /\ asked' = n /\ result' = {}
           /\ \/ accepted' = TRUE /\ \E s : Appended(n, s)
              \/ /\ accepted' = FALSE /\ table'.symbols = table.symbols
                 /\ Matches(table, n) # {} \/ Len(table.symbols) >= MaxSymbols
<1>. Shape(Texts, table)
  BY DEF TypeInv, SInv
<1>1. CASE \E k \in Numbers : DefineLabel(n, k) \/ DefineConstant(n, k)
  <2>1. PICK k \in Numbers, type \in {"LABEL", "CONSTANT"} :
            /\ asked' = n /\ accepted' = Added(table, n) /\ result' = {}
            /\ table' = AfterAdd(table, n, type, k, <<>>)
    BY <1>1 DEF DefineLabel, DefineConstant, AfterDefineLabel, AfterDefineConstant, Answer
  <2>2. Added(table, n) \in BOOLEAN
    BY DEF Added
  <2>. QED
    BY <2>1, <2>2, AppendedOrKept, APIAssumption DEF SymbolType
<1>2. CASE \E text \in Texts : DefineString(n, text)
  <2>1. PICK text \in Texts :
            /\ asked' = n /\ accepted' = Added(table, n) /\ result' = {}
            /\ table' = AfterAdd(Allocated(table, text), n, "STRING",
                                 table.next_string_addr, text)
    BY <1>2 DEF DefineString, AfterDefineString, Answer
  <2>. DEFINE t == Allocated(table, text)
  <2>2. Shape(Texts, t) /\ t.symbols = table.symbols /\ t.hash_table = table.hash_table
        /\ table.next_string_addr \in Nat
    BY AllocatedShape, TextsTyped DEF Shape
  <2>3. Added(table, n) \in BOOLEAN
    BY DEF Added
  <2>. HIDE DEF t
  <2>4. table' = AfterAdd(t, n, "STRING", table.next_string_addr, text)
    BY <2>1 DEF t
  <2>. QED
    BY <2>1, <2>2, <2>3, <2>4, AppendedOrKept DEF SymbolType
<1>. QED
  BY <1>1, <1>2

LEMMA DictInvStep ==
    ASSUME NamesFit, DictInv, [TableNext]_tableVars
    PROVE  DictInv'
<1>. TypeInv /\ Unique(table) /\ Shape(Texts, table) /\ table.symbols \in Seq(Entry(Texts))
  BY DEF DictInv, TypeInv, SInv, Shape
<1>. SUFFICES Unique(table')
  BY NextTypeInv DEF DictInv
<1>1. ASSUME NEW n \in Names,
             \/ \E k \in Numbers : DefineLabel(n, k) \/ DefineConstant(n, k)
             \/ \E text \in Texts : DefineString(n, text)
      PROVE  Unique(table')
  BY <1>1, DefinitionStep, AppendedUnique DEF Unique
<1>2. ASSUME NEW n \in Names, LookUp(n)
      PROVE  Unique(table')
  BY <1>2, FindKeeps DEF LookUp, Unique
<1>3. ASSUME NEW text \in Texts, AllocateString(text)
      PROVE  Unique(table')
  BY <1>3, AllocatedShape, TextsTyped DEF AllocateString, Unique
<1>4. CASE UNCHANGED tableVars
  BY <1>4 DEF tableVars
<1>. QED
  BY <1>1, <1>2, <1>3, <1>4 DEF TableNext

----------------------------------------------------------------------------
(* The refinement mapping. *)

\* The name of a symbol is bound to that symbol.
LEMMA PositionOf ==
    ASSUME Unique(table), NEW i \in 1 .. Len(table.symbols)
    PROVE  /\ table.symbols[i].name \in DefinedNames
           /\ Position(table.symbols[i].name) = i
           /\ Bindings[table.symbols[i].name] = table.symbols[i]
<1>1. table.symbols[i].name \in DefinedNames
  BY DEF DefinedNames
<1>2. Position(table.symbols[i].name) = i
  BY DEF Position, Unique
<1>. QED
  BY <1>1, <1>2 DEF Bindings

\* As many names are bound as the array has symbols.
LEMMA BoundCount ==
    ASSUME Unique(table), Len(table.symbols) \in Nat
    PROVE  Cardinality(DefinedNames) = Len(table.symbols)
<1>. DEFINE I == 1 .. Len(table.symbols)
            f == [i \in I |-> table.symbols[i].name]
<1>1. f \in Bijection(I, DefinedNames)
  BY DEF Bijection, Injection, Surjection, IsInjective, Unique, DefinedNames
<1>2. ExistsBijection(I, DefinedNames)
  BY <1>1, Zenon DEF ExistsBijection
<1>. QED
  BY <1>2, FS_CountingElements

\* What the array holds decides the bindings.
LEMMA SameBindings ==
    ASSUME table'.symbols = table.symbols
    PROVE  Bindings' = Bindings
  BY DEF Bindings, DefinedNames, Position

LEMMA BoundIffMatched ==
    ASSUME NEW n
    PROVE  n \in DefinedNames <=> Matches(table, n) # {}
  BY DEF DefinedNames, Matches

\* The dictionary's Cardinality is the operator of FiniteSets.
LEMMA SameCardinality == \A S : Contract!Cardinality(S) = Cardinality(S)
  BY DEF Contract!Cardinality, Cardinality

\* A definition that is accepted binds its name, and nothing else.
LEMMA DefineRefines ==
    ASSUME DictInv, NEW n \in Names, NEW s, Appended(n, s),
           asked' = n, accepted' = TRUE, result' = {}
    PROVE  Contract!Define(n)
<1>. Unique(table) /\ table.symbols \in Seq(Entry(Texts)) /\ Len(table.symbols) \in Nat
  BY DEF DictInv, TypeInv, SInv, Shape
<1>1. /\ Unique(table')
      /\ Len(table'.symbols) = Len(table.symbols) + 1
      /\ table'.symbols[Len(table.symbols) + 1] = s
      /\ \A i \in 1 .. Len(table.symbols) : table'.symbols[i] = table.symbols[i]
  BY AppendedUnique
<1>2. n \notin DefinedNames /\ Cardinality(DefinedNames) < MaxSymbols
  BY BoundIffMatched, BoundCount DEF Appended
<1>3. DefinedNames' = DefinedNames \union {n}
  BY <1>1 DEF DefinedNames, Appended
<1>4. ASSUME NEW i \in 1 .. Len(table'.symbols), NEW m, table'.symbols[i].name = m
      PROVE  Bindings'[m] = table'.symbols[i]
  <2>1. Position(m)' = i
    BY <1>1, <1>4 DEF Position, Unique
  <2>2. m \in DefinedNames'
    BY <1>4 DEF DefinedNames
  <2>. QED
    BY <2>1, <2>2 DEF Bindings
<1>5. Bindings'[n] = s
  <2>1. Len(table.symbols) + 1 \in 1 .. Len(table'.symbols)
    BY <1>1
  <2>. QED
    BY <1>1, <1>4, <2>1 DEF Appended
<1>6. ASSUME NEW m \in DefinedNames PROVE Bindings'[m] = Bindings[m]
  <2>1. PICK i \in 1 .. Len(table.symbols) : table.symbols[i].name = m
    BY DEF DefinedNames
  <2>2. Bindings[m] = table.symbols[i]
    BY <2>1, PositionOf
  <2>3. i \in 1 .. Len(table'.symbols) /\ table'.symbols[i] = table.symbols[i]
    BY <1>1
  <2>. QED
    BY <1>4, <2>1, <2>2, <2>3
<1>7. DOMAIN Bindings = DefinedNames /\ DOMAIN Bindings' = DefinedNames'
  BY DEF Bindings
<1>. QED
  BY <1>2, <1>3, <1>5, <1>6, <1>7, SameCardinality
     DEF Contract!Define, Contract!Bound, Appended, Entry

\* A definition is refused for a name that is bound or for lack of room.
LEMMA RefuseRefines ==
    ASSUME DictInv, NEW n \in Names, table'.symbols = table.symbols,
           Matches(table, n) # {} \/ Len(table.symbols) >= MaxSymbols,
           asked' = n, accepted' = FALSE, result' = {}
    PROVE  Contract!Refuse(n)
<1>. Unique(table) /\ Len(table.symbols) \in Nat
  BY DEF DictInv, TypeInv, SInv, Shape
<1>1. n \in DefinedNames \/ Cardinality(DefinedNames) >= MaxSymbols
  BY BoundIffMatched, BoundCount
<1>2. DOMAIN Bindings = DefinedNames
  BY DEF Bindings
<1>. QED
  BY <1>1, <1>2, SameBindings, SameCardinality DEF Contract!Refuse, Contract!Bound

\* A search answers with the binding, whatever the cache held.
LEMMA LookupRefines ==
    ASSUME DictInv, NEW n \in Names, LookUp(n)
    PROVE  Contract!Lookup(n)
<1>. Unique(table) /\ table.symbols \in Seq(Entry(Texts)) /\ Shape(Texts, table)
  BY DEF DictInv, TypeInv, SInv, Shape
<1>1. /\ asked' = n /\ accepted' = FALSE
      /\ result' = IF Find(table, n) = None THEN {} ELSE {table.symbols[Find(table, n)]}
      /\ table'.symbols = table.symbols
  BY FindKeeps DEF LookUp, Answer
<1>2. DOMAIN Bindings = DefinedNames
  BY DEF Bindings
<1>3. CASE Find(table, n) = None
  <2>1. n \notin DefinedNames
    BY <1>3, FindMatches, BoundIffMatched
  <2>. QED
    BY <1>1, <1>2, <1>3, <2>1, SameBindings DEF Contract!Lookup, Contract!Bound
<1>4. CASE Find(table, n) # None
  <2>. DEFINE i == Find(table, n)
  <2>1. i \in 1 .. Len(table.symbols) /\ table.symbols[i].name = n
    BY <1>4, FindMatches DEF Matches
  <2>. HIDE DEF i
  <2>2. n \in DefinedNames /\ Bindings[n] = table.symbols[i]
    BY <2>1, PositionOf
  <2>3. result' = {table.symbols[i]}
    BY <1>1, <1>4 DEF i
  <2>4. {Bindings[m] : m \in DefinedNames \intersect {n}} = {table.symbols[i]}
    BY <2>2
  <2>. QED
    BY <1>1, <1>2, <2>3, <2>4, SameBindings DEF Contract!Lookup, Contract!Bound
<1>. QED
  BY <1>3, <1>4

LEMMA StepRefines ==
    ASSUME NamesFit, DictInv, [TableNext]_tableVars
    PROVE  [Contract!Next]_<<Bindings, asked, accepted, result>>
<1>1. ASSUME NEW n \in Names,
             \/ \E k \in Numbers : DefineLabel(n, k) \/ DefineConstant(n, k)
             \/ \E text \in Texts : DefineString(n, text)
      PROVE  Contract!Next
  BY <1>1, DefinitionStep, DefineRefines, RefuseRefines DEF Contract!Next, DictInv
<1>2. ASSUME NEW n \in Names, LookUp(n)
      PROVE  Contract!Next
  BY <1>2, LookupRefines DEF Contract!Next
<1>3. ASSUME NEW text \in Texts, AllocateString(text)
      PROVE  UNCHANGED <<Bindings, asked, accepted, result>>
  BY <1>3, AllocatedShape, TextsTyped, SameBindings DEF AllocateString, DictInv, TypeInv, SInv
<1>4. CASE UNCHANGED tableVars
  BY <1>4, SameBindings DEF tableVars
<1>. QED
  BY <1>1, <1>2, <1>3, <1>4 DEF TableNext

LEMMA InitRefines == TableInit => Unique(table) /\ Contract!Init
<1>. SUFFICES ASSUME TableInit PROVE Unique(table) /\ Contract!Init
  OBVIOUS
<1>1. 1 .. Len(table.symbols) = {}
  BY DEF TableInit, EmptySymbolTable
<1>2. DOMAIN Bindings = {}
  BY <1>1 DEF Bindings, DefinedNames
<1>. QED
  BY <1>1, <1>2 DEF TableInit, Unique, Contract!Init, Contract!Bound

\* When every name fits its field, the array with the cache in front of it is
\* a dictionary: a name is bound once, a definition is refused for a bound
\* name or a full array only, and a search answers with the binding, whatever
\* was defined, refused or looked up before and however names collide.
THEOREM TableIsDictionary ==
    ASSUME NamesFit
    PROVE  TableSpec => ImplementsDictionary
<1>1. TableInit => DictInv /\ Contract!Init
  BY InitRefines, InitTypeInv DEF DictInv
<1>2. DictInv /\ [TableNext]_tableVars => DictInv'
  BY DictInvStep
<1>3. DictInv /\ [TableNext]_tableVars => [Contract!Next]_<<Bindings, asked, accepted, result>>
  BY StepRefines
<1>. QED
  BY <1>1, <1>2, <1>3, PTL DEF TableSpec, ImplementsDictionary, Contract!Spec
=============================================================================

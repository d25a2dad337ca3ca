------------------------------ MODULE SymbolMap ------------------------------
(***************************************************************************)
(* What a hash table of syntax/ast/hash.c promises: a map from keys to     *)
(* symbols.  A key that is there keeps its entry until the table is reset; *)
(* inserting it again gives that entry when the symbol is the same and     *)
(* nothing when it is not.                                                 *)
(***************************************************************************)
CONSTANTS Keys, Symbols, Absent, Unbound       \* Unbound: no table yet

VARIABLES
  symbol,       \* symbol[key], Absent when the table has no such key
  call          \* the last call that returned

vars == <<symbol, call>>

Empty == [key \in Keys |-> Absent]

Returns(op, key, ret) == call' = [op |-> op, key |-> key, ret |-> ret]

Init == symbol = Empty /\ call = [op |-> "none", key |-> Unbound, ret |-> Absent]

\* the entry there is, unless the symbol differs; a new entry otherwise
Insert(key, sym) ==
  /\ symbol' = IF symbol[key] = Absent THEN [symbol EXCEPT ![key] = sym] ELSE symbol
  /\ Returns("insert", key, IF symbol'[key] = sym THEN sym ELSE Absent)

Lookup(key) == Returns("lookup", key, symbol[key]) /\ UNCHANGED symbol

\* the owner of an entry changes its symbol
Retag(key, sym) == /\ symbol[key] # Absent
                   /\ symbol' = [symbol EXCEPT ![key] = sym]
                   /\ UNCHANGED call

Reset == symbol' = Empty /\ Returns("reset", Unbound, Absent)

Next == \/ \E key \in Keys : \/ \E sym \in Symbols : Insert(key, sym) \/ Retag(key, sym)
                             \/ Lookup(key)
        \/ Reset

Spec == Init /\ [][Next]_vars
=============================================================================

------------------------------- MODULE Scopes -------------------------------
(***************************************************************************)
(* The scopes of syntax/ast/scope.c, as ast.c hands them to the parser:    *)
(* a chain of scopes, each with a hash table of its own, made once and     *)
(* entered again and again.  A table is the map HashTable implements.      *)
(*                                                                         *)
(* The client keeps one rule: a scope that was left uncleared is entered   *)
(* again or cleared before the scope around it is left.                    *)
(***************************************************************************)
EXTENDS Integers, FiniteSets

CONSTANTS
  Names, Types,
  Identifier,   \* IDENTIFIER
  Absent,       \* no such node in a table
  MaxScopes     \* bound on the scopes made

ASSUME ScopesAssumption == Absent \notin Types \cup {Identifier} /\ MaxScopes \in Nat \ {0}

VARIABLES
  phase,        \* "live", then "freed"
  made,         \* scopes in the chain; scope i + 1 is the child of scope i
  at,           \* ast->scope
  symbols,      \* symbols[i]: name -> type
  cleared,      \* cleared[i]
  answer,       \* what check_type () returned last
  freed         \* the tables ast_free () has freed, in its order

vars == <<phase, made, at, symbols, cleared, answer, freed>>

Scopes == 1 .. made
NoSymbols == [x \in Names |-> Absent]

\* ast_init ()
Init == /\ phase = "live" /\ made = 1 /\ at = 1
        /\ symbols = [i \in 1 .. 1 |-> NoSymbols] /\ cleared = [i \in 1 .. 1 |-> FALSE]
        /\ answer = Identifier /\ freed = <<>>

\* AST_DECLARATION, AST_TYPE: hash_insert () finds nothing but a name of this scope
Declare(x, type) ==
  /\ phase = "live"
  /\ symbols' = IF symbols[at][x] = Absent THEN [symbols EXCEPT ![at][x] = type] ELSE symbols
  /\ UNCHANGED <<phase, made, at, cleared, answer, freed>>

\* check_type (): from the scope to its parents, to the first table that has the name
Having(x) == {i \in 1 .. at : symbols[i][x] # Absent}

MeetsLast(x, i) == i \in Having(x) /\ \A j \in Having(x) : i <= j      \* mutant: from scope 0 on
Meets(x, i)     == i \in Having(x) /\ \A j \in Having(x) : j <= i

CheckType(x) ==
  /\ phase = "live"
  /\ \/ Having(x) = {} /\ answer' = Identifier
     \/ \E i \in Scopes : Meets(x, i) /\ answer' = symbols[i][x]
  /\ UNCHANGED <<phase, made, at, symbols, cleared, freed>>

\* scope_push (): the child there is, or a new one at the end of the chain
Enter ==
  /\ phase = "live" /\ at < made
  /\ at' = at + 1
  /\ UNCHANGED <<phase, made, symbols, cleared, answer, freed>>

Grow ==
  /\ phase = "live" /\ at = made /\ made < MaxScopes
  /\ made' = made + 1 /\ at' = made'
  /\ symbols' = [i \in 1 .. made' |-> IF i = made' THEN NoSymbols ELSE symbols[i]]
  /\ cleared' = [i \in 1 .. made' |-> IF i = made' THEN FALSE ELSE cleared[i]]
  /\ UNCHANGED <<phase, answer, freed>>

\* the rule of the client
MayLeave == at < made => cleared[at + 1]

\* scope_pop ()
Pop(clear) ==
  /\ phase = "live" /\ at > 1 /\ MayLeave
  /\ symbols' = IF clear THEN [symbols EXCEPT ![at] = NoSymbols] ELSE symbols
  /\ cleared' = [cleared EXCEPT ![at] = clear]
  /\ at' = at - 1
  /\ UNCHANGED <<phase, made, answer, freed>>

\* mutant: the child is told cleared, its table keeps what it has
ClearFlagOnly ==
  /\ phase = "live" /\ at < made
  /\ cleared' = [cleared EXCEPT ![at + 1] = TRUE]
  /\ UNCHANGED <<phase, made, at, symbols, answer, freed>>

\* scope_clear (): the child's table, unless it is empty already
Clear ==
  /\ phase = "live" /\ at < made
  /\ symbols' = IF cleared[at + 1] THEN symbols ELSE [symbols EXCEPT ![at + 1] = NoSymbols]
  /\ cleared' = [cleared EXCEPT ![at + 1] = TRUE]
  /\ UNCHANGED <<phase, made, at, answer, freed>>

\* ast_free (): the tables of the children, then this one and those of the parents
ReleasedFromRoot == [i \in Scopes |-> IF i <= made - at THEN at + i ELSE i]      \* mutant
Released == [i \in Scopes |-> IF i <= made - at THEN at + i ELSE made + 1 - i]

Free ==
  /\ phase = "live" /\ phase' = "freed"
  /\ freed' = Released
  /\ UNCHANGED <<made, at, symbols, cleared, answer>>

Next ==
  \/ \E x \in Names : CheckType(x) \/ \E type \in Types : Declare(x, type)
  \/ Enter \/ Grow \/ \E clear \in BOOLEAN : Pop(clear)
  \/ Clear \/ Free

Spec == Init /\ [][Next]_vars
-----------------------------------------------------------------------------
(***************************************************************************)
(* Properties                                                              *)
(***************************************************************************)
TablesFreed == /\ DOMAIN freed = Scopes
               /\ \A i \in Scopes : \E j \in Scopes : freed[j] = i
               /\ \A j, k \in Scopes : freed[j] = freed[k] => j = k

\* Types, and ast_free () frees the table of every scope, wherever the parser stopped,
\* and none twice.
TypeOK ==
  /\ phase \in {"live", "freed"} /\ made \in Nat \ {0} /\ at \in Scopes
  /\ symbols \in [Scopes -> [Names -> Types \cup {Absent}]] /\ cleared \in [Scopes -> BOOLEAN]
  /\ answer \in Types \cup {Identifier}
  /\ phase = "freed" => TablesFreed

\* Scopes are reused with their tables.  Behind the child of the current scope
\* every table is empty, and the child's is if it says so: nothing declared before
\* comes back when these scopes are entered again.
ReusedEmpty ==
  \A i \in Scopes : /\ i = at + 1 /\ cleared[i] => symbols[i] = NoSymbols
                    /\ i > at + 1 => cleared[i] /\ symbols[i] = NoSymbols

\* The reused tables show the parser what a nest of scopes would: a name means its
\* declaration in the innermost open scope, and a scope entered anew has none.
InNest == INSTANCE Nest WITH
  depth <- at,
  scope <- [i \in 1 .. at |-> symbols[i]],
  aside <- IF at < made THEN symbols[at + 1] ELSE NoSymbols

ImplementsNest == InNest!Spec
=============================================================================

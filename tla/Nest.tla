-------------------------------- MODULE Nest --------------------------------
(***************************************************************************)
(* What nested scopes promise: a name means its declaration in the         *)
(* innermost open scope that has one; a scope starts without names, or     *)
(* with those of the scope just left when that one was set aside for it.   *)
(***************************************************************************)
EXTENDS Integers

CONSTANTS
  Names, Types,
  Identifier,   \* the answer for a name that is not declared
  Absent

VARIABLES
  depth,        \* open scopes
  scope,        \* scope[i]: the types of the names declared in the i-th
  aside,        \* the names of a scope left and set aside
  answer        \* to the last question

None == [x \in Names |-> Absent]

\* the first declaration of a name in a scope stands
Declared(names, x, type) == IF names[x] = Absent THEN [names EXCEPT ![x] = type] ELSE names

Levels(x) == {i \in 1 .. depth : scope[i][x] # Absent}

Init == depth = 1 /\ scope = [i \in 1 .. 1 |-> None] /\ aside = None /\ answer = Identifier

Declare(x, type) ==
  /\ scope' = [scope EXCEPT ![depth] = Declared(@, x, type)]
  /\ UNCHANGED <<depth, aside, answer>>

Ask(x) ==
  /\ \/ Levels(x) = {} /\ answer' = Identifier
     \/ \E i \in Levels(x) : (\A j \in Levels(x) : j <= i) /\ answer' = scope[i][x]
  /\ UNCHANGED <<depth, scope, aside>>

Enter ==
  /\ depth' = depth + 1
  /\ scope' = [i \in 1 .. depth + 1 |-> IF i = depth + 1 THEN aside ELSE scope[i]]
  /\ aside' = None
  /\ UNCHANGED answer

Leave(kept) ==
  /\ depth > 1 /\ aside = None
  /\ depth' = depth - 1
  /\ scope' = [i \in 1 .. depth - 1 |-> scope[i]]
  /\ aside' = IF kept THEN scope[depth] ELSE None
  /\ UNCHANGED answer

Drop == aside' = None /\ UNCHANGED <<depth, scope, answer>>

Next == \/ \E x \in Names : Ask(x) \/ \E type \in Types : Declare(x, type)
        \/ Enter \/ Drop \/ \E kept \in BOOLEAN : Leave(kept)

Spec == Init /\ [][Next]_<<depth, scope, aside, answer>>
=============================================================================

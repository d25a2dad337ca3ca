---------------------------- MODULE ScopesProofs ----------------------------
(***************************************************************************)
(* For any names, types and number of scopes: the tables that are reused   *)
(* hold nothing they should not, every table is freed once, and the chain  *)
(* of scopes implements a nest.                                            *)
(***************************************************************************)
EXTENDS Scopes, TLAPS

\* what ReusedEmpty needs to be inductive
IInv == TypeOK /\ ReusedEmpty

\* ast_free () runs from the child of the current scope to the end of the chain, then
\* from the current scope back to scope 0: each scope is met at one place.
LEMMA ReleasedEach ==
  ASSUME made \in Nat \ {0}, at \in Scopes
  PROVE  /\ DOMAIN Released = Scopes
         /\ \A i \in Scopes : \E j \in Scopes : Released[j] = i
         /\ \A j, k \in Scopes : Released[j] = Released[k] => j = k
<1>1. DOMAIN Released = Scopes
  BY DEF Released
<1>2. ASSUME NEW i \in Scopes PROVE \E j \in Scopes : Released[j] = i
  <2>1. CASE i > at
    <3>1. i - at \in Scopes /\ Released[i - at] = i
      BY <2>1, <1>2 DEF Scopes, Released
    <3>2. QED BY <3>1
  <2>2. CASE ~(i > at)
    <3>1. made + 1 - i \in Scopes /\ Released[made + 1 - i] = i
      BY <2>2, <1>2 DEF Scopes, Released
    <3>2. QED BY <3>1
  <2>3. QED BY <2>1, <2>2
<1>3. ASSUME NEW j \in Scopes, NEW k \in Scopes, Released[j] = Released[k] PROVE j = k
  BY <1>3 DEF Scopes, Released
<1>4. QED BY <1>1, <1>2, <1>3

LEMMA InitInv == Init => IInv
  BY ScopesAssumption DEF Init, IInv, TypeOK, ReusedEmpty, Scopes, NoSymbols

\* the tables are maps throughout, and ast_free () meets each once
LEMMA StepTypes == TypeOK /\ [Next]_vars => TypeOK'
<1> SUFFICES ASSUME TypeOK, [Next]_vars PROVE TypeOK'
  OBVIOUS
<1>0. NoSymbols \in [Names -> Types \cup {Absent}]
  BY DEF NoSymbols
<1>1. ASSUME NEW x \in Names, NEW type \in Types, Declare(x, type) PROVE TypeOK'
  BY <1>1 DEF Declare, TypeOK, Scopes
<1>2. ASSUME NEW x \in Names, CheckType(x) PROVE TypeOK'
  BY <1>2 DEF CheckType, TypeOK, Scopes, Meets, Having
<1>3. CASE Enter
  BY <1>3 DEF Enter, TypeOK, Scopes
<1>4. CASE Grow
  <2>1. made' \in Nat \ {0} /\ at' \in 1 .. made'
    BY <1>4 DEF Grow, TypeOK, Scopes
  <2>2. symbols' \in [1 .. made' -> [Names -> Types \cup {Absent}]]
    BY <1>0, <1>4 DEF Grow, TypeOK, Scopes
  <2>3. cleared' \in [1 .. made' -> BOOLEAN]
    <3>1. \A i \in 1 .. made' : i = made' \/ i \in Scopes
      BY <1>4 DEF Grow, TypeOK, Scopes
    <3>2. cleared \in [Scopes -> BOOLEAN]
      BY DEF TypeOK
    <3>3. cleared' = [i \in 1 .. made' |-> IF i = made' THEN FALSE ELSE cleared[i]]
      BY <1>4 DEF Grow
    <3>4. QED BY <3>1, <3>2, <3>3, Zenon
  <2>4. phase' = "live" /\ answer' \in Types \cup {Identifier}
    BY <1>4 DEF Grow, TypeOK
  <2>5. QED BY <2>1, <2>2, <2>3, <2>4 DEF TypeOK, Scopes
<1>5. ASSUME NEW clear \in BOOLEAN, Pop(clear) PROVE TypeOK'
  BY <1>0, <1>5 DEF Pop, TypeOK, Scopes
<1>6. CASE Clear
  BY <1>0, <1>6 DEF Clear, TypeOK, Scopes
<1>7. CASE Free
  <2>1. TablesFreed'
    BY <1>7, ReleasedEach DEF Free, TablesFreed, TypeOK, Scopes
  <2>2. QED BY <1>7, <2>1 DEF Free, TypeOK, Scopes
<1>8. CASE UNCHANGED vars
  BY <1>8 DEF vars, TypeOK, Scopes, TablesFreed
<1>9. QED
  BY <1>1, <1>2, <1>3, <1>4, <1>5, <1>6, <1>7, <1>8 DEF Next

\* Entering and clearing move the border between the tables in use and the empty
\* ones by one scope; leaving moves it back, and the rule of the client says that the
\* table beyond the border is empty then.
LEMMA StepReused == IInv /\ [Next]_vars => ReusedEmpty'
<1> SUFFICES ASSUME TypeOK, ReusedEmpty, [Next]_vars PROVE ReusedEmpty'
  BY DEF IInv
<1>1. ASSUME NEW x \in Names, NEW type \in Types, Declare(x, type) PROVE ReusedEmpty'
  BY <1>1 DEF Declare, TypeOK, ReusedEmpty, Scopes
<1>2. ASSUME NEW x \in Names, CheckType(x) PROVE ReusedEmpty'
  BY <1>2 DEF CheckType, ReusedEmpty, Scopes
<1>3. CASE Enter
  BY <1>3 DEF Enter, TypeOK, ReusedEmpty, Scopes
<1>4. CASE Grow
  BY <1>4 DEF Grow, TypeOK, ReusedEmpty, Scopes
<1>5. ASSUME NEW clear \in BOOLEAN, Pop(clear) PROVE ReusedEmpty'
  BY <1>5 DEF Pop, MayLeave, TypeOK, ReusedEmpty, Scopes
<1>6. CASE Clear
  BY <1>6 DEF Clear, TypeOK, ReusedEmpty, Scopes
<1>7. CASE Free
  BY <1>7 DEF Free, ReusedEmpty, Scopes
<1>8. CASE UNCHANGED vars
  BY <1>8 DEF vars, ReusedEmpty, Scopes
<1>9. QED
  BY <1>1, <1>2, <1>3, <1>4, <1>5, <1>6, <1>7, <1>8 DEF Next

\* Types hold, and ast_free () frees every table once.
THEOREM TypeCorrect == Spec => []TypeOK
<1>1. Init => TypeOK
  BY InitInv DEF IInv
<1>2. QED BY <1>1, StepTypes, PTL DEF Spec

\* The types and the emptiness of what is reused are inductive together.
THEOREM Invariance == Spec => []IInv
<1>1. IInv /\ [Next]_vars => IInv'
  BY StepTypes, StepReused DEF IInv
<1>2. QED BY InitInv, <1>1, PTL DEF Spec

\* Nothing declared in a scope comes back when it is entered again.
THEOREM Reuse == Spec => []ReusedEmpty
<1>1. IInv => ReusedEmpty
  BY DEF IInv
<1>2. QED BY Invariance, <1>1, PTL

(***************************************************************************)
(* The chain implements the nest                                           *)
(***************************************************************************)
\* the maps a nest sees: the open scopes, and what was set aside behind them
Open  == [i \in 1 .. at |-> symbols[i]]
Aside == IF at < made THEN symbols[at + 1] ELSE NoSymbols

LEMMA NestInit == Init => InNest!Init
<1> SUFFICES ASSUME Init PROVE InNest!Init
  OBVIOUS
<1>1. [i \in 1 .. at |-> symbols[i]] = [i \in 1 .. 1 |-> NoSymbols]
  BY DEF Init
<1>2. QED
  BY <1>1 DEF Init, InNest!Init, InNest!None, NoSymbols

\* Each call is what it seems to be on the nest.  Entering is one operation whether the
\* scope is found or made; leaving uncleared sets the scope aside.
LEMMA NestStep == IInv /\ [Next]_vars => [InNest!Next]_<<at, Open, Aside, answer>>
<1> SUFFICES ASSUME TypeOK, ReusedEmpty, [Next]_vars
             PROVE  InNest!Next \/ UNCHANGED <<at, Open, Aside, answer>>
  BY DEF IInv
<1>1. ASSUME NEW x \in Names, NEW type \in Types, Declare(x, type) PROVE InNest!Declare(x, type)
  <2>1. at \in 1 .. at /\ at \in Nat /\ at' = at /\ made' = made
    BY <1>1 DEF Declare, TypeOK, Scopes
  <2>2. \A i \in 1 .. at : symbols'[i] = IF i = at THEN InNest!Declared(symbols[i], x, type)
                                                   ELSE symbols[i]
    BY <1>1 DEF Declare, InNest!Declared, TypeOK, Scopes
  <2>3. at < made => symbols'[at + 1] = symbols[at + 1]
    BY <1>1 DEF Declare, TypeOK, Scopes
  <2>4. [i \in 1 .. at' |-> symbols'[i]]
          = [[i \in 1 .. at |-> symbols[i]] EXCEPT ![at] = InNest!Declared(@, x, type)]
    BY <2>1, <2>2
  <2>5. QED BY <1>1, <2>1, <2>3, <2>4 DEF Declare, InNest!Declare, InNest!None, NoSymbols
<1>2. ASSUME NEW x \in Names, CheckType(x) PROVE InNest!Ask(x)
  BY <1>2 DEF CheckType, Meets, Having, InNest!Ask, InNest!Levels, TypeOK, Scopes
<1>3. ASSUME Enter PROVE InNest!Enter
  <2>1. at' = at + 1 /\ made' = made /\ at < made /\ at \in Nat /\ symbols' = symbols /\ answer' = answer
    BY <1>3 DEF Enter, TypeOK, Scopes
  <2>2. at' < made' => symbols[at' + 1] = NoSymbols
    BY <1>3, <2>1 DEF TypeOK, ReusedEmpty, Scopes
  <2>3. [i \in 1 .. at' |-> symbols'[i]]
          = [i \in 1 .. at + 1 |-> IF i = at + 1 THEN symbols[at + 1] ELSE [j \in 1 .. at |-> symbols[j]][i]]
    BY <2>1
  <2>4. QED BY <2>1, <2>2, <2>3 DEF InNest!Enter, InNest!None, NoSymbols
<1>4. ASSUME Grow PROVE InNest!Enter
  <2>1. at' = at + 1 /\ made' = at' /\ at = made /\ at \in Nat /\ answer' = answer
    BY <1>4 DEF Grow, TypeOK, Scopes
  <2>2. symbols' = [i \in 1 .. at + 1 |-> IF i = at + 1 THEN NoSymbols ELSE symbols[i]]
    BY <1>4, <2>1 DEF Grow
  <2>3. [i \in 1 .. at' |-> symbols'[i]]
          = [i \in 1 .. at + 1 |-> IF i = at + 1 THEN NoSymbols ELSE [j \in 1 .. at |-> symbols[j]][i]]
    BY <2>1, <2>2
  <2>4. ~(at < made) /\ ~(at' < made')
    BY <2>1
  <2>5. QED BY <2>1, <2>3, <2>4 DEF InNest!Enter, InNest!None, NoSymbols
<1>5. ASSUME NEW clear \in BOOLEAN, Pop(clear) PROVE InNest!Leave(~clear)
  <2>1. at \in Nat /\ at > 1 /\ at' = at - 1 /\ made' = made /\ at' < made' /\ answer' = answer
    BY <1>5 DEF Pop, TypeOK, Scopes
  <2>2. at < made => symbols[at + 1] = NoSymbols
    BY <1>5 DEF Pop, MayLeave, TypeOK, ReusedEmpty, Scopes
  <2>3. \A i \in 1 .. at - 1 : symbols'[i] = symbols[i]
    BY <1>5 DEF Pop, TypeOK, Scopes
  <2>4. symbols'[at' + 1] = IF ~clear THEN symbols[at] ELSE NoSymbols
    BY <1>5 DEF Pop, TypeOK, Scopes
  <2>5. [i \in 1 .. at' |-> symbols'[i]] = [i \in 1 .. at - 1 |-> [j \in 1 .. at |-> symbols[j]][i]]
    BY <2>1, <2>3
  <2>6. [j \in 1 .. at |-> symbols[j]][at] = symbols[at]
    BY <2>1
  <2>7. QED BY <2>1, <2>2, <2>4, <2>5, <2>6 DEF InNest!Leave, InNest!None, NoSymbols
<1>6. ASSUME Clear PROVE InNest!Drop
  <2>1. at \in Nat /\ at < made /\ at' = at /\ made' = made /\ answer' = answer
    BY <1>6 DEF Clear, TypeOK, Scopes
  <2>2. \A i \in 1 .. at : symbols'[i] = symbols[i]
    BY <1>6 DEF Clear, TypeOK, Scopes
  <2>3. symbols'[at + 1] = NoSymbols
    BY <1>6 DEF Clear, TypeOK, ReusedEmpty, Scopes
  <2>4. [i \in 1 .. at' |-> symbols'[i]] = [i \in 1 .. at |-> symbols[i]]
    BY <2>1, <2>2
  <2>5. QED BY <2>1, <2>3, <2>4 DEF InNest!Drop, InNest!None, NoSymbols
<1>7. CASE Free
  BY <1>7 DEF Free, Open, Aside
<1>8. CASE UNCHANGED vars
  BY <1>8 DEF vars, Open, Aside
<1>9. QED
  BY <1>1, <1>2, <1>3, <1>4, <1>5, <1>6, <1>7, <1>8 DEF Next, InNest!Next

\* The scopes that are reused implement a nest of scopes that are new each time.
THEOREM Implementation == Spec => ImplementsNest
<1>1. IInv /\ [Next]_vars => [InNest!Next]_<<at, [i \in 1 .. at |-> symbols[i]],
                             IF at < made THEN symbols[at + 1] ELSE NoSymbols, answer>>
  BY NestStep DEF Open, Aside
<1>2. QED
  BY NestInit, Invariance, <1>1, PTL DEF Spec, ImplementsNest, InNest!Spec
=============================================================================

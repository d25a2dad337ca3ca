----------------------------- MODULE RuleFlags -----------------------------
(***************************************************************************)
(* The grammar tool of syntax/grammar (tree.c, rules.h): the rules of a    *)
(* grammar are traversed three times, depth first from "root"; on the way  *)
(* back the first two traversals pass flags from a rule to its parent, and *)
(* the third marks the rules before which the lexer has to look a symbol   *)
(* up.  A grammar maps the name of a rule to its chains; a name it does    *)
(* not map is a token, and Code stands for any { source code }.            *)
(***************************************************************************)
EXTENDS Integers, SequencesExt, FiniteSets

CONSTANTS Grammars, Code

ASSUME GrammarsAssumption ==         \* of read_rules ()
  \A g \in Grammars :
    /\ "root" \in DOMAIN g /\ Code \notin DOMAIN g
    /\ \A r \in DOMAIN g : g[r] # <<>> /\ \A i \in DOMAIN g[r] : g[r][i] # <<>>

VARIABLES
  grammar,
  flags,              \* name -> flags; type_specifier and new_identifier included
  traversed,          \* RULE_TRAVERSED
  stack,              \* frames [rule, i, j]: chain i, of which j rules were taken
  traversal_number,
  back                \* history: pairs of a rule and one of its chains' that was found on
                      \* the stack

vars == <<grammar, flags, traversed, stack, traversal_number, back>>

MaxDepth == 128                      \* stack [128]

Flags == {"not_place_holder", "type_specifier", "new_identifier",      \* RULE_HAVE_
          "starts_type", "starts_identifier",                      \* RULE_MAY_START_WITH_
          "symbol_lookup"}                                         \* RULE_SHOULD_END_WITH_

\* the places of a grammar: the j-th name of chain i of rule r
Sites(g) == UNION {UNION {{<<r, i, j>> : j \in DOMAIN g[r][i]} : i \in DOMAIN g[r]} : r \in DOMAIN g}
At(g, s) == g[s[1]][s[2]][s[3]]

Names(g) == DOMAIN g \cup {At(g, s) : s \in Sites(g)}
            \cup {"type_specifier", "new_identifier"}

IsToken(x) == x # Code /\ x \notin DOMAIN grammar

Init ==
  /\ grammar \in Grammars
  /\ flags = [x \in Names(grammar) |-> {}]
  /\ traversed = {} /\ stack = <<>> /\ traversal_number = 0 /\ back = {}
-----------------------------------------------------------------------------
Top    == Last(stack)
Below  == stack[Len(stack) - 1]
Chains == grammar[Top.rule]

NotPlaceHolder(f, x) == IF IsToken(x) THEN {"not_place_holder"} ELSE f[x] \cap {"not_place_holder"}

HandedAnywhere(f, x, parent, j) ==           \* mutant: not only the first in a chain
  NotPlaceHolder(f, x) \cup (f[x] \ {"symbol_lookup", "not_place_holder"})
\* what a rule hands on to its parent; the names in a type_name stay inside
HandedOn(f, x, parent, j) ==
  NotPlaceHolder(f, x)
    \cup (f[x] \cap {"type_specifier"})
    \cup (IF parent # "type_name" THEN f[x] \cap {"new_identifier"} ELSE {})
    \cup (IF j = 1 THEN f[x] \cap {"starts_type", "starts_identifier"} ELSE {})

LooksUpBeforeAll(f, prev, x) == f[prev] \cap {"new_identifier", "type_specifier"} # {}     \* mutant
\* the rule before x in a chain ends with a lookup, unless a type may follow it
LooksUp(f, prev, x) ==
  /\ ~("starts_type" \in f[x] /\ prev # "type_specifier")
  /\ f[prev] \cap {"new_identifier", "type_specifier"} # {}

ReducedOnce(x, parent, i, j) ==      \* mutant: flags come up in the first traversal only
  IF traversal_number = 0
    THEN [flags EXCEPT ![parent] = @ \cup HandedOn(flags, x, parent, j)]
  ELSE IF traversal_number = 2 /\ j > 1 /\ LooksUp(flags, grammar[parent][i][j - 1], x)
    THEN [flags EXCEPT ![grammar[parent][i][j - 1]] = @ \cup {"symbol_lookup"}]
  ELSE flags

\* pop (): the flags when x is left, the j-th of chain i of parent
Reduced(x, parent, i, j) ==
  IF traversal_number < 2
    THEN [flags EXCEPT ![parent] = @ \cup HandedOn(flags, x, parent, j)]
  ELSE IF j > 1 /\ LooksUp(flags, grammar[parent][i][j - 1], x)
    THEN [flags EXCEPT ![grammar[parent][i][j - 1]] = @ \cup {"symbol_lookup"}]
  ELSE flags

SetTop(frame) == [stack EXCEPT ![Len(stack)] = frame]

\* traverse (): before the first traversal the two rules are flagged that all
\* others get their flags from
Traverse ==
  /\ stack = <<>> /\ traversal_number < 3
  /\ traversed' = {} /\ stack' = << [rule |-> "root", i |-> 1, j |-> 0] >>
  /\ flags' = IF traversal_number > 0 THEN flags
              ELSE [flags EXCEPT !["type_specifier"] = @ \cup {"type_specifier", "starts_type"},
                                 !["new_identifier"] = @ \cup {"new_identifier", "starts_identifier"}]
  /\ UNCHANGED <<grammar, traversal_number, back>>

\* push (): the next rule of the chain is taken
Taken == Chains[Top.i][Top.j + 1]
Takes == /\ stack # <<>> /\ ~IsToken(Top.rule)
         /\ Top.i <= Len(Chains) /\ Top.j < Len(Chains[Top.i])

SkipCode ==
  /\ Takes /\ Taken = Code
  /\ stack' = SetTop([Top EXCEPT !.j = @ + 1])
  /\ UNCHANGED <<grammar, flags, traversed, traversal_number, back>>

\* mutant: the rule is not marked
DescendUnmarked ==
  /\ Takes /\ Taken # Code /\ Taken \notin traversed
  /\ stack' = Append(SetTop([Top EXCEPT !.j = @ + 1]), [rule |-> Taken, i |-> 1, j |-> 0])
  /\ UNCHANGED <<grammar, flags, traversed, traversal_number, back>>

Descend ==
  /\ Takes /\ Taken # Code /\ Taken \notin traversed
  /\ stack' = Append(SetTop([Top EXCEPT !.j = @ + 1]), [rule |-> Taken, i |-> 1, j |-> 0])
  /\ traversed' = traversed \cup {Taken}
  /\ UNCHANGED <<grammar, flags, traversal_number, back>>

Revisit ==
  /\ Takes /\ Taken # Code /\ Taken \in traversed
  /\ stack' = SetTop([Top EXCEPT !.j = @ + 1])
  /\ flags' = Reduced(Taken, Top.rule, Top.i, Top.j + 1)
  /\ back' = back \cup {<<Top.rule, Taken>> : k \in {l \in DOMAIN stack : stack[l].rule = Taken}}
  /\ UNCHANGED <<grammar, traversed, traversal_number>>

NextChain ==
  /\ stack # <<>> /\ ~IsToken(Top.rule)
  /\ Top.i <= Len(Chains) /\ Top.j = Len(Chains[Top.i])
  /\ stack' = SetTop([Top EXCEPT !.i = @ + 1, !.j = 0])
  /\ UNCHANGED <<grammar, flags, traversed, traversal_number, back>>

\* pop () of a token, or of a rule with no chain left
Pop ==
  /\ stack # <<>> /\ (~IsToken(Top.rule) => Top.i > Len(Chains))
  /\ stack' = Front(stack)
  /\ flags' = IF Len(stack) = 1 THEN flags ELSE Reduced(Top.rule, Below.rule, Below.i, Below.j)
  /\ traversal_number' = IF Len(stack) = 1 THEN traversal_number + 1 ELSE traversal_number
  /\ UNCHANGED <<grammar, traversed, back>>

Next == Traverse \/ SkipCode \/ Descend \/ Revisit \/ NextChain \/ Pop

\* tree.c calls traverse () three times and runs to its end
Spec == Init /\ [][Next]_vars /\ WF_vars(Next)
-----------------------------------------------------------------------------
(***************************************************************************)
(* Properties                                                              *)
(***************************************************************************)
\* what is reached from S along edges, pairs of a name and the one it leads to
Reached(edges, S) ==
  LET grown[T \in SUBSET Names(grammar)] ==
        LET after == {e[2] : e \in {d \in edges : d[1] \in T}}
        IN  IF after \subseteq T THEN T ELSE grown[T \cup after]
  IN  grown[S]

\* from a rule to its parents; and only where it comes first
Upward(S)  == {<<At(grammar, s), s[1]>> : s \in {t \in S : At(grammar, t) # Code}}
Everywhere == Sites(grammar)
InFront    == {s \in Sites(grammar) : s[3] = 1}
Reachable  == Reached({<<e[2], e[1]>> : e \in Upward(Everywhere)}, {"root"})
Tokens     == {x \in Names(grammar) : IsToken(x)}

Source(flag) ==
  CASE flag = "not_place_holder"                    -> Tokens
    [] flag \in {"type_specifier", "starts_type"}   -> {"type_specifier"}
    [] flag \in {"new_identifier", "starts_identifier"} -> {"new_identifier"}

Steps(flag) ==
  CASE flag \in {"not_place_holder", "type_specifier"} -> Upward(Everywhere)
    [] flag = "new_identifier" -> {e \in Upward(Everywhere) : e[2] # "type_name"}
    [] flag \in {"starts_type", "starts_identifier"}   -> Upward(InFront)

\* where a flag belongs; and where it is at most once found on the stack on its way
Above(flag) == IF flag = "not_place_holder" THEN Reachable \ Tokens ELSE Reachable

Bearers(flag) == Reached(Steps(flag), Source(flag)) \cap Above(flag)

NearBearers(flag) ==
  LET forward == {e \in Steps(flag) : <<e[2], e[1]>> \notin back}
      at_once == Reached(forward, Source(flag))
  IN  Reached(forward, at_once \cup {e[2] : e \in {d \in Steps(flag) : d[1] \in at_once}})
        \cap Above(flag)

\* a name flagged to have an identifier or a type in it, where something follows it that
\* is not flagged to start with a type
LookupDue(x) ==
  /\ flags[x] \cap {"new_identifier", "type_specifier"} # {}
  /\ \E s \in Sites(grammar) :
       /\ s[3] > 1 /\ At(grammar, s) # Code /\ grammar[s[1]][s[2]][s[3] - 1] = x
       /\ s[1] \in Reachable
       /\ "starts_type" \in flags[At(grammar, s)] => x = "type_specifier"

\* Types, and the stack: a path of rules of the grammar, none of them twice but the
\* root, so that its frames are at most two more than the grammar has rules.
TypeOK ==
  /\ flags \in [Names(grammar) -> SUBSET Flags] /\ traversed \subseteq Names(grammar)
  /\ traversal_number \in 0 .. 3
  /\ \A k \in 2 .. Len(stack) :
       LET f == stack[k - 1]
       IN  /\ f.rule \in DOMAIN grammar /\ grammar[f.rule][f.i][f.j] = stack[k].rule
           /\ \A l \in k + 1 .. Len(stack) : stack[l].rule # stack[k].rule

\* A flag comes to a rule only from below, and whatever cycles the grammar has, the two
\* traversals bring it wherever no more than one rule was found on the stack on the way,
\* that is, was left before what it holds was known.
FlagsFromBelow ==
  stack = <<>> /\ traversal_number = 2 =>
    \A flag \in Flags \ {"symbol_lookup"} :
      LET flagged == {x \in Above(flag) : flag \in flags[x]}
      IN  NearBearers(flag) \subseteq flagged /\ flagged \subseteq Bearers(flag)

\* "f(parent) = max { f(child) | each 'child' of 'parent' }": every rule has the flags
\* of all rules below it.  Whether two traversals get that far depends on the grammar.
FlagsReachAll ==
  \A flag \in Flags \ {"symbol_lookup"} : \A x \in Above(flag) :
    flag \in flags[x] <=> x \in Bearers(flag)

\* "max rule tree depth is 128": push () puts the next rule, also one it has traversed
\* before, into the array stack [128], and asserts the depth one call too late.
StackFits == Takes /\ Taken # Code => Len(stack) < MaxDepth

\* The traversals end, whatever cycles the grammar has, with every rule below the root
\* traversed; and by then a lookup is flagged at exactly those before something that,
\* as far as the flags say, does not start with a type.
Completes ==
  <>[](/\ traversal_number = 3 /\ traversed \cup {"root"} = Reachable
       /\ \A x \in Reachable : "symbol_lookup" \in flags[x] <=> LookupDue(x))
=============================================================================

---------------------------- MODULE MCRuleFlags ----------------------------
(* Small grammars of every shape, and the grammar of C. *)
EXTENDS MCParserFlags

Chain == {<<"a", "b">>, <<"b", "a">>, <<"type_specifier", "b">>, <<"NAME", "type_name">>,
          <<"new_identifier">>, <<Code, "a">>, <<"NAME">>}

Small == {("root" :> <<p, <<"b", "a">>>>) @@ ("a" :> <<q, r>>) @@ ("b" :> <<s>>)
          @@ ("type_name" :> << <<"type_specifier", "a">> >>) @@ ("type_specifier" :> << <<"INT">> >>)
          : p, q, r, s \in Chain}

\* three rules that refer to each other in every way
Link == {<<"b", "new_identifier">>, <<"NAME", "a">>, <<"NAME", "b">>, <<"NAME", "c">>,
         <<"c", "type_specifier">>}

Loops == {("root" :> << <<"a">> >>) @@ ("a" :> <<p>>) @@ ("b" :> <<q, r>>) @@ ("c" :> <<s>>)
          : p, q, r, s \in Link}

\* where b leads on to c before it refers back to a, c refers back to b, and a gets a
\* flag from what follows b
TwiceBack == {("root" :> << <<"a">> >>) @@ ("a" :> << <<"b", "new_identifier">> >>)
              @@ ("b" :> <<p, <<"NAME", "a">>>>) @@ ("c" :> << <<"NAME", "b">> >>)
              : p \in {<<"NAME", "c">>, <<"c", "type_specifier">>}}

AllGrammars == Small \cup Loops \cup {parser}

\* Two traversals make every rule's flags the maximum that rules.h speaks of, in the
\* grammar of the repository and in all the others, but for the grammars in TwiceBack:
\* there they leave a rule without a flag of one below it.
ShortOnlyTwiceBack ==
  stack = <<>> /\ traversal_number = 2 => (FlagsReachAll <=> grammar \notin TwiceBack)
=============================================================================

--------------------------- MODULE MCParserFlags ---------------------------
(* The grammar of C that the tool is for: the rules of syntax/grammar/parser.y. *)
EXTENDS RuleFlags

OneOf(rules) == [i \in DOMAIN rules |-> <<rules[i]>>]
List(self, item) == << <<item>>, <<self, "COMMA", item>> >>
Run(self, item)  == << <<item>>, <<self, item>> >>
Binary(self, operand, operators) ==
  << <<operand>> >> \o [i \in DOMAIN operators |-> <<self, operators[i], operand>>]

parser ==
  ("new_identifier" :> << <<"IDENTIFIER">> >>)
  @@ ("ambiguous_identifier" :> OneOf(<<"IDENTIFIER", "ENUMERATION_CONSTANT", "TYPEDEF_NAME">>))
  @@ ("primary_expression" :> << <<"IDENTIFIER">>, <<"constant">>, <<"string">>,
          <<"LPARENTHESIS", "expression", "RPARENTHESIS">>, <<"generic_selection">> >>)
  @@ ("constant" :> OneOf(<<"I_CONSTANT", "F_CONSTANT", "ENUMERATION_CONSTANT">>))
  @@ ("enumeration_constant" :> << <<"new_identifier">> >>)
  @@ ("string" :> OneOf(<<"STRING_LITERAL", "FUNC_NAME">>))
  @@ ("generic_selection" :> <<
          <<"GENERIC", "LPARENTHESIS", "assignment_expression", "COMMA", "generic_assoc_list", "RPARENTHESIS">> >>)
  @@ ("generic_assoc_list" :> List("generic_assoc_list", "generic_association"))
  @@ ("generic_association" :> << <<"type_name", "COLON", "assignment_expression">>,
          <<"DEFAULT", "COLON", "assignment_expression">> >>)
  @@ ("postfix_expression" :> << <<"primary_expression">>,
          <<"postfix_expression", "LBRACKET", "expression", "RBRACKET">>,
          <<"postfix_expression", "LPARENTHESIS", "RPARENTHESIS">>,
          <<"postfix_expression", "LPARENTHESIS", "argument_expression_list", "RPARENTHESIS">>,
          <<"postfix_expression", "DOT", "IDENTIFIER">>,
          <<"postfix_expression", "PTR_OP", "IDENTIFIER">>, <<"postfix_expression", "INC_OP">>,
          <<"postfix_expression", "DEC_OP">>,
          <<"LPARENTHESIS", "type_name", "RPARENTHESIS", "LBRACE", "initializer_list", "RBRACE">>,
          <<"LPARENTHESIS", "type_name", "RPARENTHESIS", "LBRACE", "initializer_list", "COMMA", "RBRACE">> >>)
  @@ ("argument_expression_list" :> List("argument_expression_list", "assignment_expression"))
  @@ ("unary_expression" :> << <<"postfix_expression">>, <<"INC_OP", "unary_expression">>,
          <<"DEC_OP", "unary_expression">>, <<"unary_operator", "cast_expression">>,
          <<"SIZEOF", "unary_expression">>,
          <<"SIZEOF", "LPARENTHESIS", "type_name", "RPARENTHESIS">>,
          <<"ALIGNOF", "LPARENTHESIS", "type_name", "RPARENTHESIS">> >>)
  @@ ("unary_operator" :> OneOf(<<"AMPERSAND", "STAR", "PLUS", "MINUS", "TILDE", "NOT">>))
  @@ ("cast_expression" :> << <<"unary_expression">>,
          <<"LPARENTHESIS", "type_name", "RPARENTHESIS", "cast_expression">> >>)
  @@ ("multiplicative_expression" :> Binary("multiplicative_expression", "cast_expression",
          <<"STAR", "SLASH", "PERCENT">>))
  @@ ("additive_expression" :> Binary("additive_expression", "multiplicative_expression", <<"PLUS",
          "MINUS">>))
  @@ ("shift_expression" :> Binary("shift_expression", "additive_expression", <<"LEFT_OP",
          "RIGHT_OP">>))
  @@ ("relational_expression" :> Binary("relational_expression", "shift_expression", <<"L_T", "G_T",
          "LE_OP", "GE_OP">>))
  @@ ("equality_expression" :> Binary("equality_expression", "relational_expression", <<"EQ_OP",
          "NE_OP">>))
  @@ ("and_expression" :> Binary("and_expression", "equality_expression", <<"AMPERSAND">>))
  @@ ("exclusive_or_expression" :> Binary("exclusive_or_expression", "and_expression",
          <<"CARET">>))
  @@ ("inclusive_or_expression" :> Binary("inclusive_or_expression", "exclusive_or_expression",
          <<"PIPE">>))
  @@ ("logical_and_expression" :> Binary("logical_and_expression", "inclusive_or_expression",
          <<"AND_OP">>))
  @@ ("logical_or_expression" :> Binary("logical_or_expression", "logical_and_expression",
          <<"OR_OP">>))
  @@ ("conditional_expression" :> << <<"logical_or_expression">>,
          <<"logical_or_expression", "QUESTION", "expression", "COLON", "conditional_expression">> >>)
  @@ ("assignment_expression" :> << <<"conditional_expression">>,
          <<"unary_expression", "assignment_operator", "assignment_expression">> >>)
  @@ ("assignment_operator" :> OneOf(<<"EQUAL", "MUL_ASSIGN", "DIV_ASSIGN", "MOD_ASSIGN",
          "ADD_ASSIGN", "SUB_ASSIGN", "LEFT_ASSIGN", "RIGHT_ASSIGN", "AND_ASSIGN", "XOR_ASSIGN",
          "OR_ASSIGN">>))
  @@ ("expression" :> List("expression", "assignment_expression"))
  @@ ("constant_expression" :> << <<"conditional_expression">> >>)
  @@ ("declaration" :> << <<"declaration_specifiers", "SEMICOLON">>,
          <<"declaration_specifiers", "init_declarator_list", "SEMICOLON">>,
          <<"static_assert_declaration">> >>)
  @@ ("declaration_specifiers" :> << <<"storage_class_specifier", "declaration_specifiers">>,
          <<"storage_class_specifier">>, <<"type_specifier", "declaration_specifiers">>,
          <<"type_specifier">>, <<"type_qualifier", "declaration_specifiers">>,
          <<"type_qualifier">>, <<"function_specifier", "declaration_specifiers">>,
          <<"function_specifier">>, <<"alignment_specifier", "declaration_specifiers">>,
          <<"alignment_specifier">> >>)
  @@ ("init_declarator_list" :> List("init_declarator_list", "init_declarator"))
  @@ ("init_declarator" :> << <<"declarator", "EQUAL", "initializer">>, <<"declarator">> >>)
  @@ ("storage_class_specifier" :> OneOf(<<"TYPEDEF", "EXTERN", "STATIC", "THREAD_LOCAL", "AUTO",
          "REGISTER">>))
  @@ ("expect_type" :> << <<Code>> >>)
  @@ ("expect_identifier" :> << <<Code>> >>)
  @@ ("type_specifier" :> << <<"data_type", "expect_identifier">> >>)
  @@ ("data_type" :> OneOf(<<"VOID", "CHAR", "SHORT", "INT", "LONG", "FLOAT", "DOUBLE", "SIGNED",
          "UNSIGNED", "BOOL", "COMPLEX", "IMAGINARY", "atomic_type_specifier",
          "struct_or_union_specifier", "enum_specifier", "TYPEDEF_NAME">>))
  @@ ("struct_or_union_specifier" :> <<
          <<"struct_or_union", "LBRACE", "struct_declaration_list", "RBRACE">>,
          <<"struct_or_union", "new_identifier", "LBRACE", "struct_declaration_list", "RBRACE">>,
          <<"struct_or_union", "new_identifier">> >>)
  @@ ("struct_or_union" :> OneOf(<<"STRUCT", "UNION">>))
  @@ ("struct_declaration_list" :> Run("struct_declaration_list", "struct_declaration"))
  @@ ("struct_declaration" :> << <<"specifier_qualifier_list", "SEMICOLON">>,
          <<"specifier_qualifier_list", "struct_declarator_list", "SEMICOLON">>,
          <<"static_assert_declaration">> >>)
  @@ ("specifier_qualifier_list" :> << <<"type_specifier", "specifier_qualifier_list">>,
          <<"type_specifier">>, <<"type_qualifier", "specifier_qualifier_list">>,
          <<"type_qualifier">> >>)
  @@ ("struct_declarator_list" :> List("struct_declarator_list", "struct_declarator"))
  @@ ("struct_declarator" :> << <<"COLON", "constant_expression">>,
          <<"declarator", "COLON", "constant_expression">>, <<"declarator">> >>)
  @@ ("enum_specifier" :> << <<"ENUM", "LBRACE", "enumerator_list", "RBRACE">>,
          <<"ENUM", "LBRACE", "enumerator_list", "COMMA", "RBRACE">>,
          <<"ENUM", "new_identifier", "LBRACE", "enumerator_list", "RBRACE">>,
          <<"ENUM", "new_identifier", "LBRACE", "enumerator_list", "COMMA", "RBRACE">>,
          <<"ENUM", "new_identifier">> >>)
  @@ ("enumerator_list" :> List("enumerator_list", "enumerator"))
  @@ ("enumerator" :> << <<"enumeration_constant", "EQUAL", "constant_expression">>,
          <<"enumeration_constant">> >>)
  @@ ("atomic_type_specifier" :> << <<"ATOMIC", "LPARENTHESIS", "type_name", "RPARENTHESIS">> >>)
  @@ ("type_qualifier" :> OneOf(<<"CONST", "RESTRICT", "VOLATILE", "ATOMIC">>))
  @@ ("function_specifier" :> OneOf(<<"INLINE", "NORETURN">>))
  @@ ("alignment_specifier" :> << <<"ALIGNAS", "LPARENTHESIS", "type_name", "RPARENTHESIS">>,
          <<"ALIGNAS", "LPARENTHESIS", "constant_expression", "RPARENTHESIS">> >>)
  @@ ("declarator" :> << <<"pointer", "direct_declarator">>, <<"direct_declarator">> >>)
  @@ ("direct_declarator" :> << <<"new_identifier">>,
          <<"LPARENTHESIS", "declarator", "RPARENTHESIS">>,
          <<"direct_declarator", "LBRACKET", "RBRACKET">>,
          <<"direct_declarator", "LBRACKET", "STAR", "RBRACKET">>,
          <<"direct_declarator", "LBRACKET", "STATIC", "type_qualifier_list", "assignment_expression", "RBRACKET">>,
          <<"direct_declarator", "LBRACKET", "STATIC", "assignment_expression", "RBRACKET">>,
          <<"direct_declarator", "LBRACKET", "type_qualifier_list", "STAR", "RBRACKET">>,
          <<"direct_declarator", "LBRACKET", "type_qualifier_list", "STATIC", "assignment_expression", "RBRACKET">>,
          <<"direct_declarator", "LBRACKET", "type_qualifier_list", "assignment_expression", "RBRACKET">>,
          <<"direct_declarator", "LBRACKET", "type_qualifier_list", "RBRACKET">>,
          <<"direct_declarator", "LBRACKET", "assignment_expression", "RBRACKET">>,
          <<"direct_declarator", "LPARENTHESIS", "parameter_type_list", "RPARENTHESIS">>,
          <<"direct_declarator", "LPARENTHESIS", "RPARENTHESIS">>,
          <<"direct_declarator", "LPARENTHESIS", "identifier_list", "RPARENTHESIS">> >>)
  @@ ("pointer" :> << <<"STAR", "type_qualifier_list", "pointer">>,
          <<"STAR", "type_qualifier_list">>, <<"STAR", "pointer">>, <<"STAR">> >>)
  @@ ("type_qualifier_list" :> Run("type_qualifier_list", "type_qualifier"))
  @@ ("parameter_type_list" :> << <<"parameter_list", "COMMA", "ELLIPSIS">>,
          <<"parameter_list">> >>)
  @@ ("parameter_list" :> List("parameter_list", "parameter_declaration"))
  @@ ("parameter_declaration" :> << <<"declaration_specifiers", "declarator">>,
          <<"declaration_specifiers", "abstract_declarator">>, <<"declaration_specifiers">> >>)
  @@ ("identifier_list" :> List("identifier_list", "new_identifier"))
  @@ ("type_name" :> << <<"specifier_qualifier_list", "abstract_declarator">>,
          <<"specifier_qualifier_list">> >>)
  @@ ("abstract_declarator" :> << <<"pointer", "direct_abstract_declarator">>, <<"pointer">>,
          <<"direct_abstract_declarator">> >>)
  @@ ("direct_abstract_declarator" :> << <<"LPARENTHESIS", "abstract_declarator", "RPARENTHESIS">>,
          <<"LBRACKET", "RBRACKET">>, <<"LBRACKET", "STAR", "RBRACKET">>,
          <<"LBRACKET", "STATIC", "type_qualifier_list", "assignment_expression", "RBRACKET">>,
          <<"LBRACKET", "STATIC", "assignment_expression", "RBRACKET">>,
          <<"LBRACKET", "type_qualifier_list", "STATIC", "assignment_expression", "RBRACKET">>,
          <<"LBRACKET", "type_qualifier_list", "assignment_expression", "RBRACKET">>,
          <<"LBRACKET", "type_qualifier_list", "RBRACKET">>,
          <<"LBRACKET", "assignment_expression", "RBRACKET">>,
          <<"direct_abstract_declarator", "LBRACKET", "RBRACKET">>,
          <<"direct_abstract_declarator", "LBRACKET", "STAR", "RBRACKET">>,
          <<"direct_abstract_declarator", "LBRACKET", "STATIC", "type_qualifier_list", "assignment_expression", "RBRACKET">>,
          <<"direct_abstract_declarator", "LBRACKET", "STATIC", "assignment_expression", "RBRACKET">>,
          <<"direct_abstract_declarator", "LBRACKET", "type_qualifier_list", "assignment_expression", "RBRACKET">>,
          <<"direct_abstract_declarator", "LBRACKET", "type_qualifier_list", "STATIC", "assignment_expression", "RBRACKET">>,
          <<"direct_abstract_declarator", "LBRACKET", "type_qualifier_list", "RBRACKET">>,
          <<"direct_abstract_declarator", "LBRACKET", "assignment_expression", "RBRACKET">>,
          <<"LPARENTHESIS", "RPARENTHESIS">>,
          <<"LPARENTHESIS", "parameter_type_list", "RPARENTHESIS">>,
          <<"direct_abstract_declarator", "LPARENTHESIS", "RPARENTHESIS">>,
          <<"direct_abstract_declarator", "LPARENTHESIS", "parameter_type_list", "RPARENTHESIS">> >>)
  @@ ("initializer" :> << <<"LBRACE", "initializer_list", "RBRACE">>,
          <<"LBRACE", "initializer_list", "COMMA", "RBRACE">>, <<"assignment_expression">> >>)
  @@ ("initializer_list" :> << <<"designation", "initializer">>, <<"initializer">>,
          <<"initializer_list", "COMMA", "designation", "initializer">>,
          <<"initializer_list", "COMMA", "initializer">> >>)
  @@ ("designation" :> << <<"designator_list", "EQUAL">> >>)
  @@ ("designator_list" :> Run("designator_list", "designator"))
  @@ ("designator" :> << <<"LBRACKET", "constant_expression", "RBRACKET">>,
          <<"DOT", "IDENTIFIER">> >>)
  @@ ("static_assert_declaration" :> <<
          <<"STATIC_ASSERT", "LPARENTHESIS", "constant_expression", "COMMA", "STRING_LITERAL", "RPARENTHESIS", "SEMICOLON">> >>)
  @@ ("statement" :> OneOf(<<"labeled_statement", "compound_statement", "expression_statement",
          "selection_statement", "iteration_statement", "jump_statement">>))
  @@ ("labeled_statement" :> << <<"ambiguous_identifier", "COLON", "statement">>,
          <<"CASE", "constant_expression", "COLON", "statement">>,
          <<"DEFAULT", "COLON", "statement">> >>)
  @@ ("compound_statement" :> << <<"LBRACE", "RBRACE">>,
          <<"LBRACE", "block_item_list", "RBRACE">> >>)
  @@ ("block_item_list" :> Run("block_item_list", "block_item"))
  @@ ("block_item" :> OneOf(<<"declaration", "statement">>))
  @@ ("expression_statement" :> << <<"SEMICOLON">>, <<"expression", "SEMICOLON">> >>)
  @@ ("selection_statement" :> <<
          <<"IF", "LPARENTHESIS", "expression", "RPARENTHESIS", "statement", "ELSE", "statement">>,
          <<"IF", "LPARENTHESIS", "expression", "RPARENTHESIS", "statement">>,
          <<"SWITCH", "LPARENTHESIS", "expression", "RPARENTHESIS", "statement">> >>)
  @@ ("iteration_statement" :> <<
          <<"WHILE", "LPARENTHESIS", "expression", "RPARENTHESIS", "statement">>,
          <<"DO", "statement", "WHILE", "LPARENTHESIS", "expression", "RPARENTHESIS", "SEMICOLON">>,
          <<"FOR", "LPARENTHESIS", "expression_statement", "expression_statement", "RPARENTHESIS", "statement">>,
          <<"FOR", "LPARENTHESIS", "expression_statement", "expression_statement", "expression", "RPARENTHESIS", "statement">>,
          <<"FOR", "LPARENTHESIS", "declaration", "expression_statement", "RPARENTHESIS", "statement">>,
          <<"FOR", "LPARENTHESIS", "declaration", "expression_statement", "expression", "RPARENTHESIS", "statement">> >>)
  @@ ("jump_statement" :> << <<"GOTO", "IDENTIFIER", "SEMICOLON">>, <<"CONTINUE", "SEMICOLON">>,
          <<"BREAK", "SEMICOLON">>, <<"RETURN", "SEMICOLON">>,
          <<"RETURN", "expression", "SEMICOLON">> >>)
  @@ ("root" :> << <<"translation_unit", Code>> >>)
  @@ ("translation_unit" :> Run("translation_unit", "external_declaration"))
  @@ ("external_declaration" :> OneOf(<<"function_definition", "declaration">>))
  @@ ("function_definition" :> <<
          <<"declaration_specifiers", "declarator", "declaration_list", "compound_statement">>,
          <<"declaration_specifiers", "declarator", "compound_statement">> >>)
  @@ ("declaration_list" :> Run("declaration_list", "declaration"))
=============================================================================

---------------------------- MODULE SqlParserTests ----------------------------
(***************************************************************************)
(* The unit tests of experiments/parser_in_rust/parser.rs on the model of  *)
(* the parser: the text of each, the method it calls and what it asserts.  *)
(* A blank stands after every word of a test; the column a test asserts is *)
(* the place of a word here.                                               *)
(***************************************************************************)
EXTENDS SqlGrammar

-----------------------------------------------------------------------------
(* Tests *)

sql(w) == Append(FlattenSeq([i \in DOMAIN w |-> <<w[i], Whitespace>>]), Eof)
place(n) == 2 * n - 1

Test(method, w, trees, result) ==
    [call |-> method, tokens |-> sql(w), parsed |-> trees, outcome |-> result]
Parses(w, tree) == Test("parse_statement", w, <<tree>>, Done)
Evaluates(w, tree) == Test("parse_expression", w, <<tree>>, Done)
Fails(w, kind, expected, found, n) ==
    Test("parse_statement", w, <<>>, Failure(kind, expected, found, place(n)))

Id(x) == Identifier(x)
Bin(left, operator, right) == BinaryOperation(left, operator, right)
Minus(e) == UnaryOperation("-", e)
Names(w) == [i \in DOMAIN w |-> Identifier(w[i])]
All == <<Wildcard>>

parse_simple_select ==
    Parses(<<"SELECT", "id", ",", "name", "FROM", "users", ";">>,
           Select(Names(<<"id", "name">>), "users", <<>>, <<>>))

parse_select_wildcard ==
    Parses(<<"SELECT", "*", "FROM", "users", ";">>, Select(All, "users", <<>>, <<>>))

parse_select_where ==
    Parses(<<"SELECT", "id", ",", "price", ",", "discount", "FROM", "products",
             "WHERE", "price", ">=", "100", ";">>,
           Select(Names(<<"id", "price", "discount">>), "products",
                  <<Bin(Id("price"), ">=", Value("100"))>>, <<>>))

parse_select_with_expressions ==
    Parses(<<"SELECT", "id", ",", "price", ",", "discount", ",",
             "price", "*", "discount", "/", "100", "FROM", "products",
             "WHERE", "100", "<=", "price", "AND", "price", "<", "1000",
             "OR", "discount", "<", "10", "+", "(", "2", "*", "20", ")", ";">>,
           Select(Append(Names(<<"id", "price", "discount">>),
                         Bin(Bin(Id("price"), "*", Id("discount")), "/", Value("100"))),
                  "products",
                  <<Bin(Bin(Bin(Value("100"), "<=", Id("price")), "AND",
                            Bin(Id("price"), "<", Value("1000"))),
                        "OR",
                        Bin(Id("discount"), "<",
                            Bin(Value("10"), "+",
                                Nested(Bin(Value("2"), "*", Value("20"))))))>>,
                  <<>>))

ByEmail == Select(Names(<<"name", "email">>), "users", <<>>, Names(<<"email">>))
ByEmailText == <<"SELECT", "name", ",", "email", "FROM", "users", "ORDER", "BY", "email", ";">>

parse_select_order_by == Parses(ByEmailText, ByEmail)

parse_create_database ==
    Parses(<<"CREATE", "DATABASE", "test", ";">>, CreateDatabase("test"))

parse_create_table ==
    Parses(<<"CREATE", "TABLE", "users", "(", "id", "INT", "PRIMARY", "KEY", ",",
             "name", "VARCHAR", "(", "255", ")", ",",
             "email", "VARCHAR", "(", "255", ")", "UNIQUE", ")", ";">>,
           CreateTable("users",
               <<Column("id", DataType(<<"INT">>), <<"PRIMARY">>),
                 Column("name", Varchar("255"), <<>>),
                 Column("email", Varchar("255"), <<"UNIQUE">>)>>))

parse_create_index ==
    Parses(<<"CREATE", "INDEX", "test_idx", "ON", "test", "(", "some_column", ")", ";">>,
           CreateIndex("test_idx", "test", "some_column", FALSE))

parse_create_unique_index ==
    Parses(<<"CREATE", "UNIQUE", "INDEX", "email_uq_idx", "ON", "users",
             "(", "email", ")", ";">>,
           CreateIndex("email_uq_idx", "users", "email", TRUE))

MakeAdmin == Update("users", <<Assignment("is_admin", Value("1"))>>, <<>>)
MakeAdminText == <<"UPDATE", "users", "SET", "is_admin", "=", "1", ";">>

parse_simple_update == Parses(MakeAdminText, MakeAdmin)

parse_update_where ==
    Parses(<<"UPDATE", "products", "SET", "price", "=", "price", "-", "10", ",",
             "discount", "=", "15", ",", "stock", "=", "10",
             "WHERE", "price", ">", "100", ";">>,
           Update("products",
               <<Assignment("price", Bin(Id("price"), "-", Value("10"))),
                 Assignment("discount", Value("15")),
                 Assignment("stock", Value("10"))>>,
               <<Bin(Id("price"), ">", Value("100"))>>))

parse_delete_from ==
    Parses(<<"DELETE", "FROM", "products", ";">>, Delete("products", <<>>))

parse_delete_from_where ==
    Parses(<<"DELETE", "FROM", "products", "WHERE", "price", ">", "5000", ";">>,
           Delete("products", <<Bin(Id("price"), ">", Value("5000"))>>))

TestRow == <<Value("1"), Value("'Test'"), Value("'test@test.com'")>>
TestRowText == <<"VALUES", "(", "1", ",", "'Test'", ",", "'test@test.com'", ")", ";">>

parse_insert_into ==
    Parses(<<"INSERT", "INTO", "users", "(", "id", ",", "name", ",", "email", ")">>
                \o TestRowText,
           Insert("users", <<"id", "name", "email">>, TestRow))

parse_insert_into_optional_columns ==
    Parses(<<"INSERT", "INTO", "users">> \o TestRowText, Insert("users", <<>>, TestRow))

parse_drop_database ==
    Parses(<<"DROP", "DATABASE", "test", ";">>, DropOf("DATABASE", "test"))

parse_drop_table ==
    Parses(<<"DROP", "TABLE", "test", ";">>, DropOf("TABLE", "test"))

parse_multiple_statements ==
    Test("try_parse",
         <<"DROP", "TABLE", "test", ";">> \o MakeAdminText
            \o <<"SELECT", "*", "FROM", "products", ";">>,
         <<DropOf("TABLE", "test"), MakeAdmin, Select(All, "products", <<>>, <<>>)>>,
         Done)

parse_explain == Parses(<<"EXPLAIN">> \o ByEmailText, Explain(ByEmail))

arithmetic_operator_precedence ==
    Evaluates(<<"price", "*", "discount", "/", "100", "<", "10", "+", "20", "*", "30">>,
              Bin(Bin(Bin(Id("price"), "*", Id("discount")), "/", Value("100")),
                  "<",
                  Bin(Value("10"), "+", Bin(Value("20"), "*", Value("30")))))

nested_arithmetic_precedence ==
    Evaluates(<<"price", "*", "discount", ">=", "10", "-", "(", "20", "+", "50", ")", "/",
                "(", "2", "*", "(", "4", "+", "(", "1", "-", "1", ")", ")", ")">>,
              Bin(Bin(Id("price"), "*", Id("discount")),
                  ">=",
                  Bin(Value("10"), "-",
                      Bin(Nested(Bin(Value("20"), "+", Value("50"))), "/",
                          Nested(Bin(Value("2"), "*",
                              Nested(Bin(Value("4"), "+",
                                  Nested(Bin(Value("1"), "-", Value("1")))))))))))

and_or_operators_precedence ==
    Evaluates(<<"100", "<=", "price", "AND", "price", "<=", "200", "OR", "price", ">", "1000">>,
              Bin(Bin(Bin(Value("100"), "<=", Id("price")), "AND",
                      Bin(Id("price"), "<=", Value("200"))),
                  "OR",
                  Bin(Id("price"), ">", Value("1000"))))

unary_arithmetic_operator_precedence ==
    Evaluates(<<"-", "2", "*", "-", "(", "2", "+", "2", "*", "2", ")">>,
              Bin(Minus(Value("2")), "*",
                  Minus(Nested(Bin(Value("2"), "+", Bin(Value("2"), "*", Value("2")))))))

parse_unterminated_statement ==
    Fails(<<"SELECT", "*", "FROM", "users">>, "Expected", {";"}, Eof, 5)

parse_partial_select == Fails(<<"SELECT">>, "ExpectedOneOf", PrefixTokens, Eof, 2)

parse_partial_insert == Fails(<<"INSERT">>, "Expected", {"INTO"}, Eof, 2)

parse_unexpected_initial_token ==
    Fails(<<"/", "SELECT", "*", "FROM", "users", ";">>,
          "ExpectedOneOf", supported_statements, "/", 1)

parse_unexpected_initial_keyword ==
    Fails(<<"VARCHAR", "*", "FROM", "users", ";">>,
          "ExpectedOneOf", supported_statements, "VARCHAR", 1)

parse_unexpected_expression_token ==
    Fails(<<"SELECT", ")", "FROM", "TABLE", ";">>, "ExpectedOneOf", PrefixTokens, ")", 2)

expect_keyword_test ==
    Fails(<<"SELECT", "*", "VALUES", "users">>, "Expected", {"FROM"}, "VALUES", 3)

expect_one_of_keywords ==
    Fails(<<"DROP", "VALUES", "test">>, "ExpectedOneOf", {"DATABASE", "TABLE"}, "VALUES", 2)

expect_data_type ==
    Fails(<<"CREATE", "TABLE", "test", "(", "id", "INCORRECT", ")", ";">>,
          "ExpectedOneOf", supported_data_types, "INCORRECT", 6)

expect_identifier ==
    Fails(<<"INSERT", "INTO", "1", "VALUES", "(", "2", ")", ";">>,
          "Expected", {"identifier"}, "1", 3)

expect_varchar_length ==
    Fails(<<"CREATE", "TABLE", "test", "(", "name", "VARCHAR", "(", "test", ")", ")", ";">>,
          "Expected", {"number"}, "test", 8)

required_parenthesis ==
    Fails(<<"CREATE", "TABLE", "users", "id", "INT", "PRIMARY", "KEY", ",",
            "name", "VARCHAR", "(", "255", ")", ";">>,
          "Expected", {"("}, "id", 4)

Tests ==
    {parse_simple_select, parse_select_wildcard, parse_select_where,
     parse_select_with_expressions, parse_select_order_by, parse_create_database,
     parse_create_table, parse_create_index, parse_create_unique_index,
     parse_simple_update, parse_update_where, parse_delete_from,
     parse_delete_from_where, parse_insert_into, parse_insert_into_optional_columns,
     parse_drop_database, parse_drop_table, parse_multiple_statements, parse_explain,
     arithmetic_operator_precedence, nested_arithmetic_precedence,
     and_or_operators_precedence, unary_arithmetic_operator_precedence,
     parse_unterminated_statement, parse_partial_select, parse_partial_insert,
     parse_unexpected_initial_token, parse_unexpected_initial_keyword,
     parse_unexpected_expression_token, expect_keyword_test, expect_one_of_keywords,
     expect_data_type, expect_identifier, expect_varchar_length, required_parenthesis}

(* Every unit test of the parser passes: the trees of its text, or the     *)
(* error with its kind, the tokens expected and found, and its place.      *)
TestsPass ==
    outcome # Parsing =>
        \A t \in Tests :
            (t.call = call /\ t.tokens = self.tokens) =>
                parsed = t.parsed /\ outcome = t.outcome

=============================================================================

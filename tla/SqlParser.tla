------------------------------ MODULE SqlParser ------------------------------
(* The SQL parser of the Rust prototype: a recursive descent over the      *)
(* statements and a TDOP (top-down operator precedence) parser for the     *)
(* expressions in them (src/experiments/parser_in_rust/parser.rs).         *)
(*                                                                         *)
(* The tokenizer is not in the repository: an input is the sequence of     *)
(* tokens it hands over.  A token is a string: a keyword or a symbol is    *)
(* itself, and the sets Identifiers, Numbers and Strings say which other   *)
(* words are one.  A Parser is [tokens, at], where at counts the tokens    *)
(* consumed, so it is also the place of the last of them, `location`.      *)
(* A method takes the parser and returns a ParseResult: what it made of    *)
(* the tokens with the parser after it, or an error.                       *)
(* A definition that nothing uses and that stands just before another one  *)
(* is a mutant of it: a plausible mistake that some property catches.      *)
EXTENDS Naturals, Sequences

CONSTANTS
    Identifiers, Numbers, Strings,
    OutOfRange,     \* the numbers that do not fit a Value::Number
    TooLong,        \* the numbers that do not fit the length of a VARCHAR
    Calls           \* the calls on a new parser: [call, tokens]

ASSUME WordsAssumption ==
    /\ Identifiers \cap Numbers = {} /\ Identifiers \cap Strings = {}
    /\ Numbers \cap Strings = {}
    /\ OutOfRange \subseteq Numbers /\ TooLong \subseteq Numbers

VARIABLES
    call,       \* the method called: try_parse, parse_statement or parse_expression
    self,       \* the parser
    parsed,     \* the statements (or the expression) it has produced
    outcome     \* Parsing, Done, or the error it returned

vars == <<call, self, parsed, outcome>>

Whitespace == " "
Eof == "EOF"
TokenizerError == "?"       \* the tokenizer found no token here
None == "None"

-----------------------------------------------------------------------------
(* Trees *)

Identifier(name) == <<"Identifier", name>>
Value(literal) == <<"Value", literal>>
Wildcard == <<"Wildcard">>
UnaryOperation(operator, expr) == <<"UnaryOperation", operator, expr>>
BinaryOperation(left, operator, right) == <<"BinaryOperation", left, operator, right>>
Nested(expr) == <<"Nested", expr>>

(* The types a column may have: an unsigned integer type is two words.     *)
DataType(words) == words
Varchar(length) == <<"VARCHAR", length>>
Column(name, type, constraints) ==
    [name |-> name, type |-> type, constraints |-> constraints]
Assignment(identifier, value) == [identifier |-> identifier, value |-> value]

(* An optional clause is a sequence of at most one expression.             *)
Select(columns, from, where, order_by) ==
    [stmt |-> "Select", columns |-> columns, from |-> from,
     where |-> where, order_by |-> order_by]
CreateDatabase(name) == [stmt |-> "CreateDatabase", name |-> name]
CreateTable(name, columns) ==
    [stmt |-> "CreateTable", name |-> name, columns |-> columns]
CreateIndex(name, table, column, unique) ==
    [stmt |-> "CreateIndex", name |-> name, table |-> table,
     column |-> column, unique |-> unique]
Update(table, columns, where) ==
    [stmt |-> "Update", table |-> table, columns |-> columns, where |-> where]
Insert(into, columns, values) ==
    [stmt |-> "Insert", into |-> into, columns |-> columns, values |-> values]
Delete(from, where) == [stmt |-> "Delete", from |-> from, where |-> where]
DropOf(keyword, name) == [stmt |-> "Drop", what |-> keyword, name |-> name]
Plain(keyword) == [stmt |-> keyword]
Explain(statement) == [stmt |-> "Explain", statement |-> statement]

-----------------------------------------------------------------------------
(* Results *)

Ok(s, value) == [status |-> "Ok", self |-> s, value |-> value]

(* ParserError: the kind with what it names, and the place, which is the   *)
(* last token consumed.                                                    *)
Failure(kind, expected, found, at) ==
    [status |-> "Err", kind |-> kind, expected |-> expected, found |-> found, at |-> at]
error(s, kind, expected, found) == Failure(kind, expected, found, s.at)

(* The `?` operator: go on with the parser and the value, or return.       *)
then(result, step(_, _)) ==
    IF result.status = "Ok" THEN step(result.self, result.value) ELSE result

new(tokens) == [tokens |-> tokens, at |-> 0]

-----------------------------------------------------------------------------
(* The token stream *)

peek_token_in_stream(s) ==
    IF s.at = Len(s.tokens) THEN None ELSE s.tokens[s.at + 1]

next_token_in_stream(s) ==
    CASE peek_token_in_stream(s) = None -> error(s, "UnexpectedEof", {}, None)
      [] peek_token_in_stream(s) = TokenizerError ->
            Failure("TokenizerError", {}, TokenizerError, s.at + 1)
      [] OTHER -> Ok([s EXCEPT !.at = @ + 1], peek_token_in_stream(s))

skip_white_spaces(s) ==
    [s EXCEPT !.at =
        CHOOSE n \in @ .. Len(s.tokens) :
            /\ \A i \in s.at + 1 .. n : s.tokens[i] = Whitespace
            /\ n < Len(s.tokens) => s.tokens[n + 1] # Whitespace]

next_token(s) == next_token_in_stream(skip_white_spaces(s))
peek_token(s) == peek_token_in_stream(skip_white_spaces(s))

consume_optional_token(s, optional) ==
    IF peek_token(s) = optional
    THEN Ok(next_token(s).self, TRUE)
    ELSE Ok(skip_white_spaces(s), FALSE)

consume_optional_keyword(s, optional) == consume_optional_token(s, optional)

consume_one_of(s, keywords) ==
    IF \E keyword \in keywords : consume_optional_keyword(s, keyword).value
    THEN next_token(s)
    ELSE Ok(skip_white_spaces(s), None)

expect_token(s, expected) ==
    then(next_token(s), LAMBDA t, token :
        IF token = expected THEN Ok(t, token)
        ELSE error(t, "Expected", {expected}, token))

expect_keyword(s, expected) == expect_token(s, expected)

(* Keywords are tokens here, so tokens_from_keywords leaves them as they   *)
(* are; the order they are listed in is wording.                           *)
tokens_from_keywords(keywords) == keywords

expect_one_of_peeking(s, keywords) ==
    then(consume_one_of(s, keywords), LAMBDA t, keyword :
        IF keyword # None THEN Ok(t, keyword)
        ELSE error(t, "ExpectedOneOf", tokens_from_keywords(keywords), peek_token(t)))
expect_one_of(s, keywords) ==
    then(consume_one_of(s, keywords), LAMBDA t, keyword :
        IF keyword # None THEN Ok(t, keyword)
        ELSE then(next_token(t), LAMBDA u, token :
                error(u, "ExpectedOneOf", tokens_from_keywords(keywords), token)))

supported_statements ==
    {"SELECT", "CREATE", "UPDATE", "INSERT", "DELETE", "DROP",
     "START", "ROLLBACK", "COMMIT", "EXPLAIN"}
supported_data_types == {"INT", "BIGINT", "BOOL", "VARCHAR"}

parse_identifier(s) ==
    then(next_token(s), LAMBDA t, token :
        IF token \in Identifiers THEN Ok(t, token)
        ELSE error(t, "Expected", {"identifier"}, token))

(* Calls subparser, and again after every comma.                           *)
parse_comma_separated(s, subparser(_), required_parenthesis) ==
    LET RECURSIVE more(_, _)
        more(t, results) ==
            LET comma == consume_optional_token(t, ",") IN
            IF comma.value
            THEN then(subparser(comma.self), LAMBDA u, v : more(u, Append(results, v)))
            ELSE Ok(comma.self, results)
        listed(t) == then(subparser(t), LAMBDA u, v : more(u, <<v>>))
    IN  IF ~required_parenthesis THEN listed(s)
        ELSE then(expect_token(s, "("), LAMBDA t, left :
             then(listed(t), LAMBDA u, results :
             then(expect_token(u, ")"), LAMBDA v, right : Ok(v, results))))

-----------------------------------------------------------------------------
(* Expressions *)

UNARY_ARITHMETIC_OPERATOR_PRECEDENCE == 50

supported_operators ==
    {"+", "-", "/", "*", "=", "!=", ">", ">=", "<", "<=", "AND", "OR"}

PrefixTokensAndParenthesis == {"identifier", "number", "string", "*", "-", "+", "(", ")"}
PrefixTokens == {"identifier", "number", "string", "*", "-", "+", "("}

precedence_of(token) ==
    CASE token = "OR" -> 5
      [] token = "AND" -> 10
      [] token \in {"=", "!=", ">", ">=", "<", "<="} -> 20
      [] token \in {"+", "-"} -> 30
      [] token \in {"*", "/"} -> 40
      [] OTHER -> 0

get_next_precedence(s) == Ok(skip_white_spaces(s), precedence_of(peek_token(s)))

RECURSIVE parse_expr(_, _)

parse_expression(s) == parse_expr(s, 0)

parse_prefix(s) ==
    then(next_token(s), LAMBDA t, token :
        CASE token \in Identifiers -> Ok(t, Identifier(token))
          [] token = "*" -> Ok(t, Wildcard)
          [] token \in Strings \cup {"TRUE", "FALSE"} -> Ok(t, Value(token))
          [] token \in Numbers \ OutOfRange -> Ok(t, Value(token))
          [] token \in OutOfRange -> error(t, "IntegerOutOfRange", {}, token)
          [] token \in {"-", "+"} ->
                then(parse_expr(t, UNARY_ARITHMETIC_OPERATOR_PRECEDENCE),
                     LAMBDA u, expr : Ok(u, UnaryOperation(token, expr)))
          [] token = "(" ->
                then(parse_expression(t), LAMBDA u, expr :
                then(expect_token(u, ")"), LAMBDA v, right : Ok(v, Nested(expr))))
          [] OTHER -> error(t, "ExpectedOneOf", PrefixTokens, token))

parse_infix_to_the_right(s, left, precedence) ==
    then(next_token(s), LAMBDA t, token :
        then(parse_expr(t, precedence - 1), LAMBDA u, right :
            Ok(u, BinaryOperation(left, token, right))))
parse_infix(s, left, precedence) ==
    then(next_token(s), LAMBDA t, token :
        IF token \notin supported_operators
        THEN error(t, "ExpectedOneOf", supported_operators, token)
        ELSE then(parse_expr(t, precedence), LAMBDA u, right :
                Ok(u, BinaryOperation(left, token, right))))

parse_expr(s, precedence) ==
    LET RECURSIVE climb(_, _)
        climb(t, expr) ==
            LET next == get_next_precedence(t) IN
            IF precedence < next.value
            THEN then(parse_infix(next.self, expr, next.value), climb)
            ELSE Ok(next.self, expr)
    IN  then(parse_prefix(s), climb)

parse_comma_separated_expressions(s) ==
    parse_comma_separated(s, parse_expression, FALSE)

-----------------------------------------------------------------------------
(* Parts of statements *)

parse_data_type(s) ==
    then(expect_one_of(s, supported_data_types), LAMBDA t, type :
        CASE type \in {"INT", "BIGINT"} ->
                LET unsigned == consume_optional_keyword(t, "UNSIGNED") IN
                Ok(unsigned.self,
                   DataType(IF unsigned.value THEN <<type, "UNSIGNED">> ELSE <<type>>))
          [] type = "VARCHAR" ->
                then(expect_token(t, "("), LAMBDA u, left :
                then(next_token(u), LAMBDA v, length :
                    CASE length \in TooLong -> error(v, "Other", {}, length)
                      [] length \in Numbers \ TooLong ->
                            then(expect_token(v, ")"), LAMBDA w, right :
                                Ok(w, Varchar(length)))
                      [] OTHER -> error(v, "Expected", {"number"}, length)))
          [] OTHER -> Ok(t, DataType(<<type>>)))

parse_constraints(s) ==
    LET RECURSIVE more(_, _)
        more(t, constraints) ==
            then(consume_one_of(t, {"PRIMARY", "UNIQUE"}), LAMBDA u, constraint :
                CASE constraint = "PRIMARY" ->
                        then(expect_keyword(u, "KEY"), LAMBDA v, key :
                            more(v, Append(constraints, constraint)))
                  [] constraint = "UNIQUE" -> more(u, Append(constraints, constraint))
                  [] OTHER -> Ok(u, constraints))
    IN  more(s, <<>>)

parse_column(s) ==
    then(parse_identifier(s), LAMBDA t, name :
    then(parse_data_type(t), LAMBDA u, type :
    then(parse_constraints(u), LAMBDA v, constraints :
        Ok(v, Column(name, type, constraints)))))

parse_assignment(s) ==
    then(parse_identifier(s), LAMBDA t, identifier :
    then(expect_token(t, "="), LAMBDA u, eq :
    then(parse_expression(u), LAMBDA v, value :
        Ok(v, Assignment(identifier, value)))))

parse_column_definitions(s) == parse_comma_separated(s, parse_column, TRUE)

parse_identifier_list(s) == parse_comma_separated(s, parse_identifier, TRUE)

parse_optional_identifier_list(s) ==
    IF peek_token(s) = "(" THEN parse_identifier_list(s)
    ELSE Ok(skip_white_spaces(s), <<>>)

parse_optional_where(s) ==
    LET where == consume_optional_keyword(s, "WHERE") IN
    IF where.value
    THEN then(parse_expression(where.self), LAMBDA t, expr : Ok(t, <<expr>>))
    ELSE Ok(where.self, <<>>)

parse_from_and_optional_where(s) ==
    then(parse_identifier(s), LAMBDA t, from :
    then(parse_optional_where(t), LAMBDA u, where :
        Ok(u, [from |-> from, where |-> where])))

parse_optional_order_by(s) ==
    LET order == consume_optional_keyword(s, "ORDER") IN
    IF order.value
    THEN then(expect_keyword(order.self, "BY"), LAMBDA t, by :
            parse_comma_separated_expressions(t))
    ELSE Ok(order.self, <<>>)

-----------------------------------------------------------------------------
(* Statements: what follows the first keyword, up to the semicolon *)

parse_select(s) ==
    then(parse_comma_separated_expressions(s), LAMBDA t, columns :
    then(expect_keyword(t, "FROM"), LAMBDA u, from :
    then(parse_from_and_optional_where(u), LAMBDA v, source :
    then(parse_optional_order_by(v), LAMBDA w, order_by :
        Ok(w, Select(columns, source.from, source.where, order_by))))))

(* CREATE [UNIQUE] INDEX: INDEX is still to come after UNIQUE only.        *)
parse_index_definition(s, unique) ==
    then(IF unique THEN expect_keyword(s, "INDEX") ELSE Ok(s, None), LAMBDA t, index :
    then(parse_identifier(t), LAMBDA u, name :
    then(expect_keyword(u, "ON"), LAMBDA v, on :
    then(parse_identifier(v), LAMBDA w, table :
    then(expect_token(w, "("), LAMBDA x, left :
    then(parse_identifier(x), LAMBDA y, column :
    then(expect_token(y, ")"), LAMBDA z, right :
        Ok(z, CreateIndex(name, table, column, unique)))))))))

parse_create(s) ==
    then(expect_one_of(s, {"DATABASE", "TABLE", "UNIQUE", "INDEX"}), LAMBDA t, keyword :
        CASE keyword = "DATABASE" ->
                then(parse_identifier(t), LAMBDA u, name : Ok(u, CreateDatabase(name)))
          [] keyword = "TABLE" ->
                then(parse_identifier(t), LAMBDA u, name :
                then(parse_column_definitions(u), LAMBDA v, columns :
                    Ok(v, CreateTable(name, columns))))
          [] OTHER -> parse_index_definition(t, keyword = "UNIQUE"))

parse_update(s) ==
    then(parse_identifier(s), LAMBDA t, table :
    then(expect_keyword(t, "SET"), LAMBDA u, set :
    then(parse_comma_separated(u, parse_assignment, FALSE), LAMBDA v, columns :
    then(parse_optional_where(v), LAMBDA w, where :
        Ok(w, Update(table, columns, where))))))

parse_insert(s) ==
    then(expect_keyword(s, "INTO"), LAMBDA t, keyword :
    then(parse_identifier(t), LAMBDA u, into :
    then(parse_optional_identifier_list(u), LAMBDA v, columns :
    then(expect_keyword(v, "VALUES"), LAMBDA w, keyword2 :
    then(parse_comma_separated(w, parse_expression, TRUE), LAMBDA x, values :
        Ok(x, Insert(into, columns, values)))))))

parse_delete(s) ==
    then(expect_keyword(s, "FROM"), LAMBDA t, keyword :
    then(parse_from_and_optional_where(t), LAMBDA u, source :
        Ok(u, Delete(source.from, source.where))))

parse_drop(s) ==
    then(expect_one_of(s, {"DATABASE", "TABLE"}), LAMBDA t, keyword :
    then(parse_identifier(t), LAMBDA u, name : Ok(u, DropOf(keyword, name))))

parse_start(s) ==
    then(expect_keyword(s, "TRANSACTION"), LAMBDA t, keyword : Ok(t, Plain("START")))

terminated_or_not(result) ==
    then(result, LAMBDA t, statement : Ok(consume_optional_token(t, ";").self, statement))
terminated(result) ==
    then(result, LAMBDA t, statement :
    then(expect_token(t, ";"), LAMBDA u, semicolon : Ok(u, statement)))

(* EXPLAIN returns at once: the statement in it has consumed the semicolon. *)
RECURSIVE parse_statement(_)
parse_statement(s) ==
    then(expect_one_of(s, supported_statements), LAMBDA t, keyword :
        CASE keyword = "SELECT" -> terminated(parse_select(t))
          [] keyword = "CREATE" -> terminated(parse_create(t))
          [] keyword = "UPDATE" -> terminated(parse_update(t))
          [] keyword = "INSERT" -> terminated(parse_insert(t))
          [] keyword = "DELETE" -> terminated(parse_delete(t))
          [] keyword = "DROP" -> terminated(parse_drop(t))
          [] keyword = "START" -> terminated(parse_start(t))
          [] keyword \in {"COMMIT", "ROLLBACK"} -> terminated(Ok(t, Plain(keyword)))
          [] keyword = "EXPLAIN" ->
                then(parse_statement(t), LAMBDA u, statement : Ok(u, Explain(statement))))

-----------------------------------------------------------------------------
(* A parser at work.  try_parse takes one turn of its loop per step.       *)

Parsing == [status |-> "Parsing"]
Done == [status |-> "Done"]

Init ==
    \E c \in Calls :
        /\ call = c.call /\ self = new(c.tokens)
        /\ parsed = <<>> /\ outcome = Parsing

Returns(result, next) ==
    IF result.status = "Ok"
    THEN /\ parsed' = Append(parsed, result.value)
         /\ self' = result.self
         /\ outcome' = next
    ELSE /\ self' = [self EXCEPT !.at = result.at]
         /\ outcome' = result
         /\ UNCHANGED parsed

AtEnd == peek_token(self) \in {Eof, None}

try_parse ==
    /\ call = "try_parse" /\ outcome = Parsing /\ ~AtEnd
    /\ Returns(parse_statement(self), Parsing)
    /\ UNCHANGED call

try_parse_returns ==
    /\ call = "try_parse" /\ outcome = Parsing /\ AtEnd
    /\ outcome' = Done
    /\ self' = skip_white_spaces(self)
    /\ UNCHANGED <<call, parsed>>

call_parse_statement ==
    /\ call = "parse_statement" /\ outcome = Parsing
    /\ Returns(parse_statement(self), Done)
    /\ UNCHANGED call

call_parse_expression ==
    /\ call = "parse_expression" /\ outcome = Parsing
    /\ Returns(parse_expression(self), Done)
    /\ UNCHANGED call

Next ==
    \/ try_parse
    \/ try_parse_returns
    \/ call_parse_statement
    \/ call_parse_expression

Spec == Init /\ [][Next]_vars
=============================================================================

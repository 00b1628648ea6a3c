------------------------------ MODULE SqlGrammar ------------------------------
(* What the parser of the Rust prototype promises: the text of a tree, the *)
(* expressions of the language and the shape of their trees, stated        *)
(* without a parser, and the properties that relate them to SqlParser.     *)
EXTENDS SqlParser, SequencesExt

-----------------------------------------------------------------------------
(* The text of a tree *)

RECURSIVE expression_text(_)
expression_text(e) ==
    CASE e[1] = "Wildcard" -> <<"*">>
      [] e[1] \in {"Identifier", "Value"} -> <<e[2]>>
      [] e[1] = "UnaryOperation" -> <<e[2]>> \o expression_text(e[3])
      [] e[1] = "BinaryOperation" ->
            expression_text(e[2]) \o <<e[3]>> \o expression_text(e[4])
      [] e[1] = "Nested" -> <<"(">> \o expression_text(e[2]) \o <<")">>

listed(items, text(_)) ==
    FoldLeftDomain(LAMBDA all, i : all \o (IF i = 1 THEN <<>> ELSE <<",">>) \o text(items[i]),
                   <<>>, items)
word(w) == <<w>>
clause(keywords, items, text(_)) ==
    IF items = <<>> THEN <<>> ELSE keywords \o listed(items, text)

type_text(type) ==
    IF type[1] = "VARCHAR" THEN <<"VARCHAR", "(", type[2], ")">> ELSE type
constraint_text(c) == IF c = "PRIMARY" THEN <<"PRIMARY", "KEY">> ELSE <<c>>
column_text(c) ==
    <<c.name>> \o type_text(c.type)
        \o FlattenSeq([i \in DOMAIN c.constraints |-> constraint_text(c.constraints[i])])
assignment_text(a) == <<a.identifier, "=">> \o expression_text(a.value)

where_text(st) == clause(<<"WHERE">>, st.where, expression_text)

RECURSIVE statement_text(_)
statement_text(st) ==
    CASE st.stmt = "Select" ->
            <<"SELECT">> \o listed(st.columns, expression_text) \o <<"FROM", st.from>>
                \o where_text(st) \o clause(<<"ORDER", "BY">>, st.order_by, expression_text)
                \o <<";">>
      [] st.stmt = "CreateDatabase" -> <<"CREATE", "DATABASE", st.name, ";">>
      [] st.stmt = "CreateTable" ->
            <<"CREATE", "TABLE", st.name, "(">> \o listed(st.columns, column_text) \o <<")", ";">>
      [] st.stmt = "CreateIndex" ->
            <<"CREATE">> \o (IF st.unique THEN <<"UNIQUE">> ELSE <<>>)
                \o <<"INDEX", st.name, "ON", st.table, "(", st.column, ")", ";">>
      [] st.stmt = "Update" ->
            <<"UPDATE", st.table, "SET">> \o listed(st.columns, assignment_text)
                \o where_text(st) \o <<";">>
      [] st.stmt = "Insert" ->
            <<"INSERT", "INTO", st.into>>
                \o (IF st.columns = <<>> THEN <<>>
                    ELSE <<"(">> \o listed(st.columns, word) \o <<")">>)
                \o <<"VALUES", "(">> \o listed(st.values, expression_text) \o <<")", ";">>
      [] st.stmt = "Delete" -> <<"DELETE", "FROM", st.from>> \o where_text(st) \o <<";">>
      [] st.stmt = "Drop" -> <<"DROP", st.what, st.name, ";">>
      [] st.stmt = "START" -> <<"START", "TRANSACTION", ";">>
      [] st.stmt \in {"COMMIT", "ROLLBACK"} -> <<st.stmt, ";">>
      [] st.stmt = "Explain" -> <<"EXPLAIN">> \o statement_text(st.statement)

-----------------------------------------------------------------------------
(* The expressions of the language *)

words(tokens) == SelectSeq(tokens, LAMBDA token : token \notin {Whitespace, Eof})

Atoms == Identifiers \cup Strings \cup (Numbers \ OutOfRange) \cup {"TRUE", "FALSE", "*"}

(* An ambiguous grammar: an atom, a sign before an expression, parentheses *)
(* around one, an operator between two.                                    *)
RECURSIVE IsExpression(_)
IsExpression(w) ==
    \/ Len(w) = 1 /\ w[1] \in Atoms
    \/ Len(w) > 1 /\ w[1] \in {"-", "+"} /\ IsExpression(Tail(w))
    \/ Len(w) > 2 /\ w[1] = "(" /\ w[Len(w)] = ")"
                  /\ IsExpression(SubSeq(w, 2, Len(w) - 1))
    \/ \E i \in 2 .. Len(w) - 1 :
            /\ precedence_of(w[i]) > 0
            /\ IsExpression(SubSeq(w, 1, i - 1))
            /\ IsExpression(SubSeq(w, i + 1, Len(w)))

(* How tightly each operator binds, loosest first.                         *)
Levels == <<{"OR"}, {"AND"}, {"=", "!=", ">", ">=", "<", "<="}, {"+", "-"}, {"*", "/"}>>
level(e) ==
    IF e[1] = "BinaryOperation" THEN CHOOSE i \in DOMAIN Levels : e[3] \in Levels[i]
    ELSE Len(Levels) + 1

(* The one tree of a text in which a tighter operator stands below a       *)
(* looser one, operators of a level associate to the left, and a sign      *)
(* binds tighter than any of them.                                         *)
RECURSIVE WellBound(_)
WellBound(e) ==
    CASE e[1] = "BinaryOperation" ->
            /\ level(e[2]) >= level(e) /\ level(e[4]) > level(e)
            /\ WellBound(e[2]) /\ WellBound(e[4])
      [] e[1] = "UnaryOperation" -> level(e[3]) > Len(Levels) /\ WellBound(e[3])
      [] e[1] = "Nested" -> WellBound(e[2])
      [] OTHER -> TRUE

(* The call again, on other tokens.                                        *)
RECURSIVE statements_of(_)
statements_of(s) ==
    IF peek_token(s) \in {Eof, None} THEN Ok(s, None)
    ELSE then(parse_statement(s), LAMBDA t, statement : statements_of(t))
again(tokens) ==
    CASE call = "parse_expression" -> parse_expression(new(tokens))
      [] call = "parse_statement" -> parse_statement(new(tokens))
      [] OTHER -> statements_of(new(tokens))

-----------------------------------------------------------------------------
(* Properties *)

consumed == words(SubSeq(self.tokens, 1, self.at))
failed == outcome.status = "Err"

(* Nothing a statement says is lost, moved or made up: written out again,  *)
(* the statements parsed so far are the tokens that were consumed,         *)
(* whitespace aside, each with its own semicolon and EXPLAIN with the one  *)
(* of the statement in it.                                                 *)
StatementsAreTheText ==
    (call # "parse_expression" /\ ~failed) =>
        FlattenSeq([i \in DOMAIN parsed |-> statement_text(parsed[i])]) = consumed

(* parse_expression accepts the expressions of the grammar, all of them    *)
(* and to their end, and gives each its one tree: parse_prefix,            *)
(* parse_infix and the loop of parse_expr agree on the precedences.        *)
ExpressionsOfTheGrammar ==
    (call = "parse_expression" /\ outcome # Parsing) =>
        /\ IsExpression(words(self.tokens)) <=> (~failed /\ consumed = words(self.tokens))
        /\ ~failed => /\ WellBound(parsed[1])
                      /\ expression_text(parsed[1]) = consumed

(* What an error suggests is right: with the token it found replaced by    *)
(* any it says it expected, the same call gets further.  And no error is   *)
(* about the end of the stream, which no method reads past (the comment of *)
(* next_token_in_stream).                                                  *)
SuggestionsWork ==
    failed =>
        /\ outcome.kind # "UnexpectedEof"
        /\ \A token \in outcome.expected :
            LET example ==
                    CASE token = "identifier" -> CHOOSE x \in Identifiers : TRUE
                      [] token = "number" -> CHOOSE x \in Numbers : x \notin OutOfRange \cup TooLong
                      [] token = "string" -> CHOOSE x \in Strings : TRUE
                      [] OTHER -> token
                result == again(SubSeq(self.tokens, 1, outcome.at - 1) \o <<example, Eof>>)
            IN  result.status = "Ok" \/ result.at > outcome.at
=============================================================================

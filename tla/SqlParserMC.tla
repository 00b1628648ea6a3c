------------------------------ MODULE SqlParserMC ------------------------------
(* SqlParser for TLC: the words and the inputs of the instance.            *)
EXTENDS SqlParserTests

Words ==
    {"id", "name", "email", "users", "products", "price", "discount", "stock", "test",
     "is_admin", "some_column", "test_idx", "email_uq_idx", "INCORRECT", "a"}
SmallNumbers ==
    {"1", "2", "4", "10", "15", "20", "30", "50", "100", "200", "255", "1000", "5000"}
TooBig == {"2^99"}          \* neither a value nor a length
Long == {"2^70", "2^99"}    \* no length, and the first still a value
AllNumbers == SmallNumbers \cup Long
Texts == {"'Test'", "'test@test.com'"}

tests == {[call |-> t.call, tokens |-> t.tokens] : t \in Tests}

(* Every sequence of up to five of these tokens is given as an expression. *)
Tokens == {"a", "*", "-", "<", "AND", "(", ")"}
short_expressions ==
    {[call |-> "parse_expression", tokens |-> Append(w, Eof)] : w \in SeqOf(Tokens, 5)}

(* Chains of three operators of every level between operands with and      *)
(* without a sign, and a group, and with a blank before the last of them.  *)
Operands == {<<"a">>, <<"-", "a">>, <<"(", "a", "OR", "2", ")">>}
Operators == {"OR", "AND", "=", "-", "+", "*", "/"}
chains ==
    {[call |-> "parse_expression",
      tokens |-> u \o <<o>> \o v \o <<p>> \o u \o <<q, " ">> \o v \o <<Eof>>] :
        u \in Operands, v \in Operands, o \in Operators, p \in Operators, q \in Operators}

(* Each text of a test with one token removed, written twice or replaced.  *)
wrong_tokens ==
    {"a", "1", "2^70", "2^99", "'Test'", ",", ";", "(", "-", "UNIQUE", "VALUES", "WHERE",
     "TABLE", "EXPLAIN", "ORDER", "?"}
changed(tokens) ==
    LET n == Len(tokens) - 1 IN
        {RemoveAt(tokens, i) : i \in 1..n}
        \cup {InsertAt(tokens, i, tokens[i]) : i \in 1..n}
        \cup {ReplaceAt(tokens, i, w) : i \in {j \in 1..n : tokens[j] # Whitespace},
                                       w \in wrong_tokens}
mistakes ==
    UNION {{[call |-> c.call, tokens |-> tokens] : tokens \in changed(c.tokens)} : c \in tests}

(* Two texts of tests, one after the other and under EXPLAIN.              *)
statements == {c \in tests : c.call = "parse_statement"}
scripts ==
    {[call |-> "try_parse", tokens |-> Front(c.tokens) \o <<"EXPLAIN">> \o d.tokens] :
        c \in statements, d \in statements}

SmallCalls == tests \cup short_expressions \cup chains \cup mistakes \cup scripts
=============================================================================

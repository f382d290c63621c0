------------------------------- MODULE Parser -------------------------------
(***************************************************************************)
(* The expression parser of src/sql/parser/parser.rs: precedence climbing  *)
(* over the tokens that src/sql/parser/lexer.rs yields.  A token is a      *)
(* string; identifiers and literals are atoms with no structure of their   *)
(* own.  An expression is an operator and its operands.                    *)
(***************************************************************************)
EXTENDS Integers, Sequences, FiniteSets, SequencesExt, TLC

CONSTANTS
    MaxOperators    \* bound: operators in an expression

Operation(op, args) == [op |-> op, args |-> args]

Atom(name) == Operation(<<"atom", name>>, <<>>)

Identifiers == {"a", "f"}

Literals == {"1", "TRUE", "NULL", "NAN"}

-----------------------------------------------------------------------------
(* Operators: their tokens and precedences.                                *)

Of(tokens, precedence) == [t \in tokens |-> precedence]

PrefixOperator == Of({"NOT"}, 3) @@ Of({"-", "+"}, 10)

InfixOperator ==
    Of({"OR"}, 1) @@ Of({"AND"}, 2) @@ Of({"=", "!=", "<>", "LIKE"}, 4)
        @@ Of({"<", "<=", ">", ">="}, 5) @@ Of({"+", "-"}, 6) @@ Of({"*", "/", "%"}, 7)
        @@ Of({"^"}, 8)

PostfixOperator == Of({"IS"}, 4) @@ Of({"!"}, 9)

\* Mutant: associativity is not added to the precedence.
RightOfSame(infix) == InfixOperator[infix]

\* Precedence + Associativity: what the right operand's operators must reach.
RightOf(infix) == InfixOperator[infix] + IF infix = "^" THEN 0 ELSE 1

\* into_expression.
Prefixed(op, x)  == Operation(<<"prefix", op>>, <<x>>)
Factorial(x)     == Operation(<<"postfix", "!">>, <<x>>)
Is(x, literal)   == Operation(<<"postfix", "IS", literal>>, <<x>>)
Call(f, args)    == Operation(<<"function", f>>, args)
Infixed(op, x, y) == Operation(<<"infix", IF op = "<>" THEN "!=" ELSE op>>, <<x, y>>)

-----------------------------------------------------------------------------
(* Parsing: an expression and the tokens that are left, or an error.       *)

Syntax == [ok |-> FALSE, rest |-> <<>>]

Parsed(e, rest) == [ok |-> TRUE, e |-> e, rest |-> rest]

\* Parser::peek; "" at the end of the input.
Peek(tokens) == IF tokens = <<>> THEN "" ELSE tokens[1]

Drop1(tokens) == SubSeq(tokens, 2, Len(tokens))

\* Parser::expect, after an expression.
Expect(r, token) == IF r.ok /\ Peek(r.rest) = token THEN [r EXCEPT !.rest = Drop1(@)] ELSE Syntax

\* IS [NOT] NULL | NAN; r.rest begins with IS.
ParseIs(r) ==
    LET negated == Peek(Drop1(r.rest)) = "NOT"
        operand == IF negated THEN Drop1(Drop1(r.rest)) ELSE Drop1(r.rest)
        is      == Is(r.e, Peek(operand))
    IN  IF Peek(operand) \notin {"NULL", "NAN"} THEN Syntax
        ELSE Parsed(IF negated THEN Prefixed("NOT", is) ELSE is, Drop1(operand))

RECURSIVE ParsePostfix(_, _)
ParsePostfix(r, min) ==
    IF ~r.ok \/ Peek(r.rest) \notin DOMAIN PostfixOperator THEN r
    ELSE IF PostfixOperator[Peek(r.rest)] < min THEN r
    ELSE ParsePostfix(IF Peek(r.rest) = "IS" THEN ParseIs(r)
                      ELSE Parsed(Factorial(r.e), Drop1(r.rest)), min)

RECURSIVE ParseInfix(_, _), ParseExpressionAt(_, _), ParseArguments(_, _)

\* Infix operators, as long as their precedence is at least min.
ParseInfix(r, min) ==
    IF ~r.ok \/ Peek(r.rest) \notin DOMAIN InfixOperator THEN r
    ELSE IF InfixOperator[Peek(r.rest)] < min THEN r
    ELSE LET rhs == ParseExpressionAt(Drop1(r.rest), RightOf(Peek(r.rest)))
         IN  ParseInfix(IF rhs.ok THEN Parsed(Infixed(Peek(r.rest), r.e, rhs.e), rhs.rest)
                        ELSE Syntax, min)

\* The arguments of a function, up to its closing parenthesis; call has those so far.
ParseArguments(call, tokens) ==
    IF Peek(tokens) = ")" THEN Parsed(call, Drop1(tokens))
    ELSE IF call.args # <<>> /\ Peek(tokens) # "," THEN Syntax
    ELSE LET argument == ParseExpressionAt(IF call.args = <<>> THEN tokens ELSE Drop1(tokens), 0)
         IN  IF ~argument.ok THEN Syntax
             ELSE ParseArguments([call EXCEPT !.args = Append(@, argument.e)], argument.rest)

ParseAtom(tokens) ==
    LET token == Peek(tokens)
        rest  == Drop1(tokens)
    IN  CASE token \in Identifiers /\ Peek(rest) = "(" ->
                ParseArguments(Call(token, <<>>), Drop1(rest))
          [] token \in Identifiers /\ Peek(rest) = "." ->
                IF Peek(Drop1(rest)) \notin Identifiers THEN Syntax
                ELSE Parsed(Atom(<<token, Peek(Drop1(rest))>>), Drop1(Drop1(rest)))
          [] token \in Identifiers /\ Peek(rest) \notin {"(", "."} -> Parsed(Atom(token), rest)
          [] token \in Literals \cup {"*"} -> Parsed(Atom(token), rest)
          [] token = "(" -> Expect(ParseExpressionAt(rest, 0), ")")
          [] OTHER -> Syntax

ParsePrefixed(op, operand) ==
    IF operand.ok THEN Parsed(Prefixed(op, operand.e), operand.rest) ELSE Syntax

ParseExpressionAt(tokens, min) ==
    LET op == Peek(tokens)
        isPrefix == op \in DOMAIN PrefixOperator /\ PrefixOperator[op] >= min
        lhs == IF isPrefix
               THEN ParsePrefixed(op, ParseExpressionAt(Drop1(tokens), PrefixOperator[op]))
               ELSE ParseAtom(tokens)
    IN  ParsePostfix(ParseInfix(ParsePostfix(lhs, min), min), min)

ParseExpression(tokens) ==
    LET r == ParseExpressionAt(tokens, 0) IN IF r.rest = <<>> THEN r ELSE Syntax

-----------------------------------------------------------------------------
(* Expressions as they are written by the table of precedences and         *)
(* associativities in the comment on parse_expression.                     *)

Precedence(e) ==
    CASE e.op[1] = "prefix"  -> PrefixOperator[e.op[2]]
      [] e.op[1] = "infix"   -> InfixOperator[e.op[2]]
      [] e.op[1] = "postfix" -> PostfixOperator[e.op[2]]
      [] OTHER               -> 11

\* The precedence below which an operand of e is written in parentheses.
OperandLevel(e, i) ==
    Precedence(e) + IF e.op[1] = "infix" /\ (e.op[2] = "^") = (i = 1) THEN 1 ELSE 0

RECURSIVE Written(_, _)
Written(e, level) ==
    LET operand(i) == Written(e.args[i], OperandLevel(e, i))
        bare == CASE e.op[1] = "prefix"  -> <<e.op[2]>> \o operand(1)
                  [] e.op[1] = "infix"   -> operand(1) \o <<e.op[2]>> \o operand(2)
                  [] e.op[1] = "postfix" -> operand(1) \o SubSeq(e.op, 2, Len(e.op))
                  [] e.op[1] = "atom"    -> <<e.op[2]>>
                  [] e.op[1] = "function" ->
                        <<e.op[2], "(">> \o Written(e.args[1], 0) \o <<",">>
                            \o Written(e.args[2], 0) \o <<")">>
    IN  IF Precedence(e) < level THEN <<"(">> \o bare \o <<")">> ELSE bare

\* All expressions of n operators.
RECURSIVE Expressions(_, _, _)
Expressions(n, Unary(_), infix) ==
    IF n = 0 THEN {Atom("a")}
    ELSE UNION {Unary(x) : x \in Expressions(n - 1, Unary, infix)}
             \cup UNION {{Infixed(op, x, y) : op \in infix, x \in Expressions(i, Unary, infix),
                                              y \in Expressions(n - 1 - i, Unary, infix)}
                         : i \in 0..n - 1}

\* An operator of each kind, and all of them.
SomeUnary(x) == {Prefixed("NOT", x), Prefixed("-", x), Factorial(x), Is(x, "NULL")}
SomeInfix == {"OR", "=", "+", "^"}
AllUnary(x) == SomeUnary(x) \cup {Prefixed("+", x), Is(x, "NAN"), Call("f", <<x, Atom("1")>>),
                                  Call("f", <<Atom("TRUE"), x>>)}

\* The operand is not in parentheses.
Bare(e, i) == Precedence(e.args[i]) >= OperandLevel(e, i)

\* Postfix operators after an infix expression.
RECURSIVE EndsInfix(_)
EndsInfix(e) ==
    /\ e.op[1] = "postfix" /\ Bare(e, 1)
    /\ e.args[1].op[1] = "infix" \/ EndsInfix(e.args[1])

\* An infix operator follows them, as in a + b IS NULL AND c.
RECURSIVE Resumes(_)
Resumes(e) ==
    \/ e.op[1] = "infix" /\ Bare(e, 1) /\ EndsInfix(e.args[1])
    \/ \E i \in DOMAIN e.args : Resumes(e.args[i])

\* The expressions that are checked.
SomeExpressions ==
    UNION {Expressions(n, SomeUnary, SomeInfix) : n \in 0..MaxOperators}
        \cup UNION {Expressions(n, AllUnary, DOMAIN InfixOperator) : n \in 0..2}

IsParsedAsWritten(e) == ParseExpression(Written(e, 0)) = Parsed(e, <<>>)
=============================================================================

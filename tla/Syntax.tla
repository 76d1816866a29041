-------------------------------- MODULE Syntax --------------------------------
(* Syntax declarations and the expressions parsed with them.  syntax.c and   *)
(* token.c enter the elements of a statement or operator behind the          *)
(* identifier it begins with, as alternatives of formal tokens; expr.c       *)
(* parses expressions by priorities along these tokens.  A call stands for   *)
(* its text with every operator expression in angle brackets; after the      *)
(* first error of an expression its result does not matter.                  *)
EXTENDS Integers, Sequences
LOCAL INSTANCE SequencesExt

CONSTANTS Grammar,             \* sequences of syntax declarations
          Text                 \* the texts that are parsed with a grammar

VARIABLES grammar,             \* the declarations that are read
          read,                \* how many of them have been read
          syntax,              \* priorities of the identifiers, formal tokens
          text, parsed         \* the text parsed last, and the result

syntaxVars == <<grammar, read, syntax, text, parsed>>

STRONGEST_PRIORITY == 0
COM_PRIORITY == 99
WEAKEST_PRIORITY == 127

\* An element of a declaration is an operand or a symbol.
Operand == "()"
EndOfText == "end of text"

\* assocType: what the left and the right operand may be.
LeftMayEqual == {"->", "-><-"}
RightMayEqual == {"<-", "-><-"}

NoIdent == [prefix |-> 0, infix |-> 0, left |-> -1]
NotParsed == [text |-> <<>>, rest |-> <<>>, okay |-> FALSE]

---------------------------------------------------------------------------
(* Identifiers and formal tokens: a syntax description knows the identifiers *)
(* with priorities and, for every beginning of a declaration, the            *)
(* alternatives that may follow.                                             *)

NoSyntax == [ident |-> <<>>, tokens |-> <<>>, wrong |-> FALSE]

Ident(s, i) == IF i \in DOMAIN s.ident THEN s.ident[i] ELSE NoIdent
Tokens(s, path) == IF path \in DOMAIN s.tokens THEN s.tokens[path] ELSE <<>>

SetIdent(s, i, properties) ==
    [s EXCEPT !.ident = [j \in DOMAIN @ \cup {i} |-> IF j = i THEN properties ELSE @[j]]]
SetTokens(s, path, alternatives) ==
    [s EXCEPT !.tokens = [p \in DOMAIN @ \cup {path} |-> IF p = path THEN alternatives ELSE @[p]]]

SyToken(i) == [category |-> "symbol", ident |-> i, priority |-> 0]
ExprToken(p) == [category |-> "operand", ident |-> Operand, priority |-> p]
Description == [category |-> "description", ident |-> EndOfText, priority |-> 0]

\* get_sy_token: a new symbol comes before the other alternatives.
GetSyToken(s, path, i) ==
    LET alternatives == Tokens(s, path)
    IN IF SyToken(i) \in ToSet(alternatives) THEN s
       ELSE SetTokens(s, path, <<SyToken(i)>> \o alternatives)

\* get_expr_token: an operand comes after the symbols and before a description.
GetExprToken(s, path, p) ==
    LET alternatives == Tokens(s, path)
        known == SelectSeq(alternatives, LAMBDA t : t.category = "operand")
    IN IF known # <<>> THEN [s EXCEPT !.wrong = @ \/ Head(known).priority # p]
       ELSE SetTokens(s, path, SelectSeq(alternatives, LAMBDA t : t.category = "symbol")
                               \o <<ExprToken(p)>>
                               \o SelectSeq(alternatives, LAMBDA t : t.category = "description"))

\* get_syntax_description: the last alternative; decl_syntax complains when it
\* is there already.
GetSyntaxDescription(s, path) ==
    IF Description \in ToSet(Tokens(s, path)) THEN [s EXCEPT !.wrong = TRUE]
    ELSE SetTokens(s, path, Append(Tokens(s, path), Description))

\* A priority that is declared twice must be the same.
WithPrefix(s, i, p) ==
    IF Ident(s, i).prefix = 0 THEN SetIdent(s, i, [Ident(s, i) EXCEPT !.prefix = p])
    ELSE [s EXCEPT !.wrong = @ \/ Ident(s, i).prefix # p]
WithInfix(s, i, p) ==
    IF Ident(s, i).infix = 0 THEN SetIdent(s, i, [Ident(s, i) EXCEPT !.infix = p])
    ELSE [s EXCEPT !.wrong = @ \/ Ident(s, i).infix # p]

\* def_single_token: a symbol after an operand gets the weakest priorities, so
\* that it ends the expression before it.
DefSingleToken(s, path, element, priority) ==
    IF element = Operand THEN GetExprToken(s, path, priority)
    ELSE LET t == GetSyToken(s, path, element)
         IN IF Last(path) = Operand
            THEN WithInfix(WithPrefix(t, element, WEAKEST_PRIORITY), element, WEAKEST_PRIORITY)
            ELSE t

\* def_token_list: operands before the last symbol may have any priority.
DefTokenList(s, start, elements, rightPriority) ==
    LET symbols == {i \in DOMAIN elements : elements[i] # Operand}
        priority(i) == IF \E j \in symbols : i <= j THEN WEAKEST_PRIORITY ELSE rightPriority
        def(t, i) == DefSingleToken(t, start \o SubSeq(elements, 1, i - 1), elements[i], priority(i))
    IN GetSyntaxDescription(FoldLeft(def, s, [i \in DOMAIN elements |-> i]), start \o elements)

\* Mutant: binding from left to right also lets the right operand be equal.
RightPriorityLoose(d) == IF d.assoc \in RightMayEqual \cup {"->"} THEN d.priority ELSE d.priority - 1

RightPriority(d) == IF d.assoc \in RightMayEqual THEN d.priority ELSE d.priority - 1

LeftPriority(d) == IF d.assoc \in LeftMayEqual THEN d.priority ELSE d.priority - 1

\* def_infix_syntax
DefInfixSyntax(s, d) ==
    LET operator == d.elements[2]
        t == WithInfix(s, operator, d.priority)
    IN DefTokenList(SetIdent(t, operator, [Ident(t, operator) EXCEPT !.left = LeftPriority(d)]),
                    <<"infix", operator>>, SubSeq(d.elements, 3, Len(d.elements)), RightPriority(d))

\* def_prefix_syntax
DefPrefixSyntax(s, d) ==
    DefTokenList(WithPrefix(s, d.elements[1], d.priority),
                 <<"prefix", d.elements[1]>>, Tail(d.elements), RightPriority(d))

\* def_statement_syntax
DefStatementSyntax(s, d) ==
    IF d.elements[1] = Operand THEN DefInfixSyntax(s, d) ELSE DefPrefixSyntax(s, d)

---------------------------------------------------------------------------
(* Expressions.                                                             *)

CurrentIdent(rest) == IF rest = <<>> THEN EndOfText ELSE Head(rest)

Parsed(t, rest) == [text |-> t, rest |-> rest, okay |-> TRUE]
Operation(t) == <<"<">> \o t \o <<">">>

RECURSIVE ParsInfixExpression(_, _, _), ParsToken(_, _, _, _, _), ParsInfixes(_, _, _, _, _), ParsParameters(_, _, _)

\* read_call_expression: parentheses, an atom, or an atom with parameters.
ParsParameters(s, rest, parameters) ==
    LET p == ParsInfixExpression(s, rest, COM_PRIORITY)
        all == parameters \o p.text
    IN IF ~p.okay THEN NotParsed
       ELSE IF CurrentIdent(p.rest) = "," THEN ParsParameters(s, Tail(p.rest), all)
       ELSE IF CurrentIdent(p.rest) = ")" THEN Parsed(all, Tail(p.rest))
       ELSE NotParsed

ReadCallExpression(s, rest) ==
    IF CurrentIdent(rest) = "("
    THEN LET inner == ParsInfixExpression(s, Tail(rest), WEAKEST_PRIORITY)
         IN IF inner.okay /\ CurrentIdent(inner.rest) = ")" THEN Parsed(inner.text, Tail(inner.rest))
            ELSE NotParsed
    ELSE IF CurrentIdent(rest) \in {EndOfText, ")", ","} THEN NotParsed
    ELSE IF CurrentIdent(Tail(rest)) # "(" THEN Parsed(<<Head(rest)>>, Tail(rest))
    ELSE IF CurrentIdent(Tail(Tail(rest))) = ")" THEN Parsed(<<Head(rest)>>, SubSeq(rest, 4, Len(rest)))
    ELSE LET p == ParsParameters(s, Tail(Tail(rest)), <<>>)
         IN IF p.okay THEN Parsed(Operation(Append(p.text, Head(rest))), p.rest) ELSE NotParsed

\* pars_token: follow the formal tokens; "n" is the alternative that is tried.
ParsToken(s, path, n, rest, result) ==
    LET alternatives == Tokens(s, path)
        formal == alternatives[n]
        operand == ParsInfixExpression(s, rest, formal.priority)
    IN IF n > Len(alternatives) THEN NotParsed
       ELSE CASE formal.category = "symbol" ->
                   IF CurrentIdent(rest) = formal.ident
                   THEN ParsToken(s, Append(path, formal.ident), 1, Tail(rest),
                                  Append(result, formal.ident))
                   ELSE ParsToken(s, path, n + 1, rest, result)
              [] formal.category = "operand" ->
                   IF Ident(s, CurrentIdent(rest)).prefix > formal.priority
                   THEN ParsToken(s, path, n + 1, rest, result)
                   ELSE IF operand.okay
                        THEN ParsToken(s, Append(path, Operand), 1, operand.rest, result \o operand.text)
                        ELSE NotParsed
              [] OTHER -> Parsed(Operation(result), rest)

\* pars_infix_expression: the infix operators that follow an expression.
ParsInfixes(s, left, leftPriority, rest, priority) ==
    LET operator == CurrentIdent(rest)
        i == Ident(s, operator)
        extended == ParsToken(s, <<"infix", operator>>, 1, Tail(rest), Append(left, operator))
    IN IF ~(leftPriority <= i.left /\ i.infix <= priority) THEN Parsed(left, rest)
       ELSE IF extended.okay
            THEN ParsInfixes(s, extended.text, i.infix, extended.rest, priority)
            ELSE NotParsed

ParsInfixExpression(s, rest, priority) ==
    LET operator == CurrentIdent(rest)
        prior == Ident(s, operator).prefix
        first == IF prior = STRONGEST_PRIORITY THEN ReadCallExpression(s, rest)
                 ELSE IF prior <= priority
                      THEN ParsToken(s, <<"prefix", operator>>, 1, Tail(rest), <<operator>>)
                      ELSE NotParsed
    IN IF first.okay THEN ParsInfixes(s, first.text, prior, first.rest, priority) ELSE NotParsed

---------------------------------------------------------------------------

SyntaxInit == /\ grammar \in Grammar
              /\ read = 0 /\ syntax = NoSyntax
              /\ text = <<>> /\ parsed = NotParsed

\* decl_syntax
DeclareSyntax ==
    /\ read < Len(grammar.declarations)
    /\ read' = read + 1
    /\ syntax' = DefStatementSyntax(syntax, grammar.declarations[read'])
    /\ UNCHANGED <<grammar, text, parsed>>

ParseText(t) ==
    /\ read = Len(grammar.declarations) /\ text = <<>>
    /\ text' = t
    /\ parsed' = ParsInfixExpression(syntax, t, WEAKEST_PRIORITY)
    /\ UNCHANGED <<grammar, read, syntax>>

SyntaxNext == DeclareSyntax \/ \E t \in Text[grammar.name] : ParseText(t)

---------------------------------------------------------------------------
(* The reference: manual.txt, chapter 9.4.  An interpretation of a text puts *)
(* its operands together by the declarations; it is legal if every operand   *)
(* has a priority that the declaration allows.                               *)

Declared == {grammar.declarations[i] : i \in 1..read}

\* Symbols that cannot stand alone: those a declaration begins with, and those
\* that follow an operand inside of a declaration.
Keyword == {d.elements[1] : d \in Declared}
           \cup UNION {{d.elements[i] : i \in {j \in 3..Len(d.elements) : d.elements[j - 1] = Operand}}
                       : d \in Declared}
           \cup {"(", ")", ","}

\* The weakest priority of the operand at a position of a declaration.
OperandLimit(d, i) ==
    IF i = 1 THEN d.priority - IF d.assoc \in {"->", "-><-"} THEN 0 ELSE 1
    ELSE IF \E j \in i..Len(d.elements) : d.elements[j] # Operand THEN WEAKEST_PRIORITY
    ELSE d.priority - IF d.assoc \in {"<-", "-><-"} THEN 0 ELSE 1

RECURSIVE Interpretations(_), Fillings(_, _, _), ParameterLists(_)

Fillings(d, i, t) ==
    IF i > Len(d.elements) THEN (IF t = <<>> THEN {<<>>} ELSE {})
    ELSE IF d.elements[i] # Operand
    THEN IF t # <<>> /\ Head(t) = d.elements[i]
         THEN {<<Head(t)>> \o f : f \in Fillings(d, i + 1, Tail(t))}
         ELSE {}
    ELSE UNION {{x.text \o f : x \in {y \in Interpretations(SubSeq(t, 1, n)) : y.priority <= OperandLimit(d, i)},
                               f \in Fillings(d, i + 1, SubSeq(t, n + 1, Len(t)))}
                : n \in 1..Len(t) - (Len(d.elements) - i)}

\* The parameters of a call, and the parenthesis that ends it.
ParameterLists(t) ==
    UNION {IF t[n] \notin {",", ")"} \/ (t[n] = ")" /\ n < Len(t)) THEN {}
           ELSE {x.text \o p : x \in {y \in Interpretations(SubSeq(t, 1, n - 1)) : y.priority <= COM_PRIORITY},
                               p \in IF t[n] = ")" THEN {<<>>} ELSE ParameterLists(SubSeq(t, n + 1, Len(t)))}
           : n \in 2..Len(t)}

Interpretations(t) ==
    (IF t # <<>> /\ Head(t) \notin Keyword /\ Tail(t) \in {<<>>, <<"(", ")">>}
     THEN {[text |-> <<Head(t)>>, priority |-> 0]} ELSE {})
    \cup (IF Len(t) > 3 /\ Head(t) \notin Keyword /\ t[2] = "("
          THEN {[text |-> Operation(Append(p, Head(t))), priority |-> 0]
                : p \in ParameterLists(SubSeq(t, 3, Len(t)))}
          ELSE {})
    \cup (IF Len(t) > 2 /\ Head(t) = "(" /\ Last(t) = ")"
          THEN {[x EXCEPT !.priority = 0] : x \in Interpretations(SubSeq(t, 2, Len(t) - 1))}
          ELSE {})
    \cup UNION {{[text |-> Operation(f), priority |-> d.priority] : f \in Fillings(d, 1, t)}
                : d \in Declared}

\* Interpretation x puts the operands more to the right than y does.
BindsRight(x, y) ==
    \E n \in DOMAIN x \cap DOMAIN y :
       SubSeq(x, 1, n - 1) = SubSeq(y, 1, n - 1) /\ x[n] # "<" /\ y[n] = "<"

\* Between the two operators an operand may belong to either of them.
BothMayTake(d, e) ==
    /\ d.priority = e.priority /\ d.assoc \in RightMayEqual /\ e.assoc \in LeftMayEqual
    /\ \E i, j \in DOMAIN text : i < j /\ text[i] \in ToSet(d.elements) /\ text[j] \in ToSet(e.elements)

(* What the manual promises of a text with one legal interpretation or with  *)
(* none: the parser delivers the one, or reports an error (or stops before   *)
(* the end of the text).  Of a text with several legal interpretations the   *)
(* manual says (9.4, "the expression is illegal") that it is an error, too;  *)
(* the code differs: it accepts A o B o C for an operator with -><- as       *)
(* A o (B o C).  The property says how far this goes: only when an operator  *)
(* that binds from the right comes before one that binds from the left with  *)
(* the same priority, and always with the interpretation that puts the       *)
(* operands most to the right.                                               *)
ParsedAsDeclared ==
    LET legal == {x.text : x \in Interpretations(text)}
        accepted == parsed.okay /\ parsed.rest = <<>>
    IN text # <<>> /\ ~syntax.wrong =>
          /\ accepted <=> legal # {}
          /\ accepted => /\ parsed.text \in legal
                         /\ \A other \in legal \ {parsed.text} :
                               /\ BindsRight(parsed.text, other)
                               /\ \E d, e \in Declared : BothMayTake(d, e)
=============================================================================

------------------------------ MODULE MCParsing ------------------------------
(* Small programs for Scopes, Syntax and Match.                              *)
EXTENDS Scopes, Syntax, Match

LOCAL INSTANCE SequencesExt

---------------------------------------------------------------------------
(* Scopes: a function f that is overloaded, and a declaration of it that     *)
(* gives two parameters the same name.                                       *)

Written(types) == {[symbol |-> "f", parameters |-> [i \in DOMAIN types |-> [type |-> types[i], name |-> n]]]
                   : n \in Identifier}
OverloadedNames == UNION {Written(types) : types \in {<<"integer">>, <<"string">>, <<"integer", "integer">>}}

---------------------------------------------------------------------------
(* Syntax: the operators and statements of syntax.s7i that differ in kind.  *)

Declares(elements, assoc, priority) == [elements |-> elements, assoc |-> assoc, priority |-> priority]
X == Operand

SmallGrammars ==
    {[name |-> "operators",
      declarations |-> <<Declares(<<"-", X>>, "<-", 5), Declares(<<X, "**", X>>, "<-", 4),
                         Declares(<<X, "-", X>>, "->", 7), Declares(<<X, "=", X>>, "<->", 12)>>],
     [name |-> "conditions",
      declarations |-> <<Declares(<<"not", X>>, "<-", 13), Declares(<<X, "and", X>>, "->", 14),
                         Declares(<<X, "=", X>>, "<->", 12), Declares(<<X, "o", X>>, "-><-", 12)>>],
     [name |-> "statements",
      declarations |-> <<Declares(<<"if", X, "then", X, "end">>, "->", 25),
                         Declares(<<"if", X, "then", X, "else", X, "end">>, "->", 25),
                         Declares(<<X, ";", X>>, "<-", 50)>>]}

TextsUpTo(n, symbols) == UNION {[1..k -> symbols] : k \in 1..n}

Calls == {<<"f", "(", x, y, z, ")">> : x \in {"a", "-", "("}, y \in {",", "=", "-", "a"}, z \in {"a", ")"}}
Grouped == {<<"(", x, "-", "a", ")", "**", "a">> : x \in {"a", "-"}}

SmallTexts ==
    [operators |-> TextsUpTo(5, {"a", "-", "**", "="}) \cup Grouped \cup {<<"-">> \o t : t \in Grouped}
                   \cup Calls \cup {t \o <<"-", "a">> : t \in Calls \cup {<<"f", "(", ")">>}},
     conditions |-> TextsUpTo(5, {"a", "not", "and", "=", "o"}),
     statements |-> TextsUpTo(4, {"a", "if", "then", "end", ";"})
                    \cup {<<"if", "a">> \o t \o <<"end">> \o u
                          : t \in {<<"then", "a">>, <<"then", "a", ";", "a">>, <<"else", "a">>,
                                   <<"then", "a", "else", "a">>, <<"then">>},
                            u \in {<<>>, <<";", "a">>, <<"a">>}}]

---------------------------------------------------------------------------
(* Match: numbers with a subtype, a struct with an interface, and functions  *)
(* that return a number or a function.                                       *)

SmallTypes == {"int", "sub", "obj", "iface", "expr", "func int", "func sub", "func func int", "varfunc int"}
MetaOf == [t \in SmallTypes |-> CASE t = "sub" -> "int" [] t = "func sub" -> "func int" [] OTHER -> NoType]
InterfacesOf == [t \in SmallTypes |-> IF t = "obj" THEN <<"iface">> ELSE <<>>]
ResultOf == [t \in SmallTypes |-> CASE t \in {"func int", "varfunc int"} -> "int" [] t = "func sub" -> "sub"
                                    [] t = "func func int" -> "func int" [] OTHER -> NoType]

Plus(left, right, type, dynamic) ==
    [path |-> <<left, Step("symbol", "+"), right>>, type |-> type, dynamic |-> dynamic]
Minus(operand, type) == [path |-> <<Step("symbol", "-"), operand>>, type |-> type, dynamic |-> FALSE]

SmallDeclarations ==
    {Plus(Step("other", "int"), Step("other", "int"), "func int", FALSE),
     Plus(Step("other", "sub"), Step("other", "sub"), "func sub", FALSE),
     Plus(Step("inout", "int"), Step("other", "sub"), "func int", FALSE),
     Plus(Step("inout", "int"), Step("other", "expr"), "func int", FALSE),
     Plus(Step("other", "int"), Step("other", "expr"), "func int", FALSE),
     Plus(Step("attr", "int"), Step("other", "int"), "func int", FALSE),
     Plus(Step("other", "iface"), Step("other", "iface"), "func int", TRUE),
     Plus(Step("other", "obj"), Step("other", "iface"), "func int", FALSE),
     Minus(Step("other", "int"), "func int"), Minus(Step("other", "sub"), "func func int"),
     Minus(Step("other", "obj"), "varfunc int")}

Element(symbol, attr, type, variable, list) ==
    [symbol |-> symbol, attr |-> attr, type |-> type, variable |-> variable, list |-> list]
Object(type, variable) == Element(NoSymbol, NoType, type, variable, <<>>)
Symbol(s) == Element(s, NoType, NoType, FALSE, <<>>)
Negated(e) == Element(NoSymbol, NoType, "expr", FALSE, <<Symbol("-"), e>>)

SmallOperands ==
    {Object(t, v) : t \in {"int", "sub", "obj"}, v \in BOOLEAN} \cup {Object("func int", FALSE)}
    \cup {Negated(Object(t, FALSE)) : t \in {"int", "sub", "obj"}}
    \cup {Element(NoSymbol, "sub", NoType, FALSE, <<>>)}

\* No declaration above needs a variable on the right side.
SmallExpressions == {<<x, Symbol("+"), y>> : x \in SmallOperands, y \in {z \in SmallOperands : ~z.variable}}
=============================================================================

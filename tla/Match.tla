-------------------------------- MODULE Match ---------------------------------
(* Matching: match.c finds the declaration that an expression calls.  The    *)
(* parser delivers an expression as a list of elements; match_subexpr walks  *)
(* down the tree of declared names and tries, for every element, the symbol, *)
(* the attribute and the parameters that it may stand for, with the types    *)
(* that its own type is derived from and the interfaces it implements.      *)
EXTENDS Naturals, Sequences, FiniteSets
LOCAL INSTANCE SequencesExt

CONSTANTS Type,                \* types, and the match_obj of interfaces
          meta,                \* the type a type is derived from, or NoType
          interfaces,          \* the interfaces of a type, as a list
          resultType,          \* the result type of a function type, or NoType
          varFunction,         \* the function types that return a variable
          NoType,
          Declaration,         \* declarations: a path of steps, a function type, dynamic
          Expression,          \* the expressions that are matched
          MaxDeclared          \* bound: declarations in the tree

VARIABLES declared,            \* the declarations in the tree
          expression, matched  \* the expression matched last, and its declaration

matchVars == <<declared, expression, matched>>

NoMatch == [path |-> <<>>, type |-> NoType, dynamic |-> FALSE]

\* An element is a symbol, a type, an object or an expression of its own; the
\* fields that do not apply are empty.
NoSymbol == "none"

MatchInit == declared = {} /\ expression = <<>> /\ matched = NoMatch

---------------------------------------------------------------------------

\* find_node: the node below another one for a step, if it is in use.
Reached(tree, node) == \E d \in tree : IsPrefix(node, d.path)

\* The types that a loop along the field meta visits.
MetaChain(t) ==
    LET chain[u \in Type] == <<u>> \o IF meta[u] = NoType THEN <<>> ELSE chain[meta[u]] IN chain[t]

\* The declaration at a node.
DeclaredAt(tree, node) ==
    IF \E d \in tree : d.path = node THEN CHOOSE d \in tree : d.path = node ELSE NoMatch

Step(way, t) == [way |-> way, of |-> t]

---------------------------------------------------------------------------
(* What an element may stand for: alternatives that are tried one after the other. *)

Alternatives(steps, provisional) ==
    [i \in DOMAIN steps |-> [step |-> steps[i], provisional |-> provisional]]

\* Mutant: a variable is matched with inout parameters only.
InoutSteps(types, variable, access) ==
    LET ways == IF variable THEN <<"inout">>
                ELSE IF access THEN <<"other", "inout">> ELSE <<"other">>
    IN FlattenSeq([i \in DOMAIN types |-> [j \in DOMAIN ways |-> Step(ways[j], types[i])]])

\* match_subexpr_var and match_subexpr_const: a variable prefers inout
\* parameters; a constant may match one only when access rights are checked later.
ParameterSteps(types, variable, access) ==
    LET ways == IF variable THEN <<"inout", "other">>
                ELSE IF access THEN <<"other", "inout">> ELSE <<"other">>
    IN FlattenSeq([i \in DOMAIN types |-> [j \in DOMAIN ways |-> Step(ways[j], types[i])]])

\* match_subexpr_type: the interfaces come first for dynamic functions; when they
\* lead to another one, the type and its meta types come before them.
TypeAlternatives(t, variable, access) ==
    LET viaInterface == ParameterSteps(interfaces[t], variable, access)
    IN Alternatives(viaInterface, TRUE)
       \o Alternatives(ParameterSteps(MetaChain(t), variable, access) \o viaInterface, FALSE)

\* The value of an object: its result, or the result of its result.
ResultAlternatives(t, access) ==
    LET value(u) == TypeAlternatives(resultType[u], u \in varFunction, access)
        both(u) == IF resultType[u] = NoType THEN <<>>
                   ELSE value(u) \o IF resultType[resultType[u]] = NoType THEN <<>> ELSE value(resultType[u])
        chain == MetaChain(t)
    IN FlattenSeq([i \in DOMAIN chain |-> both(chain[i])])

\* What an element is, before an expression of its own is matched.
OwnAlternatives(e, access) ==
    (IF e.symbol = NoSymbol THEN <<>> ELSE Alternatives(<<Step("symbol", e.symbol)>>, FALSE))
    \o (IF e.attr = NoType THEN <<>>
        ELSE LET chain == MetaChain(e.attr)
             IN Alternatives([i \in DOMAIN chain |-> Step("attr", chain[i])], FALSE))
    \o (IF e.type = NoType THEN <<>> ELSE TypeAlternatives(e.type, e.variable, access))

\* What calling it delivers; "called" is the declaration that an expression of its
\* own matches.
CallAlternatives(e, called, access) ==
    IF e.list # <<>>
    THEN IF called = NoMatch THEN <<>>
         ELSE TypeAlternatives(called.type, FALSE, access) \o ResultAlternatives(called.type, access)
    ELSE IF e.type = NoType THEN <<>> ELSE ResultAlternatives(e.type, access)

---------------------------------------------------------------------------
(* The search.  An expression among the elements is changed into the call    *)
(* that it matches: it stays this call ("calls" has its position) when the   *)
(* search goes back, and then no parameter for an expression is found.       *)

Attempt(d, calls) == [declaration |-> d, calls |-> calls]

RECURSIVE MatchSubexpr(_, _, _, _, _, _), MatchAlternatives(_, _, _, _, _, _, _),
          AfterAlternative(_, _, _, _, _, _, _), AfterOwn(_, _, _, _, _, _, _),
          AfterAllowed(_, _, _), MatchExpression(_, _)

\* match_subexpr continued at the first node below that leads to a declaration.
MatchAlternatives(tree, node, alternatives, elements, i, access, calls) ==
    IF alternatives = <<>> THEN Attempt(NoMatch, calls)
    ELSE IF ~Reached(tree, Append(node, Head(alternatives).step))
    THEN MatchAlternatives(tree, node, Tail(alternatives), elements, i, access, calls)
    ELSE AfterAlternative(tree, node, alternatives, elements, i, access,
                     MatchSubexpr(tree, Append(node, Head(alternatives).step), elements, i + 1, access, calls))

\* A function that is not dynamic ends the provisional alternatives, but is not taken.
AfterAlternative(tree, node, alternatives, elements, i, access, attempt) ==
    LET isFirm(n) == ~alternatives[n].provisional /\ \A m \in 1..n - 1 : alternatives[m].provisional
        firm == SubSeq(alternatives, CHOOSE n \in DOMAIN alternatives : isFirm(n), Len(alternatives))
    IN IF attempt.declaration = NoMatch
       THEN MatchAlternatives(tree, node, Tail(alternatives), elements, i, access, attempt.calls)
       ELSE IF Head(alternatives).provisional /\ ~attempt.declaration.dynamic
       THEN MatchAlternatives(tree, node, firm, elements, i, access, attempt.calls)
       ELSE attempt

\* The expression has been changed into the call.
Changed(calls, called, i) == IF called = NoMatch THEN calls ELSE calls \cup {i}

\* An element that has been tried by itself is tried as a call.
AfterOwn(tree, node, elements, i, access, own, called) ==
    IF own.declaration # NoMatch THEN own
    ELSE MatchAlternatives(tree, node, CallAlternatives(elements[i], called, access),
                           elements, i, access, Changed(own.calls, called, i))

MatchSubexpr(tree, node, elements, i, access, calls) ==
    IF i > Len(elements) THEN Attempt(DeclaredAt(tree, node), calls)
    ELSE AfterOwn(tree, node, elements, i, access,
                  IF i \in calls THEN Attempt(NoMatch, calls)
                  ELSE MatchAlternatives(tree, node, OwnAlternatives(elements[i], access),
                                         elements, i, access, calls),
                  IF elements[i].list = <<>> THEN NoMatch ELSE MatchExpression(tree, elements[i].list))

AfterAllowed(tree, elements, allowed) ==
    IF allowed.declaration # NoMatch THEN allowed.declaration
    ELSE MatchSubexpr(tree, <<>>, elements, 1, TRUE, allowed.calls).declaration

\* match_expression: only when nothing matches, access rights are left to
\* check_access_rights, which reports the error.
MatchExpression(tree, elements) ==
    AfterAllowed(tree, elements, MatchSubexpr(tree, <<>>, elements, 1, FALSE, {}))

---------------------------------------------------------------------------

DeclareName(d) ==
    /\ Cardinality(declared) < MaxDeclared
    /\ expression = <<>>
    /\ \A c \in declared : c.path # d.path
    /\ declared' = declared \cup {d}
    /\ UNCHANGED <<expression, matched>>

MatchAnExpression(elements) ==
    /\ expression = <<>>
    /\ expression' = elements
    /\ matched' = MatchExpression(declared, elements)
    /\ UNCHANGED declared

MatchNext == \/ \E d \in Declaration : DeclareName(d)
             \/ \E elements \in Expression : MatchAnExpression(elements)

---------------------------------------------------------------------------
(* The reference: what an element may stand for, as a set.                  *)

\* An object of a type; "right" tells whether it may be changed.
AsParameter(t, right) ==
    {Step("other", u) : u \in ToSet(MetaChain(t) \o interfaces[t])}
    \cup IF right THEN {Step("inout", u) : u \in ToSet(MetaChain(t) \o interfaces[t])} ELSE {}

\* What calling a function delivers.
AsResult(t, wrong) ==
    UNION {LET r == resultType[u]
           IN IF r = NoType THEN {}
              ELSE AsParameter(r, wrong \/ u \in varFunction)
                   \cup IF resultType[r] = NoType THEN {}
                        ELSE AsParameter(resultType[r], wrong \/ r \in varFunction)
           : u \in ToSet(MetaChain(t))}

AsCall(called, wrong) ==
    IF called = NoMatch THEN {} ELSE AsParameter(called.type, wrong) \cup AsResult(called.type, wrong)

\* The steps an element may take; "wrong" allows a constant for a variable.
MayStandFor(e, wrong) ==
    (IF e.symbol # NoSymbol THEN {Step("symbol", e.symbol)} ELSE {})
    \cup (IF e.attr # NoType THEN {Step("attr", u) : u \in ToSet(MetaChain(e.attr))} ELSE {})
    \cup (IF e.type # NoType THEN AsParameter(e.type, wrong \/ e.variable) ELSE {})
    \cup (IF e.type # NoType /\ e.list = <<>> THEN AsResult(e.type, wrong) ELSE {})
    \cup (IF e.list # <<>> THEN AsCall(MatchExpression(declared, e.list), wrong) ELSE {})

Fitting(elements, wrong) ==
    {d \in declared : /\ Len(d.path) = Len(elements)
                      /\ \A i \in DOMAIN elements : d.path[i] \in MayStandFor(elements[i], wrong)}

\* How far a step is from the type of an object.
Distance(e, step) == IF step.of \in ToSet(MetaChain(e.type)) THEN Len(MetaChain(step.of)) ELSE 0

\* A declaration without a parameter for an expression that is not evaluated.
Evaluating(elements, d) ==
    \A i \in DOMAIN elements :
        elements[i].list # <<>> => d.path[i] \notin AsParameter(elements[i].type, TRUE)

\* In the first step that differs the declaration found is not farther.
NotFarther(elements, found, d) ==
    LET i == CHOOSE n \in DOMAIN elements : /\ d.path[n] # found.path[n]
                                           /\ \A m \in 1..n - 1 : d.path[m] = found.path[m]
        near == Distance(elements[i], d.path[i])
        taken == Distance(elements[i], found.path[i])
    IN near > 0 /\ taken > 0 => near <= taken

BestMatched(elements, right, fitting) ==
    /\ matched = NoMatch => \A d \in fitting : ~Evaluating(elements, d)
    /\ matched # NoMatch => matched \in fitting
    /\ \A d \in right : Evaluating(elements, d) =>
          matched \in right /\ (d # matched => NotFarther(elements, matched, d))

(* Matching finds a declaration that fits whenever there is one, although    *)
(* the elements are tried one after the other: it goes back from every       *)
(* choice that leads nowhere.  A declaration that needs a variable where the *)
(* expression has a constant is taken only when no other fits, and in the   *)
(* first parameter that differs no fitting declaration is nearer to the      *)
(* type of the object.  What is sure to be found are the declarations        *)
(* without a parameter for an expression that is not evaluated: others are   *)
(* missed when the search comes to the expression a second time.            *)
FittingMatched ==
    expression # <<>> =>
       BestMatched(expression, Fitting(expression, FALSE), Fitting(expression, TRUE))
=============================================================================

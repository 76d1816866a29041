-------------------------------- MODULE Scopes --------------------------------
(* Scopes and entities of the Seed7 compiler and interpreter: name.c keeps a *)
(* stack of levels with the objects declared in each, and every entity (the  *)
(* meaning of a name) has a list of owners, its declarations from inside     *)
(* out.  entutl.c keeps the names with parameters in a tree, where a node    *)
(* counts the declarations that lead through it; an entity without an owner  *)
(* waits in a list of inactive entities until the program is freed.  The     *)
(* link of this list and the owners share a field of the entity (data.h:203).*)
(* dcllib.c and prclib.c declare constants, variables and functions.         *)
EXTENDS Naturals, SequencesExt

CONSTANTS Identifier,          \* identifiers: names without parameters
          WrittenName,         \* names with parameters, as a program writes them
          MaxEntities,         \* memory for the entities of names with parameters
          MaxBodies,           \* bound: functions inside functions
          MaxObjects,          \* bound: objects of one level
          MaxUsage             \* bound: declarations that lead through a node

VARIABLE program               \* the part of progRecord that is about names

ClosingSymbol == "end"         \* no name is the beginning of another one
NoName == <<>>
NoEntity == 0
PoolEntity == 1..MaxEntities

\* A name is the path of its symbol, the types of its parameters and the
\* closing symbol.
NamePath(w, types) == <<w.symbol>> \o types \o <<ClosingSymbol>>

ParameterType(w) == {parameter.type : parameter \in Range(w.parameters)}

\* The nodes of the tree below declaration_root.  A parameter that is declared
\* twice is missing in the path.
PathsOf(w) == {NamePath(w, types) : types \in SeqOf(ParameterType(w), Len(w.parameters))}
TreeNode == UNION {UNION {{SubSeq(path, 1, n) : n \in 1..Len(path)} : path \in PathsOf(w)}
                   : w \in WrittenName}
FullName == {n \in TreeNode : Last(n) = ClosingSymbol}

ASSUME ScopesAssumption ==
    /\ MaxEntities \in Nat /\ MaxBodies \in Nat /\ MaxObjects \in Nat /\ MaxUsage \in Nat
    /\ \A w \in WrittenName :
          /\ w.parameters \in Seq(Range(w.parameters))
          /\ \A parameter \in Range(w.parameters) : parameter.name \in Identifier
          /\ ClosingSymbol \notin ParameterType(w) \cup {w.symbol}
    /\ \A identifier \in Identifier : identifier \notin FullName /\ identifier \notin PoolEntity \cup {NoEntity}

\* What a declaration call may lack memory for.
Lacking == {"nothing", "parameter", "node", "entity", "owner", "list"}

\* inactive lists the entities in the order in which they were entered in the
\* list, the last one first.  again is history: the entities that were declared
\* again when they were in this list.
EmptyProgram ==
    [stack |-> << <<>> >>, current |-> 1,
     usage |-> [n \in TreeNode |-> 0], node |-> [n \in TreeNode |-> NoEntity],
     name |-> [e \in PoolEntity |-> NoName],
     owner |-> [e \in PoolEntity \cup Identifier |-> <<>>],
     inactive |-> <<>>, again |-> {}, closed |-> FALSE]

ScopesInit == program = EmptyProgram

---------------------------------------------------------------------------
(* Entities: entutl.c.                                                      *)

Allocated(p) == {e \in PoolEntity : p.name[e] # NoName}

\* pop_name_list and pop_node: every node on the path is used once less; the
\* first one that is not used any more is emptied, and the walk ends there.
PopNameList(p, path) ==
    LET ends == {n \in 1..Len(path) : p.usage[SubSeq(path, 1, n)] <= 1}
        depth == IF ends = {} THEN Len(path) ELSE CHOOSE n \in ends : \A m \in ends : n <= m
        last == SubSeq(path, 1, depth)
        emptied(n) == p.usage[last] = 1 /\ IsPrefix(last, n)
    IN [p EXCEPT !.usage = [n \in TreeNode |-> CASE emptied(n) -> 0
                                               [] ~emptied(n) /\ IsPrefix(n, last) /\ @[n] > 0 -> @[n] - 1
                                               [] OTHER -> @[n]],
                 !.node = [n \in TreeNode |-> IF emptied(n) THEN NoEntity ELSE @[n]]]

\* Mutant: an existing node is taken as it is.
NodesAsTheyAre(p, path) ==
    [p EXCEPT !.usage = [n \in TreeNode |-> IF IsPrefix(n, path) /\ @[n] = 0 THEN 1 ELSE @[n]]]

\* get_entity_node and get_node: a new node starts with the usage 1, an
\* existing one is used once more.
GetEntityNode(p, path) ==
    [p EXCEPT !.usage = [n \in TreeNode |-> IF IsPrefix(n, path) THEN @[n] + 1 ELSE @[n]]]

\* get_entity: the entity of the node, or a new one.  NoEntity is returned,
\* and the uses of the nodes are taken back, when memory is lacking.
GetEntity(p, path, lacking) ==
    LET q == GetEntityNode(p, path)
        free == PoolEntity \ Allocated(p)
        new == CHOOSE e \in free : \A f \in free : e <= f
    IN IF lacking = "node" \/ (q.node[path] = NoEntity /\ (free = {} \/ lacking = "entity"))
       THEN [program |-> PopNameList(q, path), entity |-> NoEntity, new |-> FALSE]
       ELSE IF q.node[path] # NoEntity
            THEN [program |-> q, entity |-> q.node[path], new |-> FALSE]
            ELSE [program |-> [q EXCEPT !.node[path] = new, !.name[new] = path],
                  entity |-> new, new |-> TRUE]

---------------------------------------------------------------------------
(* The stack of levels: name.c.  NoEntity stands in the list of a level for  *)
(* the FWDREFOBJECT that replaces a forward declaration.                    *)

\* data.next of an entity that was entered in the list of inactive entities.
Linked(p, e) == \E i \in 1..Len(p.inactive) - 1 :
                   p.inactive[i] = e /\ \A k \in 1..i - 1 : p.inactive[k] # e

\* pop_object: the innermost owner leaves the entity.  An entity with
\* parameters that has no owner left becomes inactive.  The owners of an entity
\* from the list end in its link, which the code takes for a further owner.
PopObject(p, e) ==
    IF e = NoEntity THEN p
    ELSE IF p.owner[e] = <<>> THEN p
    ELSE LET q == [p EXCEPT !.owner[e] = Tail(@)]
         IN IF q.owner[e] # <<>> \/ e \in Identifier \/ Linked(p, e) THEN q
            ELSE [PopNameList(q, q.name[e]) EXCEPT !.inactive = Cons(e, @)]

PopObjects(p, objects) == FoldLeft(PopObject, p, objects)

GrowStack(p) == [p EXCEPT !.stack = Append(@, <<>>)]

ShrinkStack(p) == LET q == PopObjects(p, Last(p.stack)) IN [q EXCEPT !.stack = Front(@)]

PushStack(p) == IF p.current < Len(p.stack) THEN [p EXCEPT !.current = @ + 1] ELSE p

DownStack(p) == IF p.current > 1 THEN [p EXCEPT !.current = @ - 1] ELSE p

PopStack(p) ==
    IF p.current = 1 THEN p
    ELSE LET q == PopObjects(p, p.stack[p.current])
         IN [q EXCEPT !.stack[p.current] = <<>>, !.current = @ - 1]

---------------------------------------------------------------------------
(* Declarations.  A call returns what became of the program and a result.   *)

Returns(p, e, result) == [program |-> p, entity |-> e, result |-> result]

\* get_object: a second declaration at the same level is an error, unless the
\* first one is a forward declaration, which it completes.  The link of an
\* inactive entity is no declaration of any level.
GetObject(p, e, lacking) ==
    IF p.owner[e] # <<>> /\ Head(p.owner[e]).level = p.current
    THEN LET completed == [p EXCEPT !.owner[e][1].forward = FALSE]
         IN IF ~Head(p.owner[e]).forward THEN Returns(p, e, "redeclared")
            ELSE IF lacking = "list" THEN Returns(completed, e, "memory error")
            ELSE Returns([completed EXCEPT !.stack[p.current] =
                              Append(ReplaceAll(@, e, NoEntity), e)], e, "declared")
    ELSE IF lacking \in {"owner", "list"} THEN Returns(p, e, "memory error")
    ELSE Returns([p EXCEPT !.owner[e] = Cons([level |-> p.current, forward |-> FALSE], @),
                           !.stack[p.current] = Append(@, e),
                           !.again = @ \cup ({e} \cap Range(p.inactive))], e, "declared")

\* Mutant: a new entity whose object cannot be created keeps its memory.
PushNameOnly(p, path, lacking) ==
    LET found == GetEntity(p, path, lacking)
    IN IF found.entity = NoEntity THEN Returns(found.program, NoEntity, "memory error")
       ELSE GetObject(found.program, found.entity, lacking)

\* push_name: a new entity is given back when its object cannot be created.
\* After a redeclaration the parameters leave the upper level.
PushName(p, path, lacking) ==
    LET found == GetEntity(p, path, lacking)
        got == GetObject(found.program, found.entity, lacking)
    IN IF found.entity = NoEntity THEN Returns(found.program, NoEntity, "memory error")
       ELSE IF got.result = "memory error" /\ found.new
            THEN Returns([PopNameList(got.program, path) EXCEPT !.name[found.entity] = NoName],
                         NoEntity, "memory error")
       ELSE IF got.result = "redeclared"
            THEN Returns(PopStack(PushStack(got.program)), found.entity, "redeclared")
       ELSE got

\* eval_name_list and dcl_in2: the parameters become objects of the upper
\* level.  One that is declared twice is left out of the name.
EnterParameter(known, parameter, lacking) ==
    IF known.result = "memory error" THEN known
    ELSE LET got == GetObject(GrowStack(known.program), parameter.name,
                              IF lacking = "parameter" THEN "owner" ELSE "nothing")
         IN [program |-> ShrinkStack(got.program), result |-> got.result,
             types |-> IF got.result = "declared" THEN Append(known.types, parameter.type)
                                                  ELSE known.types]
EvalNameList(p, w, lacking) ==
    LET enter(known, parameter) == EnterParameter(known, parameter, lacking)
    IN FoldLeft(enter, [program |-> p, result |-> "declared", types |-> <<>>], w.parameters)

\* inst_list: the parameters stay in the upper level, for the value.
InstList(p, w, lacking) ==
    LET names == EvalNameList(PushStack(p), w, lacking)
    IN IF names.result = "memory error"
       THEN Returns(PopStack(names.program), NoEntity, "memory error")
       ELSE PushName(DownStack(names.program), NamePath(w, names.types), lacking)

\* entername
EnterName(p, name, lacking) ==
    IF name \in Identifier THEN GetObject(p, name, lacking) ELSE InstList(p, name, lacking)

---------------------------------------------------------------------------
(* The declarations of a program.                                           *)

Declarable(name) ==
    /\ ~program.closed
    /\ Len(program.stack[program.current]) < MaxObjects
    /\ name \notin Identifier => program.usage[<<name.symbol>>] < MaxUsage

\* dcl_const and dcl_var with a value that is not a function.
Declare(name, lacking) ==
    /\ Declarable(name)
    /\ program' = ShrinkStack(EnterName(GrowStack(program), name, lacking).program)

\* dcl_fwd
DeclareForward(name, lacking) ==
    /\ Declarable(name)
    /\ LET got == EnterName(GrowStack(program), name, lacking)
       IN program' = ShrinkStack(IF got.result = "declared"
                                 THEN [got.program EXCEPT !.owner[got.entity][1].forward = TRUE]
                                 ELSE got.program)

\* dcl_const of a function: prc_local and its like enter the level of the
\* parameters, for local declarations and the body.
OpenBody(name) ==
    /\ Declarable(name)
    /\ program.current <= MaxBodies
    /\ LET got == EnterName(GrowStack(program), name, "nothing")
       IN /\ got.result = "declared"
          /\ program' = PushStack(got.program)

\* The end of prc_local and dcl_const, also after an error in the body.
CloseBody ==
    /\ program.current > 1
    /\ program' = ShrinkStack(PopStack(program))

\* prgDestr: close_stack, close_declaration_root and close_entity, which frees
\* every entity of the list.
CloseProgram ==
    /\ program.current = 1 /\ ~program.closed
    /\ LET p == PopObjects(program, Reverse(program.stack[1]))
       IN program' = [p EXCEPT !.stack = << <<>> >>,
                               !.usage = [n \in TreeNode |-> 0],
                               !.node = [n \in TreeNode |-> NoEntity],
                               !.name = [e \in PoolEntity |->
                                            IF e \in Range(p.inactive) THEN NoName ELSE @[e]],
                               !.inactive = <<>>, !.closed = TRUE]

ScopesNext ==
    \/ \E name \in Identifier \cup WrittenName, lacking \in Lacking :
          Declare(name, lacking) \/ DeclareForward(name, lacking)
    \/ \E name \in Identifier \cup WrittenName : OpenBody(name)
    \/ CloseBody
    \/ CloseProgram

ScopesSpec == ScopesInit /\ [][ScopesNext]_program

---------------------------------------------------------------------------
(* Properties.                                                              *)

ScopesTypeOK ==
    /\ program.stack \in Seq(Seq(PoolEntity \cup Identifier \cup {NoEntity}))
    /\ program.current \in 1..Len(program.stack)
    /\ program.usage \in [TreeNode -> Nat]
    /\ program.node \in [TreeNode -> PoolEntity \cup {NoEntity}]
    /\ program.name \in [PoolEntity -> FullName \cup {NoName}]
    /\ program.owner \in [PoolEntity \cup Identifier -> Seq([level : Nat, forward : BOOLEAN])]
    /\ program.inactive \in Seq(PoolEntity) /\ program.again \subseteq PoolEntity

\* find_name, find_entity and find_node: the level of the declaration that a
\* name stands for, 0 when there is none.  For an inactive entity data.owner is
\* its link, another entity that is read as an owner: this is no level.
LevelOf(p, e) ==
    IF e = NoEntity THEN 0
    ELSE IF p.owner[e] # <<>> THEN Head(p.owner[e]).level
    ELSE IF Linked(p, e) THEN Len(p.stack) + 1
    ELSE 0
FindName(p, name) ==
    IF name \in Identifier THEN LevelOf(p, name)
    ELSE IF \A n \in 1..Len(name) : p.usage[SubSeq(name, 1, n)] > 0 THEN LevelOf(p, p.node[name])
    ELSE 0

\* The innermost level with an object of that name.
InnermostLevel(p, name) ==
    LET of(e) == IF e \in Identifier THEN e = name ELSE e \in PoolEntity /\ p.name[e] = name
        levels == {l \in 1..Len(p.stack) : \E i \in DOMAIN p.stack[l] : of(p.stack[l][i])}
    IN IF levels = {} THEN 0 ELSE CHOOSE l \in levels : \A k \in levels : k <= l

\* The node of the name is still in use although its entity is inactive: a
\* name with parameters that was declared forward, redeclared or declared again
\* inside was counted more than once (entutl.c:167), and when the outermost of
\* these declarations was local, one use was taken back.
Misread(p, name) ==
    LET e == p.node[name] IN e # NoEntity /\ p.owner[e] = <<>> /\ Linked(p, e)

(* A name stands for its declaration in the innermost level that has one:   *)
(* entering and leaving the bodies of functions, redeclarations and lack of *)
(* memory leave the owners and the use counts of the nodes so that find_name*)
(* finds exactly that object.  The exception is a fault of the code: a name *)
(* that has no declaration any more, and whose node is still in use, stands *)
(* for whatever the link of its inactive entity is when it is read as the   *)
(* declaration (data.h:203, name.c:422-429).                                *)
InnermostFound ==
    \A name \in Identifier \cup FullName :
        \/ name \in FullName /\ Misread(program, name)
        \/ FindName(program, name) = InnermostLevel(program, name)

(* No entity is lost or freed twice: one with a declaration is reached      *)
(* by its node, every other one is in the list of inactive entities, once,  *)
(* and after prgDestr none is left.  The exception is a fault of the code:  *)
(* an inactive entity whose node was still in use may have been declared    *)
(* again; it is entered in the list a second time when it loses this        *)
(* declaration, and close_entity, which follows the links, frees it twice   *)
(* (name.c:426-429, entutl.c:784).  Between declarations every level        *)
(* belongs to the body of a function.                                       *)
EntitiesReleased ==
    /\ \A i, j \in 1..Len(program.inactive) :
          program.inactive[i] = program.inactive[j] => i = j \/ program.inactive[i] \in program.again
    /\ \A e \in Allocated(program) :
          IF program.owner[e] = <<>> THEN e \in Range(program.inactive)
          ELSE /\ e \in Range(program.inactive) => e \in program.again
               /\ program.node[program.name[e]] = e
    /\ Range(program.inactive) \subseteq Allocated(program)
    /\ Len(program.stack) = program.current
    /\ program.closed => program = [EmptyProgram EXCEPT !.again = program.again, !.closed = TRUE]
=============================================================================

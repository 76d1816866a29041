# A specification of the Seed7 interpreter

Seed7 is a programming language whose interpreter and run-time library are written in C
(`src/src`), with libraries in Seed7 itself (`src/lib`). This directory holds TLA+ models of
the parts of that program in which state is shared between activations, callers, callbacks
and signal handlers, the TLC configurations that check them, and proofs of their main
properties.

## 1. Inventory

The interpreter reads a program (`analyze.c`, parser and matcher), which builds objects
(`objectType`, C structures with a category, flags and a value), and evaluates the object
`main` (`exec.c`). Calls of functions written in Seed7 go through `exec_lambda`, calls of
built-in functions through `exec_action` and the table of primitive actions
(`primitiv.c` and the `*lib.c` files), which check their arguments and use the run-time
library (`*_rtl.c`, `*_unx.c`, `*_inf.c`, also used by compiled programs).

| Component | State | Operations | Interacts with |
|---|---|---|---|
| execution (`exec.c`, `executl.c`) | the value of every formal object, TEMP/TEMP2 flags, C stack | `exec_object`, `exec_lambda`, `par_init`, `loc_init`, `res_init` and their restores, `exec_action`, create and destroy calls | all actions; exceptions; heap |
| exceptions and statements (`runerr.c`, `prclib.c`) | `fail_flag`, `fail_value`, `interrupt_flag`, `catch_exceptions` | raise, handle, save and restore around destroy calls, loops and blocks | execution, signals |
| signals (`sigutl.c`) | `interrupt_flag`, the signal that suspended the interpreter | suspend, dialog (continue, raise, trace) | execution, exceptions |
| catch stack (`stackutl.c`, `heaputl.c`) | `catch_stack`, its position and size | push, grow, pop, `no_memory` | blocks, `interpret`, `analyzeProg`, `main` |
| programs in programs (`prg_comp.c`, `analyze.c`, `s7.c`) | current program, owner and entity stacks | parse, interpret, dispose | all of the above |
| scopes (`entutl.c`, `identutl.c`, `name.c`, `dcllib.c`, ...) | stack of declaration levels, entity owners, options | push, pop, enter, disconnect | parser |
| parser and matching (`match.c`, `expr.c`, `scanner.c`, ...) | input files, syntax tables | parse an expression, match it | scopes |
| free lists (`flistutl.c`, `listutl.c`, `objutl.c`) | free lists per structure | allocate, free | everything |
| polling (`pol_unx.c`, `lib/poll.s7i`) | table of sockets, events and files, index, iterator, number of findings | add, remove, poll, iterate | sockets, listener |
| listener (`lib/listener.s7i`) | listening socket, poll data, callbacks | sign on/off, accept, wait for a request | polling |
| sockets and files (`soc_rtl.c`, `fil_*.c`, `dir_rtl.c`) | usage counts, positions | calls of the operating system | polling, processes |
| moving and copying (`cmd_rtl.c`) | the file system | copy, move, remove trees | files |
| processes (`pcs_unx.c`, `pcs_rtl.c`) | process id, alive, exit value, pipes, usage count | start, kill, wait, is alive | files |
| databases (`sql_rtl.c`, `sql_*.c`) | connections, prepared statements, bound parameters, fetched row, usage counts | open, prepare, bind, execute, fetch, close | drivers |
| hash maps, arrays, strings, sets, structs (`*_rtl.c`) | values | insert, remove, index, copy, destroy | execution (callbacks for create, copy, destroy) |
| numbers (`int_rtl.c`, `big_rtl.c`, `flt_rtl.c`) | none | arithmetic | |
| terminal, graphics, time | terminal modes, windows, key queue | calls of the operating system | |
| compiler (`prg/s7c.sd7`, `lib/comp`) | generated C code | | |

What is hard in this code, per component, and what makes it correct:

* **Execution.** There is *one* formal object per parameter, local variable and result, used
  by all activations of a function; activations save and restore its value (shallow
  binding). Evaluating an actual parameter may call the same function between the save and
  the binding. Correct: an activation sees its own variables only, and a call leaves the
  formals of its caller untouched, however it ends.
* **Ownership.** A value is either owned by a variable or *temporary*; flags say which.
  Correct: every object is freed by exactly one owner, never while something refers to it.
* **Exceptions.** `fail_flag` is looked at by whoever called; while it is set, destructors of
  local variables are executed with the flag cleared (`saveFailState`). `exec_action` looks
  at `interrupt_flag` only. Correct: nothing is executed with missing arguments, an exception
  is not lost, and it reaches a handler or the end of the program.
* **Signals** set `interrupt_flag` between any two instructions; their dialog raises
  exceptions, depending on the build inside the signal handler.
* **Catch stack.** `no_memory` does a `longjmp` to the innermost function that protects an
  evaluation; such functions nest (a program interprets a program), and growing the stack
  may fail. Correct: the target is the innermost function that is still protected.
* **Polling and listener.** The table changes between a poll and the iteration over its
  results. Correct: findings are delivered, only those, and every client is served.
* **Processes, databases, moving files.** Long sequences of legal calls, some of which fail.
  Drivers keep flags beside what the client library knows about a cursor. Correct: rows are delivered
  once and in order, nothing is lost or left over, a process id is not used after the system may have given it away.
* **Scopes.** Owners, levels and use counts of nodes describe the same declarations and change in
  steps, which lack of memory may interrupt. Correct: a name stands for its innermost declaration.
* **Parser and matching.** Alternatives share a beginning; the parser never goes back, matching does and
  has changed the expression by then. Correct: what is accepted is a legal interpretation.
* **Hash maps, numbers.** Pointer structures and digit loops with many special cases.

The complete list of these hazards, each at its line and with the properties that cover it, is
in `PROJECT.json`; it also lists every component with what is left out of it.

## 2. Modules

| Module | What it is |
|---|---|
| `Lambda` | execution, ownership, exceptions, blocks, loops, suspended signals |
| `DeepBinding` | abstract specification: every activation has variables of its own |
| `MCLambda` | functions and values of the constants for TLC |
| `LambdaProofs` | inductive invariants for types and argument lists, shallow binding, ownership and exceptions; the refinement of `DeepBinding`; proofs |
| `CatchStack`, `MCCatchStack` | catch stack with `analyzeProg`, `interpret`, blocks and `no_memory` |
| `RuntimeProofs` | the inductive invariants of `CatchStack`, `Hash` and `Sets`; proofs |
| `PollTable` | the data structure of `pol_unx.c`: its functions as operators on a record |
| `Polling` | abstract specification: checks, findings and an iteration per socket |
| `PollData`, `MCPollData` | variables of type `pollData`, with reference counts and failing allocation; refines `Polling` |
| `PollTableProofs` | lemmas: what each operation of `PollTable` does to the entry of each socket |
| `PollDataProofs` | the inductive invariants of `PollData` and the refinement of `Polling`; proofs from these lemmas |
| `Listener`, `MCListener` | `listener.s7i` with a server and clients, composed with `PollTable` |
| `ListenerProofs` | the inductive invariant of the listener; proofs from the lemmas about `PollTable` |
| `Cursor` | abstract specification: a cursor delivers the rows of its result, each once, then the end |
| `Sql` | databases and statements of `sql_rtl.c` over the driver for SQLite; refines `Cursor` |
| `SqlProofs` | the inductive invariants of `Sql` and of `Drivers`, and their refinements of `Cursor` |
| `Drivers` | statements and transactions in five other drivers; refines `Cursor` |
| `Process` | child processes, their pipes and usage counts |
| `Hash` | hash maps: buckets of binary trees, loops, copies |
| `Sets` | bitsets that grow and shrink at both ends |
| `MoveFile`, `MCMoveFile` | moving, cloning and removing directory trees |
| `SystemProofs` | the inductive invariants of `Process` (records, files and children) and of `MoveFile` (moving, cloning and removing); proofs |
| `BigInteger`, `BigText` | the algorithms of `big_rtl.c` as functions |
| `BigNumbers`, `MCBigNumbers` | variables that are changed in place, compared with integers |
| `Scopes` | levels, owners, entities and the tree of names |
| `ScopesProofs` | the inductive invariant of `Scopes`; proofs |
| `Syntax` | syntax declarations and the parser of expressions |
| `Match` | the search for the declaration that an expression calls |
| `MCParsing` | names, grammars, texts, types and expressions for the three modules above |
| `MCRuntime` | the sum of `CatchStack` and the modules from `Sql` on |

### Lambda

The C recursion `exec_call → exec_lambda → par_init → exec_object → exec_call ...` is the
variable `stack`: a record per call of `exec_lambda` (`kind = "lambda"`), `exec_action`
(`"action"`), `prc_block` (`"block"`) or `prc_while`/`prc_repeat` (`"loop"`). Its fields are
the local C variables: `evald` is `evaluated_act_params`, `bits` is `temp_bits`, `backup` holds
`backup_form_params`, `backup_loc_var` and `backup_block_result`, `phase` and `k` say where the
function is. The activation of `exec_all_parameters` is of kind `"data"`: what is called is neither a function nor an action.
`entry` is a history variable, the values of all formals when the call began; no
action reads it. `objValue` is `object->value.objValue` of the formals, `heap` the objects with
their TEMP and TEMP2 flags.

One action is what the C code does between two evaluations: `ParInitFails`,
`BindTemp`/`BindRef`/`BindValue`, `LocInit`, `ResInit`, the restores, and so on. They follow the
order and the early returns of `exec_lambda`. The program is arbitrary: whenever the code
evaluates an expression, `EvalLeaf` takes a literal or a variable in scope and `Call` any function, action,
block, loop or object with arguments of the right sort (a statement or an expression with a value). A callee that is a formal has an
expression as value, which is evaluated without arguments: this is `EvalLeaf` or `Call` again. A forward declaration raises an
exception, as an action without arguments may. A callee that is the result of a call (CALLOBJECT) is not modelled. A primitive action
delivers a new temporary value, a part of one of its arguments, the empty object, or an
exception. Contents of values are left out: no property depends on them, only on the
identity of objects.

A create call either works (`"ok"`), ends with an exception (`"raised"`), or the object itself
cannot be allocated (`"no_object"`); a create call that is reached while `fail_flag` is set does
nothing, as its `exec_action` then returns `fail_value`. Destroy calls may raise exceptions
(`DestroyRaises`): without a pending exception the remaining variables are then not
destroyed; with one, `ignoreError` is set and each destroy call succeeds or not on its own.
Signals set `interrupt` at any step; with `AsyncRaise` the dialog runs in the handler
(`DIALOG_IN_SIGNAL_HANDLER`) and raises an exception there. The model sees such an exception between
two of its steps, not between two instructions of one step.

Calling an object that is no function shows two defects of the interpreter, which `OneOwner` and `ExceptionKept` name and do not
forbid. `exec_all_parameters` evaluates the arguments and drops their values: a temporary one keeps its TEMP flag and nothing
refers to it any more (`"leaked"`). And when an argument raises an exception, the object is delivered all the same: if a function
returns it, `res_restore` sees that it is not temporary and calls `create_return_object`, whose create call fails as
`fail_flag` is set; the failure is cleared together with the exception (`executl.c:1119-1123`), unlike what `res_restore` does with `fail_value`.

### CatchStack

`calls` are the C functions that can receive a `longjmp`; an entry of `catch_stack` is the
depth of the function whose `setjmp` filled it, or `Stale` when that function has returned.
Actions: entering a protected function, with space in the stack, after growing it, or with a
failing `realloc` (`EnterFails`); its regular end; the end of a handler; `NoMemory`.

### PollTable, PollData and Polling

A `poll_based_pollRecord` is a record with the same fields; `pollFds` and `pollFiles` are one function
`cells`. The loops that look for the next entry have no bound and rely on an end mark, whose
`revents` match every search, but whose `events` match none. Therefore `cells` does not end with the table: what
older entries and end marks left behind it is part of the state, a place that was never assigned
holds `"unknown"` bits, on which a search may end or not, and a search that finds nothing ends at
`MaxPos`. `Scan` is the set of positions where a loop may end. A function of `pol_unx.c` is an operator from the old
to the new record, so that `Listener` can use the same definitions.

`PollData` has one record per program variable (`data`), the references to files that were counted with
`incrUsageCount` (`usage`), and the variables that a MEMORY_ERROR left half way: `failed` for
`addCheck`, which are only destroyed afterwards, and `dangling` for assignments, which nothing uses.
An iteration may end behind the table: one over checks passes the end mark, which has no events. When a check is removed then,
`removeCheck` moves what is in memory before the iterator over the removed entry, and the last entry is lost (`Overwrites`). The
variable is then `overwritten`, and the model lets the program only clear it, assign to it or destroy it; `miscounted` are the
files whose references went wrong (`Strays`). Both are history variables.
Each function that changes state is an action, and they come in any order. `Observed` is a variable
that implements `Polling`: `checks`, `findings` and `files` are looked up through the index, `todo` are
the sockets of the entries from the iterator position on, and `lost` is whether the variable is overwritten. `Polling` has an action
`RemoveAfterEnd` for this exception, which `poll.s7i` does not mention: after an iteration has come to its end, a removal may change
everything about the other sockets.

### Listener

`checkedSocks` is a record of `PollTable`; `pc` says where `waitForRequest` or the server is. A call of
`waitForRequest` is `WaitForRequest` (the test of `hasNext`), then possibly `PollSocks` and
`Accept`, `AcceptFails` or `NoNewConnection`, and `NextConnection` once or twice (the entry of the listener
has the file `STD_NULL` and is skipped). Between two calls the server reads (`Serve`) and may close connections, sign them
off and on, or close the listener (`CloseListener`, `ReleaseNext`, `ListenerClosed`). Clients
connect and send at any moment, also between the poll and the delivery of its findings. A socket number that was closed
is used again.

### Sql, Drivers and Cursor

In `Sql` a database or statement record exists while its usage count is not zero. The functions of `sql_rtl.c` that check their
argument and the ones of `sql_lite.c` that they call are one action each. `heap.lite` is what the SQLite library knows of a
statement (at a row, done, reset), `heap.stmt` the flags of the driver, among them the first row, which `sqlExecute` fetches and stores
ahead. A result without rows ends with this stored answer, and `fetchFinished` is not set; a further fetch steps again, and with
`AutoReset` (SQLite from 3.6.23.1 on) the library executes the statement once more (`EmptyFetched`). `databaseVariable` and `stmtVariable` are the variables of the program; assignments change the counts.

`Drivers` has a database of one of `sql_my.c`, `sql_oci.c`, `sql_post.c`, `sql_fire.c` and `sql_cli.c` (ODBC and DB2), chosen by
`driver`. Each keeps a different set of flags (fields of `statement`) and has its own actions for
execution, fetching, binding, committing and closing. Every end of a transaction may fail, and so may the begin of the next one and a change of
the mode (`EndFails`, `ModesAfter`); the drivers raise an exception then, except for `sql_oci.c`, which ignores the results of the library. `cursor` and the transaction in the server are what the client library
knows; the actions of the library are external and may fail. `data` is the number of the row in the buffers of the
columns. Calls with a database that is not open fail.

Both define `rows` and `current` of `Cursor` from their flags. `Cursor` says that a fetch delivers the
row after the current one, or the end after the last one, and that nothing else moves the cursor except executing,
closing and failing. A driver may add `FetchAnew` to its steps, a fetch that executes again, as `SqlCursorNext` does.

### Process

`mem` has the records of processes and files with their usage counts, `child` what became of the child process, `others` the process ids that
the operating system has given to somebody else after a child was reaped. Starting a process acquires memory, pipes and a child
step by step and may fail at every step; `leaked` is what such a call left behind. `raise_error` sets `fail_flag` and
returns, as in the interpreter, so that the code after it is executed. `Kill` sends a signal to whatever process has the id.

### Hash

Every bucket is a binary tree: `next_less` and `next_greater` are the pointers. Removal replaces an element by the join of
its subtrees, as `hsh_rtl.c` does. A `for` loop visits elements in the order of the code and executes statements for each
one, which may change the map (`loop`). `entered` is a history variable with what each key should have. With
`CopyFails` memory is exhausted in the middle of a copy.

### Sets

A set has a range of positions, and a bitset (here a set of bit numbers) for each of them. The functions of `set_rtl.c` are
operators on such records; those that may run out of memory return the set of their outcomes (`Result`, `MemoryError`). The
operations on variables are actions; `element` is a history variable with the elements a variable should have. All functions that
tell something of sets are compared with it in every state. Positions are unbounded above and below in the code and
limited by the bits of an integer; with integers of 4 bits there are four of them.

### MoveFile

`disk` says for three places (the old name, the temporary one and the destination) what is there of the tree, `frames` is the recursion of
`copy_dir` and `remove_dir`. Each system call is a step and may fail. A failing `fread` or `readdir` is taken for the end by the code, without
an error: `unread` is what the last copy did not read. (The variant that maps files into memory is killed by such an error, which is
one of the ends that may come at any step.) Since the program may be killed between any two steps, an
invariant holds of the disk whenever the program ends.

### BigInteger, BigText and BigNumbers

The functions of `big_rtl.c` as operators on sequences of digits in two's complement, with digits of 3 bits and a
Karatsuba threshold of 4 digits, so that numbers of a few bits take every branch. `BigNumbers` has two variables, `big`, that
are changed in place, and the integers `num` beside them; in every state it compares all functions with arithmetic of the
integers. Failing allocation is not modelled.

### Scopes

`program` is the part of `progRecord` that is about names. `stack` has the objects of each level, `owner` for every entity
the levels that declare it, from inside out, `usage` and `node` the tree below `declaration_root`; the name of a parameter is
declared on a level of its own while the name of the function is evaluated. A declaration is one
action that may lack memory at any of its steps (`Lacking`). `inactive` is `inactive_list` and `closed` says
that `close_entity` was executed. Owners and the link of the list share a field of the entity (`data.h:203`): an entity that is
in the list, and not its last element, has a link (`Linked`), which the code reads as an owner when the node of the name
still leads to the entity. `again` is a history variable, the entities that were declared while they were in the list. A name is a path (`NamePath`): its symbol, the types of its parameters and a closing symbol, so that no name is the beginning
of another one; a parameter that is declared twice is missing in the path, and every path that can come of that has its nodes in `TreeNode`.

### Syntax

`syntax` has priorities and associativity of identifiers and, for every beginning of a statement or operator, the
alternatives that may follow (formal tokens). Declarations are read one after the other, in the order of the grammar, and texts are
parsed with them. The reference is the set of interpretations that chapter 9.4 of the manual allows (`Fillings`): priorities of operands are at
most those of the operator's places.

### Match

The tree of declarations is a set of paths; a step of a path is a symbol, an attribute or an `in` or `inout` parameter with a type. `match_subexpr` and
the functions it calls try alternatives in a fixed order; they are modelled as data (`Alternatives`: a sequence of choices) and a
recursion over them. `Changed` is the effect of a choice on an argument that is an expression: it becomes the call it was matched with and
stays so when the search goes back. The reference is a set: the declarations that the elements can reach through any
of their types.

### MCRuntime

These modules share no state, as the parts of the run-time library do not. `part` says which one takes the steps, and all
others stay in their initial states, so that the reachable states are the sum and not the product of those of the parts;
an invariant of one part holds trivially in the states of the others. The same model values stand for
interchangeable variables, statements and records in every part, so that one set of permutations is a symmetry of each (which free
record is taken makes no difference); what is not interchangeable is given by other values.

## 3. Runs

Functions of the `lambda` runs: `f` has a value and a reference parameter, a local and a result variable; `g` has a
reference parameter and returns an expression; `h` is a proc with a value parameter.

| Run | Instance | Result |
|---|---|---|
| `lambda_arguments` | `f`, `g`, `h`, 2 nested activations, 2 arguments | `OneOwner` holds; `Lambda` implements `DeepBinding` (`DeepSpec`) |
| `lambda_recursion` | `f`, `g`, 3 nested activations, failing destroy calls, fairness | `NoDangling`, `ShallowBinding`, `RestoredOnReturn`, `ExceptionKept`, `Unwinds` hold |
| `lambda_failures` | `f`, `g`, `h`, 2 arguments, failing create and destroy calls, asynchronous exceptions | `TypeOK`, `CompleteArguments` hold |
| `poll_copy` | 2 variables, 2 sockets, MEMORY_ERROR, illegal modes | `IndexMatches`, `UsageCounted` hold |
| `poll_promise` | 3 sockets, 2 files | `FindingsCounted` holds; `PollData` implements `Polling` (`PollingSpec`) |
| `listener` | 2 connections, hang-ups, socket numbers run out, fairness | `ConnectionsChecked`, `ReadWillNotBlock`, `ReturnsWithRequest`, `AllReleased`, `Served`, `Accepted` hold |
| `runtime` | all parts of `MCRuntime` | the properties below hold |
| `catch_stack_analyze` | `realloc` fails in `analyzeProg` | `TargetsMaintained` is violated |
| `sql_commit` | SQLite, transactions | `CommitCommits` is violated |
| `move_remains` | a tree of 4 nodes, writing fails | `RemainsRemoved` is violated |
| `move_errors` | a tree of 4 nodes, reading fails | `ErrorsRaised` is violated |
| `radix_lowest` | numbers of all sizes, five bases | `AllTextsAreRead` is violated |

Properties of `runtime`:

| Part | Instance | Properties |
|---|---|---|
| catch stack | 6 nested functions, stack of 2 entries that grows to 4, `realloc` fails in blocks and `interpret` | `TargetIsInnermost`, `InnermostReceives` |
| databases | 1 database, 2 statements, 2 variables of each type, 1 parameter, up to 2 rows | `SqlUsageCounted`, `ColumnsOfRow`, `CursorPromised` |
| drivers | 5 drivers, 2 statements, 0 or 2 rows | `DriversPromised`, `CommitsArePermanent` |
| processes | 2 records, 2 process ids, 2 files, 2 process variables and a file variable | `ProcessesCounted`, `WaitsForOwnChild`, `NothingLeaked` |
| hash maps | 2 maps, 4 keys in one of 2 buckets | `LoopVisitsAll`, `LookupFinds` |
| files | a directory with a file and a directory with a file, all calls may fail | `WholeSomewhere`, `MoveTellsTruth` |
| sets | 2 variables, integers of 4 bits, bitsets of 4 bits | `SetsAgree` |
| numbers | digits of 3 bits, values with one to eight digits | `ArithmeticExact` |
| scopes | an identifier, a name with three lists of parameter types, 2 nested bodies, every lack of memory | `InnermostFound`, `EntitiesReleased` |
| syntax | three grammars with three or four declarations each, texts of up to 5 symbols and some longer ones with calls and groups | `ParsedAsDeclared` |
| matching | derived types, interfaces and functions, up to 3 declarations | `FittingMatched` |

`RuntimeTypeOK` holds in every part.

Bounds. `MaxDepth` bounds nested activations; recursion needs two activations of the same function and
mutual recursion three. `MaxArity` bounds the arguments of an action: two are needed for an exception after the
first. `MaxOid` is large enough that objects never run out (a step without a free object is disabled, and deadlock
is checked). `MaxLeaks` is 1: leaked objects stay in `heap` for ever and play no further part. 4 entries of the catch stack for 6 functions make the stack full with functions still entering.
`TABLE_START_SIZE` and `TABLE_INCREMENT` (256 and 1024) are 2 and 1, or 3 and 1, so that tables grow. `MaxPos` leaves one or two
places behind the largest table and its end mark; the iterator positions behind it differ in nothing else. Three
entries are the least for a removal that moves two of them (the last entry before the iterator, and the last
of the table). In `poll_promise` the usage counts are no part of the view of a state, as no property and no other variable of the run depends on them; in
`poll_copy` the view has them for all files but those in `miscounted`, of which `UsageCounted` says nothing. `MaxQueue` is 1: pending connections are alike, and the listener accepts at most one per poll.
Two rows (`MaxRow`, `MaxRows`) are the least for a row that is neither the first nor followed by another one; the flags of the drivers
distinguish only the first fetch, further ones and the end. Two process ids for two children let an id be used again while the old record
still exists. Four keys in one bucket build every tree in which a removed element has two subtrees with two levels; a second bucket would be
an independent tree. A loop runs while the
other maps are empty (`Alone`): during a loop only its map changes. Integers of 4 bits have four bitsets, the least for a gap between two sets that
have neighbours. `MaxFactor` and `MaxPower` bound products so that TLC's integers of 32 bits do not overflow.
`MaxUsage`, `MaxBodies` and `MaxObjects` of `Scopes` allow a declaration in the program and in two function bodies; `MaxEntities` is the number of
names with parameters that exist at a time. A third declaration (`MaxDeclared`) is the least for one that fits, one that needs a variable and
one that is nearer. All texts of up to 7 symbols were checked once with the first grammars; they showed nothing that shorter
ones did not.

`runtime` and the violations of its parts do not check deadlock: bounds stop some parts, and a program may stop after any call of a library.

Fairness. `Unwinds` assumes weak fairness of `Interpreter` as a whole: the interpreter is a
sequential program that waits for nothing, so it takes a step whenever it can. Nothing is
assumed of signals, nor of the choices of the program: a program may recurse or loop forever
*without* an exception, but not while one is raised. `Served` and `Accepted` assume weak fairness of
`Server`: it calls `waitForRequest` again and again, as in the example of its documentation, and whenever
a connection is delivered it reads from it. Nothing is assumed of clients. `listener` does not check deadlock:
the server may have signed off all connections, with no client left, and then waits in `poll` forever.

The five violations are disagreements between code and text:

* `TargetsMaintained`: `resizeCatchStackOkay` and `analyzeProg` both undo the increment of
  `catch_stack_pos`.
* `CommitCommits`: `sqlCommit` of `sql_lite.c` (line 1904) sends COMMIT only when `sqlite3_get_autocommit` is true, that is when no transaction is
  open.
* `RemainsRemoved`: a clone that fails leaves what was copied, as the function that removes it does nothing when
  an error is set (`cmd_rtl.c:674`).
* `ErrorsRaised`: when a file or a directory cannot be read to its end, the copy ends without an error (`cmd_rtl.c:529`, `cmd_rtl.c:666`), and a move removes the
  original. FILE_ERROR is promised when "a system function returns an error" (`cmd_rtl.c:4303`).
* `AllTextsAreRead`: the absolute value of the lowest number of a size has its sign bit set, which the conversion of
  long numbers with a base that is not a power of two takes for a negative number (`big_rtl.c:1463`).

Assumptions under which the properties hold, exceptions that they make, and what the models show without them. Where a property makes an
exception, its comment names it:

* `CreateOutcomes = {"ok"}` for `ShallowBinding`. With failing create calls, `exec_lambda` does not call
  `res_restore` when `res_init` fails (`exec.c:524`), and `create_local_object` removes the exception of a failed copy of an argument, so that
  the body is executed without its parameters (`executl.c:1184`).
* `~AsyncRaise` for `ShallowBinding`: `exec_lambda` skips `par_restore` when a signal handler raises an exception while
  parameters are bound (`exec.c:503`).
* `IndexMatches`, `UsageCounted` and `PollingSpec` make one exception, which is a fault of `removeCheck` (`pol_unx.c:217`): a check that is removed
  after an iteration has ended behind the table. `removeCheck` believes that the iterator is in the table and overwrites the
  entry of another socket. This is a legal use of `poll.s7i` (a loop over `iterChecks` comes to its end, sockets are added, one is removed).
  The properties leave out the variable until it is cleared or replaced, and the files of the two entries concerned; `Polling` has the
  exception as an action of its own. Loops over findings stay in the table as long as every finding matches.
* After MEMORY_ERROR in `addCheck` the socket stays in the index, and after one in an assignment the index has been
  freed (`pol_unx.c:155`, `pol_unx.c:469`): `PollData` leaves out programs that go on with such a variable, except for the
  destruction in the first case.
* `HangUps` without `"alone"`: POLLHUP, POLLERR and POLLNVAL come together with POLLIN, as TCP implementations usually
  report them. Otherwise the iterator of the listener passes the end of the table, and closing a connection damages
  the index (`ConnectionsChecked` fails).
* `~RangeErrors` for `FindingsCounted`: after RANGE_ERROR `iterChecks` has restarted an iteration over findings without
  their number.
* `Served` makes an exception when no socket number is left for a pending connection: `accept` raises FILE_ERROR, and `waitForRequest` is left before it looks
  at the existing connections; as the pending connection stays, a server that goes on never gets to them.
* `AllReleased` is about connections that are signed on. `listener.s7i:93-94` promises that closing a listener removes all references to it from the
  accepted sockets, but `close` goes over its checks, and a connection that was signed off is not among them: it keeps its reference.
* `CursorPromised` makes an exception for a fetch after the end of a result without rows. The first such fetch takes the answer that
  `sqlExecute` has stored and does not set `fetchFinished` (`sql_lite.c:1989`); the second one steps again, and SQLite from 3.6.23.1 on resets the
  statement then and executes it once more, also an INSERT. `sql_rtl.c:1588` says of `sqlFetch` that it delivers FALSE "if no more result data is available".
* `~BindErrors` for
  `ColumnsOfRow`: when a value cannot be bound, the statement has been reset, but `fetchOkay` still allows its columns.
  A connection that is closed while it has statements is refused by SQLite and forgotten by the driver; `SqlUsageCounted` leaves it out.
* `CommitsArePermanent` makes two exceptions: `sql_oci.c` ignores the result of OCITransCommit (line 4190), so a commit that failed returns without an
  exception; and `setAutoCommit(TRUE)` of `sql_oci.c` and `sql_fire.c` only stores the mode, so changes of before stay uncommitted in auto-commit mode. In all other drivers a commit
  or a change of the mode that fails raises an exception and leaves the mode as it was (`sql_post.c:3583`). In `sql_fire.c` a commit closes the cursors and its statements can never be executed
  again; in `sql_cli.c` the same holds after a failed prefetch; in `sql_post.c` a COMMIT whose BEGIN fails leaves manual commit mode
  without a transaction. The model does the same.
* `~ExclInLoop` for `LoopVisitsAll`: an element that is removed by the statements of a loop over the map is used after it was freed. A copy
  that fails frees a map whose size is set and whose elements are not there; the model ends with the map.
* `pcsKill` does not look whether the process was reaped; `WaitsForOwnChild` is about waiting only.
* `SetsAgree` says exactly when `setSConv` raises RANGE_ERROR, which is not what its documentation says: `set_rtl.c:1698` names sets with
  negative values and sets that do not fit, and line 1708 raises it also for sets whose
  memory covers other positions, e.g. `integer({1, 100} - {100})` although that set equals `{1}`. So equal sets are treated differently.
  `a &:= a` reads the memory of `a` after a `realloc` that shrinks it, which is right as long as that does not move it.
* `InnermostFound` and `EntitiesReleased` make an exception each for one fault: a name with parameters that was declared forward, redeclared or
  shadowed is counted more often by `get_node` than `pop_object` takes back, so its node may still lead to its entity when this is
  inactive. Then the link of the inactive entity is read as an owner by `find_name` (`Misread`), and when the name is declared again,
  the entity is entered in `inactive_list` a second time when it loses this declaration, and `close_entity` frees it twice (`again`). The model has these programs, and shows that
  nothing else goes wrong in them: every other name is found, and no entity is lost.
* `Evaluating` in `FittingMatched`: a declaration with a parameter for an expression that is not evaluated may be missed, when
  another declaration was tried before and has changed the expression into a call.
* `ParsedAsDeclared` makes an exception for texts with several legal interpretations. The manual (9.4) calls them illegal; the parser accepts `A o B o C`
  for an operator with `-><-`, as `A o (B o C)`. The property says how far this goes: only for operators of one priority that both may take the operand between
  them, and always with the interpretation that puts the operands most to the right.

## 4. Proofs

A run shows a property for a few sockets, files or nested calls; the theorems below show it for every value of the constants that satisfies
the named assumptions. Each follows one argument: an inductive invariant holds initially, every action keeps it (one lemma per
action), and it implies the property. All inductive invariants were first checked with TLC on the instances of the runs. Where a theorem
has a hypothesis, it is one of the assumptions at the end of section 3, and the property is false without it.

**Lambda** (`LambdaProofs`; `ConstantsAssumption` and `FormalsAssumption`: a formal belongs to one function and has one role
in it, and only parameters are references).

* `TypeCorrect`: `Spec => []TypeOK`, and `ArgumentsComplete`: `Spec => []CompleteArguments`, for
  all create outcomes, destroy failures and signals. The inductive invariant is
  `TypeInv == TypeOK /\ WellFormed /\ InterruptSet`. `CompleteArguments` is not inductive:
  `exec_action` starts when `interrupt_flag` is not set, so one needs that an exception always comes with
  `interrupt_flag` (`InterruptSet`), and that the activations below the innermost one wait for an
  argument that is missing, or for a body (`WellFormed`), as `Return` changes them.
* `ShallowBindingHolds`: `Spec => []ShallowBinding`, and `CallsRestore`: `Spec => RestoredOnReturn`,
  both under `CreateOutcomes = {"ok"}` and `~AsyncRaise`, with arbitrary destroy failures and
  suspended signals. `BindingInv` adds to `TypeInv` that every activation, not only the innermost, has
  saved what its formals had at entry, that `par_init` has saved a value *before* the argument
  is evaluated (`SavedParams`), and that no exception is raised while formals are bound
  (`BindsWithoutFailure`), the reason why `exec_lambda` may skip restores then.
* `NoDanglingHolds` and `ExceptionsAreKept` under the same two assumptions, and `OneOwnerHolds` when destroy calls
  succeed, too (`~DestroyRaises`: an object whose destruction fails is never freed). The objects of `Gone` are those that were freed and
  those that `exec_all_parameters` has dropped; nobody owns them. `NoDangling` and `OneOwner` speak of single
  places; `OwnInv` says what they follow from. Each activation owns the values of its value parameters, locals and result, the
  temporaries bound to its reference parameters, the arguments that are not bound yet, and a temporary result (`Owned`). It may
  refer without freeing to literals and to what the bodies below it own (`Borrowable`), which cannot change before it returns;
  reference parameters and borrowed arguments refer to nothing else (`FrameOwn`). What two activations own is disjoint (`Ownership`).
  A call borrows more, and a return takes the result out of what the callee owned, or finds it among what the caller could
  refer to, so a body never returns one of its own objects without the copy of `res_restore`. Two facts come from the call
  sites: what is called for a statement returns no temporary (`Sorts`), and all but the innermost activation are in a phase in which they
  evaluate something (`Suspended`). `Exact` adds the reverse direction: every object in use that is not global is owned.
  `Calm` says what an activation can still do with `fail_flag` set: it binds, creates, copies and starts nothing.
  That a name that is not bound again refers to what the nearest activation below gave it (`NowInUse`) uses that a set of
  positions that is not empty has a greatest element (`GreatestNumber`, from the well-founded order of the numbers).
* `ImplementsDeepBinding` (`DeepSpec`) under the same two assumptions. What every activation has saved, and `objValue`, are the values of the formals in that activation
  (`EnvironmentIsNow`), and the innermost activation that binds a formal gave it its value (`VariablesVisible`). Every action
  is one of four `VariableStep`s: nothing changes; the innermost activation drops bindings or binds one more formal; a call; a return,
  after which the formals are what they were when the call began.

**CatchStack** (`RuntimeProofs`), for every depth, start size and increment, and every set of functions in which `realloc` fails
except `analyzeProg`, whose failure is the violation `catch_stack_analyze`.

* `CatchStackTyped`, `LongjmpTargetIsInnermost` (`TargetIsInnermost`) and `LongjmpReachesInnermost` (`InnermostReceives`). `CatchInv` relates the catch
  stack to the calls: its positions belong to different protected calls, in the order of the calls (`TargetsOrdered`), and every protected call has one (`EachHasTarget`),
  so that the last position is that of the innermost one.

**PollData** (`PollTableProofs`, `PollDataProofs`; `PollTableAssumption`, `PollDataAssumption` and `UndefinedAssumption`), for every number of
sockets, files and variables. Removals after the end of an iteration are among the steps; the properties make the exception of section 3 for them.

* The lemmas of `PollTableProofs` say what an operation does to the entry *of a socket*, wherever the entry is:
  `RemoveCheckOK` that a removal, which moves up to two entries, leaves all other entries as they are and on the same side of the iterator;
  `NextLeft` that `nextFile` delivers the first of the entries that are left, and that a scan with a finding left does not leave the table.
  `OverwritesOK` says what a removal behind the table does: one entry becomes what is in memory before the iterator, one is lost, all others stay.
* `PollTyped` (with `size < capacity`, the place of the end mark), `IndexAgrees` (`IndexMatches`) and `ReferencesCounted`
  (`UsageCounted`) from `PollInv`: the index and the table of every variable agree, except for one socket
  after a failed addition and for overwritten variables, and the usage counts of files that were not miscounted are the numbers of references, also of
  variables that were overwritten or lost (`Counted`).
* `FindingsNotMissed` (`FindingsCounted`) under `~RangeErrors`, from `FindingsInv`: the number of findings of the last poll is not smaller than
  the entries with findings, which has to hold after additions and removals, before an iteration starts. An overwritten variable has no entries behind its iterator.
* `PollingImplemented` (`PollingSpec`) under `Var = {Observed}` (`Polling` has no assignment) and `~RangeErrors`:
  the refinement of `Polling`. A table whose index and entries agree is seen by sockets (`SeenBySocket`), so a move of an
  entry is invisible; a removal keeps every other socket on its side of the iterator; a search ends at the first
  entry that is wanted, or when none is left (`SearchEnds`, which needs `FindingsInv` when `iterEvents` is zero). A failed
  addition changes nothing that is seen, and maps to the removal of a socket that is not checked. A removal that overwrites another entry maps to `RemoveAfterEnd`:
  no socket is left in `todo` when the iterator is behind the table.

**Listener** (`ListenerProofs`; `ListenerAssumption`), for every set of sockets, under `"alone" \notin HangUps`.

* `ChecksOfConnections` (`ConnectionsChecked`), `DeliveredIsReadable` (`ReadWillNotBlock`), `RequestReturned` (`ReturnsWithRequest`) and `ConnectionsReleased`
  (`AllReleased`), from the same lemmas. `ListenerInv` has two parts. `EntriesOK`: the table holds the listener at
  position 0, where no removal moves it, and the connections that are signed on. `PhaseOK`: every finding that an
  iteration has not come to belongs to a connection with input (`Iterates`); the number of findings does not lead the iterator
  out of the table (`SomeLeft`), which needs that a finding of the listener itself is
  the only one that was not delivered, and still counted, when `accept` starts an iteration (`NextReady`); and in `close` the connections before the iterator are released (`Closing`).

**Sql** (`SqlProofs`; `SqlAssumption`), for every set of databases, statements and variables.

* `SqlTyped` and `UsageExact` (`SqlUsageCounted`) without further hypotheses, `ColumnsCurrent` (`ColumnsOfRow`) under `~BindErrors`. `SqlInv` relates the state of each statement to that of
  the library, and counts references of variables to statements, and of statements and variables to databases.
* `CursorImplemented` (`CursorPromised`), for both values of `AutoReset`: the refinement of `Cursor`. Initial states are mapped to initial states and each action to a step of `Cursor` or to none,
  or, for a fetch from an empty result that was fetched before (`EmptyFetched`), to `FetchAnew`.

**Drivers** (`SqlProofs`; `DriversAssumption`: a result has at most `MaxRows` rows), for every set of statements and every `MaxRows`, without further hypotheses.

* `DriversTyped`, `CommitsPermanent` (`CommitsArePermanent`) and `DriversImplementCursor` (`DriversPromised`). `DriverInv` says for each statement what its
  flags mean together with the cursor of the library (`FlagsKnown`): outside of sql_post and of prefetching, `data` is the row of the cursor when `fetchOkay` is set; a list of
  sql_cli is the rest of the result (`RestOfRows`), so its length tells the current row; `fetch_index` is 0 until it has been used.
  The failures that leave flags behind (a bind of sql_cli that fails, an execution that fails while rows are prefetched) also leave `executed` FALSE, which is why these
  facts are claimed only of executed statements. `CommitInv` adds to `CommitsArePermanent` that sql_post has no
  transaction in auto-commit mode, not even after a COMMIT or BEGIN that failed.

**MoveFile** (`SystemProofs`; `TreeAssumption`: a directory does not contain the root, two directories have no common entry, and everything is
below the root), for every tree and every order of failures.

* `MoveTyped`, `TreeNeverLost` (`WholeSomewhere`) and `MoveTruthful` (`MoveTellsTruth`). `MoveInv` says for each phase of a move which of the three places holds the whole tree, or all of it that could be read, what a copy or removal
  has done so far (an entry of a directory was copied, or not read, or is still to be copied: `CopiedSoFar`), that what was not read is closed below (`UnreadClosed`), and that nothing exists below a directory that does not exist (`Connected`).

**Process** (`SystemProofs`; `ProcessAssumption`: records and variables are finite in number), for every set of process ids, files and variables.

* `ProcessTyped`, `UsageOfProcesses` (`ProcessesCounted`), `OwnChildAwaited` (`WaitsForOwnChild`) and `FailuresReleaseAll` (`NothingLeaked`). `ProcessInv` counts
  the references of variables, and of process records to the files of their pipes, as functions to which a step assigns one value at a time (`CountChanges`). `WaitsForOwnChild` is not
  inductive: it needs that two children that live have different process ids (`DifferentPids`), so that releasing one record, whose child then belongs to nobody, takes away
  no id from another one, and that a record without a usage is empty and has no child (`UnusedIsEmpty`).

**Hash** (`RuntimeProofs`; `HashAssumption`: the keys are finitely many numbers, and every one has a bucket), for every set of maps, keys and
data, every number of buckets and all hash codes.

* `HashTyped` and `LookupsFind` (`LookupFinds`) without further hypotheses, from `HashInv`. A map is seen as an assignment of keys to slots (the places of the
  table and the two pointers of each element, `PointersOf`). `Trees` says that an element that some slot refers to is referred to by this
  one only, that this slot is on the search path of the element (`Path`: from its bucket along the comparisons), and that there is a rank that decreases along all
  pointers, so no walk goes round in circles. `GoodMap` adds that the size is the number of the elements, and that their data are
  the data that were last entered. The removal joins two subtrees: everything below `next_greater` of the removed element has a greater
  key than everything below its `next_less`, so the search comes past the end of the pointers `next_greater`, where it is joined, and all
  other paths lose the removed element only (`RemovedPath`); the ranks of the moved tree are taken from the old ones.
* `LoopsVisitAll` (`LoopVisitsAll`) under `~ExclInLoop`. `LoopInv` says of a loop that no pending slot is below another one (`PendingApart`), that what
  was visited is below no pending slot (`VisitedBehind`), and that all that is missing is below one (`MissingBefore`). An element that a statement
  enters hangs at a slot that was empty, so it comes later in the loop or is never visited, and changes nothing of these three.
* The recursive functions of `Hash` (`Search`, `Follow`, `Walk`) are recursive definitions in TLA+ (a `CHOOSE`), so that a value exists has to be proved: `RecursionEnds` gives
  one for every definition whose value for an argument depends on arguments of lower rank only. What they compute is then shown with a
  counterexample of minimal rank (`Least`, from the well-founded order of the numbers).

**Sets** (`RuntimeProofs`; `NumberAssumption`: a bitset has at least one bit, the numbers that are included are integers of that many
bits, and `OutOfRange` is no integer), for every size of a bitset, any variables and all numbers. `SetsTyped` (`SetTypeOK`) and `SetsAgreeHolds` (the whole of `SetsAgree`)
without further hypotheses, from `SetsInv`: every variable has a set that is `SetOK` (a bitset for every position from the first to the last, and
only bits that stand for integers) and whose elements are those that it should have.

* A set is reasoned about as the function from positions to bits that it stands for (`Bits`, empty outside the memory), and a number is one bit at one
  position (`BitOfNumber`, `OrderOfNumbers`), so what an operation does to the elements follows from what it does to the bits at each position
  (`ElementsFromBits`). Every operation but `setExcl` is shown to make its result from such a function (`Covers`, `Covered`): the cases of
  `MergedPlaces` are the positions that one set has, both have, or that are in the gap between them.
* The outcomes of an operation with failing allocation are `Allowed` when they have the elements of the result or, after MEMORY_ERROR, those of before.
* Comparisons look at the ends and at the common positions; `setCmp` is decided by the highest position where the sets differ (`HighestDifference`),
  which is above one of the sets, common to both, or below one of them.
* What is added up over the bitsets is a fold of the community modules. `FoldExists` unfolds one, with the function that takes the elements out of a
  finite set one by one; `SumExists` shows that a fold that adds is a sum in any order (`Sums`). From it `CardFromIs` counts the elements from a position
  on, `RankFacts` gives every rank in a finite set of numbers exactly one of them, so every element is the one that `setRand` chooses for one random
  number (`CountedOK`), and a bit of a hash code tells whether an odd number of bitsets have it (`HashIsOdd`), which adding empty positions does not change.
* The provers know nothing about `^`: `PowerDoubles` comes from the number of subsets of a finite set. Then the sum of the bits below a bit is smaller
  than its power (`LowFacts`), and above it the sum grows by multiples of that power (`HighFacts`), so a sum has exactly the bits that were added
  (`BitsOfSum`), and the bits of a number add up to it (`BitsAddUp`).

**Scopes** (`ScopesProofs`; `ScopesAssumption`: parameters are identifiers, no type or symbol is the closing symbol, and identifiers are
told from entities and paths), for every set of identifiers and names with parameters, any memory and any bounds of the declarations.
`ScopesTyped` (`ScopesTypeOK`), `InnermostAlwaysFound` (`InnermostFound`) and `NoEntityLost` (`EntitiesReleased`) without further
hypotheses, from `ScopesInv`.

* Neither property is inductive. `Accounted` says that the owners of an entity are the levels that have an object of it (`Held`), each once and from inside out, so the
  head of the list is the innermost one. `Entities` says that the tree leads to the owned entities (`TreeCore`: the node of a full name has an entity if and only if
  it is used, the entity has that name, and a node is used at least as often as the names of owned entities lead through it), and that all other entities
  are in `inactive`, once unless they were declared again (`ListedOnce`); owned ones are there only in that case (`Settled`).
* The counts are inequalities: after a forward declaration or a redeclaration a node is used more often than there are entities below it, because `get_node` counts
  declarations and `pop_object` takes one use back, when the last owner leaves. `TreeWith` is the tree with one more use of a
  path; `UseTakenBack` shows that `pop_name_list`, which stops at the first node that is used once and empties what is below it, comes back from there to
  `TreeCore`, also when a declaration fails before it has an entity, or with a new one (`GivenBack`).
* A level is popped object by object: `PopObjectsSteps` unfolds the fold of the community modules into its steps, and `PopObjectsAre` follows them under the
  condition that no level above has an object of the same entity (`NoObjectAbove`), the reason why `pop_object` may take the head of the owners.
  The objects of the level for parameters are of identifiers only, so evaluating the parameters of a name
  leaves the tree as it is (`OnlyParameters`, `EvalNameListIs`), and its entity is entered below them.
* The node of a name may lead to an inactive entity. When this has no link, `find_name` finds no declaration, which is right, as
  there is none; when it has one, the name is `Misread`, the exception of `InnermostFound`.

Only model-checked: `Unwinds`, `Served` and `Accepted` are liveness properties, which the provers used here do not
support. `BigInteger`, `BigText`, `Syntax` and `Match` compute with recursive operators (`RECURSIVE`) over sequences and trees, which the
provers do not accept: `ArithmeticExact`, `ParsedAsDeclared` and `FittingMatched` stay with TLC, and `RuntimeTypeOK`, which has the types of these
modules beside those that are proved for each other part.

## 5. Plan

Next models: conversions of values in the drivers and the driver for TDS (`sql_tds.c`: all statements share one connection, and `sqlFetch` looks
neither at `fetchFinished` nor at FAIL); dot expressions and the recovery after the first error in the parser, formal parameters
and access rights in matching; `arr_rtl.c`, `str_rtl.c` and `int_rtl.c` against reference
definitions; UTF-8; free lists. For `Lambda`: assignment to variables (borrowed elements), `longjmp` across
activations, and a history of signals.

Not modelled, and why: input and output (`fil_*.c`, terminal, graphics, time) pass calls
to the operating system and keep little state; the scanner and the compiler are
sequential transformations of texts and trees; floating point numbers are those of the C library; the wording of messages; `chkccomp.c` and
other programs that configure the build. Ports to Windows, DOS and Emscripten repeat components above.

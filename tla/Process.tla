------------------------------ MODULE Process ------------------------------
(* Child processes: pcs_unx.c starts them, waits for them and kills them,   *)
(* pcs_rtl.c counts the usages of the process records and hands out the     *)
(* files of their pipes.  The operating system is external: a child that    *)
(* ended keeps its process id until it is waited for (reaped); afterwards   *)
(* the id may be given to another process.  A call of raise_error sets the  *)
(* fail flag and returns, as it does in the interpreter.                    *)
EXTENDS Naturals, FiniteSets

CONSTANTS Proc,             \* memory for process records
          File,             \* memory for file records
          Pid,              \* the process ids of the operating system
          ProcessVariable, FileVariable,
          NIL,
          ExitValue         \* the exit values of children that end by themselves

ASSUME ProcessAssumption ==
    /\ NIL \notin Proc /\ NIL \notin File
    /\ IsFiniteSet(Proc) /\ IsFiniteSet(ProcessVariable) /\ IsFiniteSet(FileVariable)

VARIABLES mem,              \* process records and file records
          child,            \* [Proc -> how the child of the record fares]
          others,           \* process ids of processes that nobody waits for
          processVariable, fileVariable,
          leaked            \* what calls that failed acquired and did not give up

processVars == <<mem, child, others, processVariable, fileVariable, leaked>>

Stream == {"stdIn", "stdOut", "stdErr"}

\* A child that was killed by a signal has the exit value 0.
Exit == ExitValue \cup {0}

NoFiles == [std \in Stream |-> NIL]
NoProc == [usage |-> 0, pid |-> NIL, isTerminated |-> FALSE, exitValue |-> 0, file |-> NoFiles]
NoFile == [usage |-> 0, open |-> FALSE]
NoChild == [state |-> "none", exit |-> 0]

ProcessTypeOK ==
    /\ mem.process \in [Proc -> [usage : Nat, pid : Pid \cup {NIL}, isTerminated : BOOLEAN,
                                 exitValue : Exit, file : [Stream -> File \cup {NIL}]]]
    /\ mem.file \in [File -> [usage : Nat, open : BOOLEAN]]
    /\ child \in [Proc -> [state : {"none", "running", "zombie", "reaped"}, exit : Exit]]
    /\ others \subseteq Pid
    /\ processVariable \in [ProcessVariable -> Proc \cup {NIL}]
    /\ fileVariable \in [FileVariable -> File \cup {NIL}]

ProcessInit ==
    /\ mem = [process |-> [p \in Proc |-> NoProc], file |-> [f \in File |-> NoFile]]
    /\ child = [p \in Proc |-> NoChild]
    /\ others = {}
    /\ processVariable = [v \in ProcessVariable |-> NIL]
    /\ fileVariable = [w \in FileVariable |-> NIL]
    /\ leaked = {}

---------------------------------------------------------------------------
(* The operating system.                                                    *)

Lives(p) == child[p].state \in {"running", "zombie"}
PidInUse == others \cup {mem.process[p].pid : p \in {q \in Proc : Lives(q)}}
FreePid == Pid \ PidInUse

ChildEnds(p) ==
    /\ child[p].state = "running"
    /\ \E e \in ExitValue : child' = [child EXCEPT ![p] = [state |-> "zombie", exit |-> e]]
    /\ UNCHANGED <<mem, others, processVariable, fileVariable, leaked>>

OtherStarts ==
    /\ \E pid \in FreePid : others' = others \cup {pid}
    /\ UNCHANGED <<mem, child, processVariable, fileVariable, leaked>>

---------------------------------------------------------------------------
(* Reference counting of files and process records.                         *)

filDestr(m, f) ==
    IF f = NIL THEN m
    ELSE IF m.file[f].usage = 1 THEN [m EXCEPT !.file[f] = NoFile]
    ELSE [m EXCEPT !.file[f].usage = @ - 1]

Closed(m, f) == IF f = NIL THEN m ELSE [m EXCEPT !.file[f].open = FALSE]

FreeStream(m, p, std) == filDestr(Closed(m, m.process[p].file[std]), m.process[p].file[std])

pcsFree(m, p) ==
    [FreeStream(FreeStream(FreeStream(m, p, "stdIn"), p, "stdOut"), p, "stdErr")
        EXCEPT !.process[p] = NoProc]

pcsDestr(m, p) ==
    IF p = NIL THEN m
    ELSE IF m.process[p].usage = 1 THEN pcsFree(m, p)
    ELSE [m EXCEPT !.process[p].usage = @ - 1]

pcsCreate(m, p) == IF p = NIL THEN m ELSE [m EXCEPT !.process[p].usage = @ + 1]

\* The child of a record that was freed goes on, but nobody waits for it.
Abandoned(m) == {p \in Proc : Lives(p) /\ mem.process[p].usage > 0 /\ m.process[p].usage = 0}
Release(m) ==
    /\ mem' = m
    /\ others' = others \cup {mem.process[p].pid : p \in Abandoned(m)}
    /\ child' = [p \in Proc |-> IF m.process[p].usage = 0 THEN NoChild ELSE child[p]]

pcsCpy(v, w) ==
    /\ Release(pcsDestr(pcsCreate(mem, processVariable[w]), processVariable[v]))
    /\ processVariable' = [processVariable EXCEPT ![v] = processVariable[w]]
    /\ UNCHANGED <<fileVariable, leaked>>

ProcessVariableEnds(v) ==
    /\ Release(pcsDestr(mem, processVariable[v]))
    /\ processVariable' = [processVariable EXCEPT ![v] = NIL]
    /\ UNCHANGED <<fileVariable, leaked>>

\* Mutant: the usage count of the file is not incremented.
ChildFileUncounted(v, std, w) ==
    LET f == mem.process[processVariable[v]].file[std]
    IN  /\ processVariable[v] # NIL
        /\ mem' = filDestr(mem, fileVariable[w])
        /\ fileVariable' = [fileVariable EXCEPT ![w] = f]
        /\ UNCHANGED <<child, others, processVariable, leaked>>
    
\* The file of a pipe is assigned to a variable of the program.
pcsChildFile(v, std, w) ==
    LET f == mem.process[processVariable[v]].file[std]
        counted == IF f = NIL THEN mem ELSE [mem EXCEPT !.file[f].usage = @ + 1]
    IN  /\ processVariable[v] # NIL
        /\ mem' = filDestr(counted, fileVariable[w])
        /\ fileVariable' = [fileVariable EXCEPT ![w] = f]
        /\ UNCHANGED <<child, others, processVariable, leaked>>
    
\* Closing a file that is already closed raises FILE_ERROR.
filClose(w) ==
    /\ fileVariable[w] # NIL
    /\ mem' = Closed(mem, fileVariable[w])
    /\ UNCHANGED <<child, others, processVariable, fileVariable, leaked>>

FileVariableEnds(w) ==
    /\ mem' = filDestr(mem, fileVariable[w])
    /\ fileVariable' = [fileVariable EXCEPT ![w] = NIL]
    /\ UNCHANGED <<child, others, processVariable, leaked>>

---------------------------------------------------------------------------
(* Starting of processes.  A function that starts a process does its steps  *)
(* in order; a step acquires memory or descriptors, or it is only a test.   *)
(* When a step fails the branch of this step gives up what the steps before *)
(* it acquired.                                                             *)

PipeFiles == {"stdInFile", "stdOutFile", "stdErrFile"}

StartPipeSteps == <<"argv", "access", "process", "stdInFile", "stdOutFile", "stdErrFile",
                    "stdInPipe", "stdOutPipe", "stdErrPipe", "fork">>

\* Mutant: the pipe for stdErr stays open when fork fails.
ForkGivesUpTwoPipes(step) ==
    CASE step = "argv" -> {}
      [] step \in {"access", "process"} -> {"argv"}
      [] step = "stdInFile" -> {"argv", "process"}
      [] step = "stdOutFile" -> {"argv", "stdInFile", "process"}
      [] step = "stdErrFile" -> {"argv", "stdInFile", "stdOutFile", "process"}
      [] step = "stdInPipe" -> {"argv", "process"} \cup PipeFiles
      [] step = "stdOutPipe" -> {"argv", "process", "stdInPipe"} \cup PipeFiles
      [] OTHER -> {"argv", "process", "stdInPipe", "stdOutPipe"} \cup PipeFiles

StartPipeGivesUp(step) ==
    CASE step = "argv" -> {}
      [] step \in {"access", "process"} -> {"argv"}
      [] step = "stdInFile" -> {"argv", "process"}
      [] step = "stdOutFile" -> {"argv", "stdInFile", "process"}
      [] step = "stdErrFile" -> {"argv", "stdInFile", "stdOutFile", "process"}
      [] step = "stdInPipe" -> {"argv", "process"} \cup PipeFiles
      [] step = "stdOutPipe" -> {"argv", "process", "stdInPipe"} \cup PipeFiles
      [] step = "stdErrPipe" -> {"argv", "process", "stdInPipe", "stdOutPipe"} \cup PipeFiles
      [] step = "fork" -> {"argv", "process", "stdInPipe", "stdOutPipe", "stdErrPipe"}
                          \cup PipeFiles

Pipe2Steps == <<"argv", "access", "stdInFile", "stdOutFile", "stdInPipe", "stdOutPipe", "fork">>

Pipe2GivesUp(step) ==
    CASE step = "argv" -> {}
      [] step \in {"access", "stdInFile"} -> {"argv"}
      [] step = "stdOutFile" -> {"argv", "stdInFile"}
      [] step = "stdInPipe" -> {"argv", "stdInFile", "stdOutFile"}
      [] step = "stdOutPipe" -> {"argv", "stdInFile", "stdOutFile", "stdInPipe"}
      [] step = "fork" -> {"argv", "stdInFile", "stdOutFile", "stdInPipe", "stdOutPipe"}

PtySteps == <<"argv", "access", "stdInFile", "stdOutFile", "masterfd", "slavefd", "fork">>

\* When the master cannot be configured it is closed in the same branch.
PtyGivesUp(step) ==
    CASE step = "argv" -> {}
      [] step \in {"access", "stdInFile"} -> {"argv"}
      [] step = "stdOutFile" -> {"argv", "stdInFile"}
      [] step = "masterfd" -> {"argv", "stdInFile", "stdOutFile"}
      [] step = "slavefd" -> {"argv", "stdInFile", "stdOutFile", "masterfd"}
      [] step = "fork" -> {"argv", "stdInFile", "stdOutFile", "masterfd", "slavefd"}

\* pcsStart opens the null device for every file that is CLIB_NULL_FILE and
\* closes it in any case at its end; all three are opened before a test.
StartSteps == <<"nullDevices", "argv", "access", "process", "fork">>

StartGivesUp(step) ==
    {"nullDevices"} \cup
    CASE step \in {"nullDevices", "argv"} -> {}
      [] step \in {"access", "process"} -> {"argv"}
      [] step = "fork" -> {"argv", "process"}

\* What is not given up when one of the steps fails.
Forgotten(steps, GivesUp(_)) ==
    {({steps[i] : i \in 1 .. k - 1} \ {"access"}) \ GivesUp(steps[k]) : k \in DOMAIN steps}

StartForgets == Forgotten(StartSteps, StartGivesUp)
StartPipeForgets == Forgotten(StartPipeSteps, StartPipeGivesUp)
Pipe2Forgets == Forgotten(Pipe2Steps, Pipe2GivesUp)
PtyForgets == Forgotten(PtySteps, PtyGivesUp)

StartFails(forgets) ==
    /\ \E forgotten \in forgets : leaked' = leaked \cup forgotten
    /\ UNCHANGED <<mem, child, others, processVariable, fileVariable>>

\* Which free memory and which free process id is used makes no difference.
AnyOneOf(set) == CHOOSE x \in set : TRUE
UnusedProc == {p \in Proc : mem.process[p].usage = 0}
UnusedFile == {f \in File : mem.file[f].usage = 0}

\* The result of the call is assigned to v.
ChildStarted(v, p, m) ==
    /\ mem' = pcsDestr([m EXCEPT !.process[p].usage = 1,
                                 !.process[p].pid = AnyOneOf(FreePid)],
                       processVariable[v])
    /\ child' = [q \in Proc |-> IF q = p THEN [state |-> "running", exit |-> 0]
                                ELSE IF mem'.process[q].usage = 0 THEN NoChild ELSE child[q]]
    /\ others' = others \cup {mem.process[q].pid :
                                 q \in {r \in Abandoned(mem') : r # p}}
    /\ processVariable' = [processVariable EXCEPT ![v] = p]
    /\ UNCHANGED <<fileVariable, leaked>>

pcsStart(v) ==
    \/ UnusedProc # {} /\ FreePid # {} /\ ChildStarted(v, AnyOneOf(UnusedProc), mem)
    \/ StartFails(StartForgets)

WithFiles(m, p, used) ==
    [m EXCEPT !.process[p].file = [std \in Stream |-> IF std \in DOMAIN used
                                                      THEN used[std] ELSE NIL],
              !.file = [f \in File |-> IF \E std \in DOMAIN used : used[std] = f
                                       THEN [usage |-> 1, open |-> TRUE] ELSE @[f]]]

\* Injections from a set of streams to unused memory.  A file that os_fdopen
\* does not open is freed and its descriptor is closed.
FilesFor(streams) ==
    {used \in [streams -> UnusedFile] :
        \A s, t \in streams : used[s] = used[t] => s = t}

pcsStartPipe(v) ==
    \/ /\ UnusedProc # {} /\ FreePid # {}
       /\ \E opened \in SUBSET Stream :
             /\ FilesFor(opened) # {}
             /\ LET p == AnyOneOf(UnusedProc)
                IN  ChildStarted(v, p, WithFiles(mem, p, AnyOneOf(FilesFor(opened))))
    \/ StartFails(StartPipeForgets)

\* pcsPipe2 and pcsPty have no process record: nobody waits for the child.
NewFile(m, old, used, std) ==
    IF std \in DOMAIN used
    THEN filDestr([m EXCEPT !.file[used[std]] = [usage |-> 1, open |-> TRUE]], old)
    ELSE m

\* The program may use the same variable for both files.
ChildOf2Files(w, x, opened) ==
    /\ FilesFor(opened) # {}
    /\ FreePid # {} /\ others' = others \cup {AnyOneOf(FreePid)}
    /\ LET used == AnyOneOf(FilesFor(opened))
           first == IF "stdIn" \in opened THEN [fileVariable EXCEPT ![w] = used["stdIn"]]
                    ELSE fileVariable
       IN  /\ mem' = NewFile(NewFile(mem, fileVariable[w], used, "stdIn"),
                             first[x], used, "stdOut")
           /\ fileVariable' = IF "stdOut" \in opened
                              THEN [first EXCEPT ![x] = used["stdOut"]] ELSE first
    /\ UNCHANGED <<child, processVariable, leaked>>

pcsPipe2(w, x) ==
    \/ \E opened \in SUBSET {"stdIn", "stdOut"} : ChildOf2Files(w, x, opened)
    \/ StartFails(Pipe2Forgets)

\* Without stdIn the descriptor of the master is gone, so there is no stdOut.
pcsPty(w, x) ==
    \/ \E opened \in {{}, {"stdIn"}, {"stdIn", "stdOut"}} : ChildOf2Files(w, x, opened)
    \/ StartFails(PtyForgets)

---------------------------------------------------------------------------
(* Waiting and killing.                                                     *)

Reap(p) ==
    /\ child' = [child EXCEPT ![p].state = "reaped"]
    /\ mem' = [mem EXCEPT !.process[p].isTerminated = TRUE,
                          !.process[p].exitValue = child[p].exit]
    /\ UNCHANGED <<others, processVariable, fileVariable, leaked>>

Waitable(v) == processVariable[v] # NIL /\ ~mem.process[processVariable[v]].isTerminated

\* A WNOHANG waitpid of a child that runs changes nothing.
pcsIsAlive(v) ==
    LET p == processVariable[v]
    IN  Waitable(v) /\ child[p].state = "zombie" /\ Reap(p)

\* Mutant: isTerminated is not set.
WaitedWithoutMark(v) ==
    LET p == processVariable[v]
    IN  /\ Waitable(v) /\ child[p].state = "zombie"
        /\ child' = [child EXCEPT ![p].state = "reaped"]
        /\ mem' = [mem EXCEPT !.process[p].exitValue = child[p].exit]
        /\ UNCHANGED <<others, processVariable, fileVariable, leaked>>
    
\* pcsWaitFor waits until the child has ended.
pcsWaitFor(v) ==
    LET p == processVariable[v]
    IN  Waitable(v) /\ child[p].state = "zombie" /\ Reap(p)

\* kill sends the signal to the process that has the id now.  A process that
\* was killed has the exit value 0; a zombie is not changed by a signal.
pcsKill(v) ==
    LET p == processVariable[v]
        pid == mem.process[p].pid
        Reached == {q \in Proc : Lives(q) /\ mem.process[q].pid = pid}
    IN  /\ p # NIL
        /\ child' = [q \in Proc |-> IF q \in Reached THEN [child[q] EXCEPT !.state = "zombie"]
                                     ELSE child[q]]
        /\ others' = others \ {pid}
        /\ UNCHANGED <<mem, processVariable, fileVariable, leaked>>

ProcessNext ==
    \/ \E p \in Proc : ChildEnds(p)
    \/ OtherStarts
    \/ \E v \in ProcessVariable :
          \/ pcsStart(v) \/ pcsStartPipe(v)
          \/ pcsIsAlive(v) \/ pcsWaitFor(v) \/ pcsKill(v)
          \/ ProcessVariableEnds(v)
          \/ \E u \in ProcessVariable : pcsCpy(v, u)
          \/ \E std \in Stream, w \in FileVariable : pcsChildFile(v, std, w)
    \/ \E w \in FileVariable :
          \/ filClose(w) \/ FileVariableEnds(w)
          \/ \E x \in FileVariable : pcsPipe2(w, x) \/ pcsPty(w, x)

ProcessSpec == ProcessInit /\ [][ProcessNext]_processVars

---------------------------------------------------------------------------
(* Properties.                                                              *)

(* A process record lives as long as a variable has it, the record of a     *)
(* pipe's file as long as a variable or a process record has it, and no     *)
(* descriptor stays open without them: pcsFree closes files that the        *)
(* program may still have or may have closed itself.                        *)
ProcessesCounted ==
    /\ \A p \in Proc : mem.process[p].usage =
                          Cardinality({v \in ProcessVariable : processVariable[v] = p})
    /\ \A f \in File :
          /\ mem.file[f].usage = Cardinality({w \in FileVariable : fileVariable[w] = f})
                + Cardinality({use \in Proc \X Stream : mem.process[use[1]].file[use[2]] = f})
          /\ mem.file[f].open => mem.file[f].usage > 0

(* pcsIsAlive and pcsWaitFor wait for a process id only while it is the id  *)
(* of their own child, since waitpid gives the id back to the system, and   *)
(* the exit value that they leave is the one of this child.                 *)
WaitsForOwnChild ==
    \A p \in Proc : mem.process[p].usage > 0 =>
       IF mem.process[p].isTerminated
       THEN child[p].state = "reaped" /\ mem.process[p].exitValue = child[p].exit
       ELSE Lives(p) /\ mem.process[p].pid \notin others

(* A call that does not start a process has given up all memory and all     *)
(* descriptors that it acquired, whichever of its steps failed.             *)
NothingLeaked == leaked = {}
=============================================================================

------------------------------ MODULE MoveFile ------------------------------
(* Moving, cloning and removing of directory trees (cmd_rtl.c).  A move to  *)
(* another file system renames the tree to a temporary name, copies it to   *)
(* the destination and removes the original.  Every system call may fail,   *)
(* and the program may be killed between any two of them: what holds in     *)
(* every state holds for whoever looks at the disk afterwards.              *)
(* Errors of fread and readdir are taken for the end of the file or of the  *)
(* directory.                                                               *)
EXTENDS Integers, Sequences, FiniteSets

CONSTANTS Node,             \* the files and directories of the tree
          Root,
          Entries(_),       \* the entries of a directory of the tree
          Directory,        \* the nodes that are directories
          Failing           \* the system calls that can fail

\* The nodes are a tree: an entry is in one directory, and all are below the root.
ASSUME TreeAssumption ==
    /\ Root \in Directory /\ Directory \subseteq Node
    /\ \A d \in Directory : Entries(d) \subseteq Node \ {Root}
    /\ \A d1, d2 \in Directory : d1 # d2 => Entries(d1) \cap Entries(d2) = {}
    /\ \A below \in SUBSET Node :
         Root \in below /\ (\A d \in below \cap Directory : Entries(d) \subseteq below)
           => below = Node

VARIABLES disk,             \* [Place -> [Node -> what is there]]
          frames,           \* calls of copy_dir and remove_dir, innermost last
          job,              \* the operation of the program and its phase
          err_info,         \* TRUE: not OKAY_NO_ERROR
          unread            \* history: what the last copy did not read, because of an error

moveVars == <<disk, frames, job, err_info, unread>>

Place == {"from", "temp", "to"}
Frame == [call : {"copy_dir", "remove_dir"}, place : Place, node : Node, left : SUBSET Node]
Phase == {"idle", "start", "copy", "remove", "open"}

Nothing == [n \in Node |-> "absent"]
Exists(place) == disk[place][Root] # "absent"
Whole(place) == \A n \in Node : disk[place][n] = "complete"

MoveTypeOK ==
    /\ disk \in [Place -> [Node -> {"absent", "partial", "complete"}]]
    /\ frames \in Seq(Frame)
    /\ job \in [op : {"none", "move", "clone", "removeTree"}, phase : Phase, file : Node]
    /\ err_info \in BOOLEAN
    /\ unread \subseteq Node

NoJob == [op |-> "none", phase |-> "idle", file |-> Root]

MoveInit ==
    /\ disk = [place \in Place |-> IF place = "from" THEN [n \in Node |-> "complete"]
                                   ELSE Nothing]
    /\ frames = <<>>
    /\ job = NoJob
    /\ err_info = FALSE
    /\ unread = {}

---------------------------------------------------------------------------
(* Removing.                                                                *)

May(call) == call \in Failing

\* A directory is opened; its entries are read one after the other.
Open(call, place, node, entries) ==
    Append(frames, [call |-> call, place |-> place, node |-> node, left |-> entries])

EntriesAt(place, node) == {e \in Entries(node) : disk[place][e] # "absent"}

Innermost == frames[Len(frames)]
InCall(call) == frames # <<>> /\ Innermost.call = call
Popped == SubSeq(frames, 1, Len(frames) - 1)
WithoutEntry(e) == [frames EXCEPT ![Len(frames)].left = @ \ {e}]

\* remove_any_file for an entry: a directory is removed by another remove_dir.
RemoveEntry(e) ==
    LET place == Innermost.place
    IN  /\ InCall("remove_dir") /\ ~err_info /\ e \in Innermost.left
        /\ \/ /\ e \in Directory
              /\ frames' = Append(WithoutEntry(e),
                                  [call |-> "remove_dir", place |-> place, node |-> e,
                                   left |-> EntriesAt(place, e)])
              /\ UNCHANGED <<disk, err_info>>
           \/ /\ e \notin Directory
              /\ disk' = [disk EXCEPT ![place][e] = "absent"]
              /\ frames' = WithoutEntry(e)
              /\ UNCHANGED err_info
           \/ /\ May("remove")
              /\ err_info' = TRUE
              /\ frames' = WithoutEntry(e)
              /\ UNCHANGED disk
        /\ UNCHANGED <<job, unread>>

\* Mutant: the result of rmdir is ignored.
RmdirWithoutCheck ==
    /\ InCall("remove_dir") /\ (err_info \/ Innermost.left = {})
    /\ frames' = Popped
    /\ \/ ~err_info /\ disk' = [disk EXCEPT ![Innermost.place][Innermost.node] = "absent"]
       \/ err_info /\ UNCHANGED disk
       \/ ~err_info /\ May("rmdir") /\ UNCHANGED disk
    /\ UNCHANGED <<job, err_info, unread>>

\* With an error the rest of the entries and the directory are left alone.  When readdir
\* fails, the directory is not empty yet and rmdir fails.
RemoveDirEnds ==
    /\ InCall("remove_dir")
    /\ frames' = Popped
    /\ \/ /\ ~err_info /\ Innermost.left = {}
          /\ disk' = [disk EXCEPT ![Innermost.place][Innermost.node] = "absent"]
          /\ UNCHANGED err_info
       \/ err_info /\ UNCHANGED <<disk, err_info>>
       \/ /\ ~err_info /\ May(IF Innermost.left = {} THEN "rmdir" ELSE "readdir")
          /\ err_info' = TRUE
          /\ UNCHANGED disk
    /\ UNCHANGED <<job, unread>>

---------------------------------------------------------------------------
(* Copying.  The source is the tree at its temporary name in a move.        *)

Source == IF job.op = "move" THEN "temp" ELSE "from"

\* copy_any_file: mkdir for a directory, fopen for a file.
CopyAnyFile(n, before, phase) ==
    \/ /\ n \in Directory
       /\ disk' = [disk EXCEPT !["to"][n] = "complete"]
       /\ frames' = Append(before, [call |-> "copy_dir", place |-> "to", node |-> n,
                                    left |-> EntriesAt(Source, n)])
       /\ job' = [job EXCEPT !.phase = phase]
       /\ UNCHANGED err_info
    \/ /\ n \notin Directory
       /\ disk' = [disk EXCEPT !["to"][n] = "partial"]
       /\ frames' = before
       /\ job' = [job EXCEPT !.phase = "open", !.file = n]
       /\ UNCHANGED err_info
    \/ /\ May("open")
       /\ err_info' = TRUE
       /\ frames' = before
       /\ job' = [job EXCEPT !.phase = phase]
       /\ UNCHANGED disk

CopyEntry(e) ==
    /\ job.phase = "copy" /\ InCall("copy_dir") /\ ~err_info /\ e \in Innermost.left
    /\ CopyAnyFile(e, WithoutEntry(e), "copy")
    /\ UNCHANGED unread

\* What the entries lead to.
Below(entries) ==
    {n \in Node : \A below \in SUBSET Node :
        entries \subseteq below /\ (\A d \in below \cap Directory : Entries(d) \subseteq below)
          => n \in below}

\* copy_file writes the contents; on an error it removes the destination.  But when fread
\* fails, it returns 0 as at the end of the file.
CopyFile ==
    /\ job.phase = "open"
    /\ job' = [job EXCEPT !.phase = "copy", !.file = Root]
    /\ \/ /\ disk' = [disk EXCEPT !["to"][job.file] = "complete"]
          /\ UNCHANGED <<err_info, unread>>
       \/ /\ May("read")
          /\ unread' = unread \cup {job.file}
          /\ UNCHANGED <<disk, err_info>>
       \/ /\ May("write")
          /\ disk' = [disk EXCEPT !["to"][job.file] = "absent"]
          /\ err_info' = TRUE
          /\ UNCHANGED unread
       \/ /\ May("write") /\ May("remove")
          /\ err_info' = TRUE
          /\ UNCHANGED <<disk, unread>>
    /\ UNCHANGED frames

\* On an error copy_dir calls remove_dir, with the error.  But when readdir fails, it
\* returns NULL as after the last entry.
CopyDirEnds ==
    /\ job.phase = "copy" /\ InCall("copy_dir")
    /\ err_info \/ Innermost.left = {} \/ May("readdir")
    /\ unread' = IF err_info THEN unread ELSE unread \cup Below(Innermost.left)
    /\ frames' = IF err_info
                 THEN Append(Popped, [call |-> "remove_dir", place |-> "to",
                                      node |-> Innermost.node, left |-> EntriesAt("to", Innermost.node)])
                 ELSE Popped
    /\ UNCHANGED <<disk, job, err_info>>

---------------------------------------------------------------------------
(* The operations of the program.                                           *)

Rename(old, new) == [disk EXCEPT ![new] = disk[old], ![old] = Nothing]

\* The destination may be on the same file system or on another one (EXDEV).  The
\* error of the last operation is seen by the program until the next one.
cmdMove ==
    /\ job.phase = "idle"
    /\ frames' = frames
    /\ \/ /\ Exists("to") \/ ~Exists("from") \/ May("rename")
          /\ err_info' = TRUE
          /\ job' = [job EXCEPT !.op = "move"]
          /\ UNCHANGED <<disk, unread>>
       \/ /\ ~Exists("to") /\ Exists("from")
          /\ disk' = Rename("from", "to")
          /\ err_info' = FALSE /\ unread' = {}
          /\ job' = [job EXCEPT !.op = "move"]
       \/ /\ ~Exists("to") /\ Exists("from")
          /\ disk' = Rename("from", "temp")
          /\ err_info' = FALSE /\ unread' = {}
          /\ job' = [job EXCEPT !.op = "move", !.phase = "start"]

\* copy_any_file for the root, called by move_with_copy and cmdCloneFile.
CopyRenamed ==
    /\ job.phase = "start"
    /\ CopyAnyFile(Root, <<>>, "copy")
    /\ UNCHANGED unread

\* Mutant: the original is removed also after an error.
RemoveInAnyCase ==
    /\ job.op = "move" /\ job.phase = "copy" /\ frames = <<>>
    /\ job' = [job EXCEPT !.phase = "remove"]
    /\ frames' = Open("remove_dir", "temp", Root, EntriesAt("temp", Root))
    /\ err_info' = FALSE
    /\ UNCHANGED <<disk, unread>>

\* No error was seen: the original is removed; otherwise it is renamed back.
CopyReturns ==
    /\ job.op = "move" /\ job.phase = "copy" /\ frames = <<>>
    /\ \/ /\ ~err_info
          /\ job' = [job EXCEPT !.phase = "remove"]
          /\ frames' = Open("remove_dir", "temp", Root, EntriesAt("temp", Root))
          /\ UNCHANGED <<disk, err_info>>
       \/ /\ err_info
          /\ job' = [job EXCEPT !.phase = "idle"]
          /\ disk' = Rename("temp", "from")
          /\ UNCHANGED <<frames, err_info>>
       \/ /\ err_info /\ May("rename")
          /\ job' = [job EXCEPT !.phase = "idle"]
          /\ UNCHANGED <<disk, frames, err_info>>
    /\ UNCHANGED unread

cmdCloneFile ==
    /\ job.phase = "idle"
    /\ \/ /\ Exists("from") /\ ~Exists("to")
          /\ err_info' = FALSE /\ unread' = {}
          /\ job' = [job EXCEPT !.op = "clone", !.phase = "start"]
       \/ /\ Exists("to") \/ ~Exists("from")
          /\ err_info' = TRUE
          /\ job' = [job EXCEPT !.op = "clone"]
          /\ UNCHANGED unread
    /\ UNCHANGED <<disk, frames>>

CloneReturns ==
    /\ job.op = "clone" /\ job.phase = "copy" /\ frames = <<>>
    /\ job' = [job EXCEPT !.phase = "idle"]
    /\ UNCHANGED <<disk, frames, err_info, unread>>

\* A careful program removes the remains at the destination before it tries
\* again.
cmdRemoveTree ==
    /\ job.phase = "idle" /\ Exists("to") /\ Whole("from")
    /\ job' = [job EXCEPT !.op = "removeTree", !.phase = "remove"]
    /\ frames' = Open("remove_dir", "to", Root, EntriesAt("to", Root))
    /\ err_info' = FALSE
    /\ UNCHANGED <<disk, unread>>

RemoveReturns ==
    /\ job.phase = "remove" /\ frames = <<>>
    /\ job' = [job EXCEPT !.phase = "idle"]
    /\ UNCHANGED <<disk, frames, err_info, unread>>

MoveNext ==
    \/ cmdMove \/ CopyRenamed \/ CopyReturns
    \/ cmdCloneFile \/ CloneReturns
    \/ cmdRemoveTree \/ RemoveReturns
    \/ CopyFile \/ CopyDirEnds \/ RemoveDirEnds
    \/ \E e \in Node : CopyEntry(e) \/ RemoveEntry(e)

MoveSpec == MoveInit /\ [][MoveNext]_moveVars

---------------------------------------------------------------------------
(* Properties.                                                              *)

AllRead(place) == \A n \in Node \ unread : disk[place][n] = "complete"

(* Whatever fails and whenever the program is killed, the whole tree is on  *)
(* the disk under one name, except for what the last copy could not read:   *)
(* the original is removed only when everything that was read has been      *)
(* copied, and a tree that was removed in part is at the other place.  What *)
(* could not be read is lost with the original (ErrorsRaised).              *)
WholeSomewhere == \E place \in Place : AllRead(place)

(* A move that returns without an error has moved everything that was read  *)
(* and left nothing behind; a move that returns with an error has not moved *)
(* anything, except when the original could not be removed or renamed back. *)
MoveTellsTruth ==
    job.op = "move" /\ job.phase = "idle" =>
       IF ~err_info THEN AllRead("to") /\ disk["from"] = Nothing /\ disk["temp"] = Nothing
       ELSE Whole("from") \/ AllRead("to") \/ (Whole("temp") /\ May("rename"))

(* FILE_ERROR is raised if "a system function returns an error" (4303): a   *)
(* copy that could not read everything does not end without an error.       *)
ErrorsRaised ==
    [][job.phase = "copy" /\ job'.phase \in {"idle", "remove"} /\ unread # {} => err_info']_moveVars

(* "If 'cloneFile' fails (no space on device or other reason) all remains   *)
(* of the failed clone are removed" (cmd_rtl.c:4294).                       *)
RemainsRemoved ==
    [][job.phase = "copy" /\ job'.phase = "idle" /\ err_info' => disk'["to"] = Nothing]_moveVars
=============================================================================

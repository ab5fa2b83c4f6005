------------------------------- MODULE Publish -------------------------------
(***************************************************************************)
(* How a finished capture becomes a file: the save half of finishImpl in   *)
(* embedded_capture.cpp, with partialPath and atomicPublish.  Several      *)
(* captures, of one process after another or of several processes, may be  *)
(* saved to the same directory, even to the same output path, while other  *)
(* programs create files there.  Every call into the file system is one    *)
(* action, a process may die between any two, and every call may fail.     *)
(*                                                                         *)
(* A capture stands for the content its Worker writes.  Its partial file   *)
(* is its own: partialPath takes a 32-bit random suffix that no file has,  *)
(* and two savers are assumed not to draw the same one.                    *)
(***************************************************************************)
EXTENDS Integers

CONSTANTS
  Captures,       \* the captures that get saved
  Outputs,        \* the output paths
  Platforms,      \* those the saving processes were built for: on "windows"
                  \* MoveFileExW publishes, on "posix" a hard link does
  UnlinkMayFail   \* whether remove(partial) may fail after the link was made

ASSUME PlatformAssumption == Platforms \subseteq {"posix", "windows"} /\ UnlinkMayFail \in BOOLEAN

\* What a directory entry of an output path names when no capture does.
Absent  == "absent"
Foreign == "foreign"
ASSUME NamesAssumption == Absent \notin Captures /\ Foreign \notin Captures

VARIABLES
  files,    \* the entry of each output path
  partial,  \* captures whose partial file has a directory entry
  content,  \* what the file of a capture holds
  stage,    \* the step of finishImpl that comes next for a capture
  output,   \* value.output for a capture
  status,   \* what finishImpl returned
  opens, writes, publishes   \* writerOpenCount, workerWriteCount, publishCount

counts == <<opens, writes, publishes>>
vars == <<files, partial, content, stage, output, status, counts>>

\* "torn": its Write has not returned, because it is under way, threw, or the
\* process died in it; "short": its Write returned with some of it missing.
Contents == {"none", "empty", "torn", "short", "complete"}

\* What a Write that returned leaves in a file that is not empty.
Returned == {"short", "complete"}
Stages == {"capturing", "exists", "parent", "name", "open", "write", "inspect",
           "link", "unlink", "count", "cleanup", "returned", "crashed"}
Statuses == {"none", "OK", "OUTPUT_EXISTS", "IO_ERROR"}

Init ==
  /\ files = [o \in Outputs |-> Absent]
  /\ partial = {}
  /\ content = [c \in Captures |-> "none"]
  /\ stage = [c \in Captures |-> "capturing"]
  /\ output \in [Captures -> Outputs]
  /\ status = [c \in Captures |-> "none"]
  /\ opens = [c \in Captures |-> 0]
  /\ writes = [c \in Captures |-> 0]
  /\ publishes = [c \in Captures |-> 0]

At(c, s) == stage[c] = s
Goto(c, s) == stage' = [stage EXCEPT ![c] = s]

Return(c, s) ==
  /\ Goto(c, "returned")
  /\ status' = [status EXCEPT ![c] = s]

-----------------------------------------------------------------------------
(* The try block of finishImpl, call by call. *)

\* A bug: a save whose handlers run is started over.
MayBegin_Again(c) == stage[c] \in {"capturing", "cleanup"}

MayBegin(c) == At(c, "capturing")

\* A drained capture is to be saved.
BeginSave(c) ==
  /\ MayBegin(c)
  /\ Goto(c, "exists")
  /\ UNCHANGED <<files, partial, content, output, status, counts>>

CheckOutput(c) ==
  /\ At(c, "exists")
  /\ IF files[output[c]] # Absent
     THEN Return(c, "OUTPUT_EXISTS")
     ELSE Goto(c, "parent") /\ UNCHANGED status
  /\ UNCHANGED <<files, partial, content, output, counts>>

\* The parent directory is there, or it is not.
CheckParent(c) ==
  /\ At(c, "parent")
  /\ \/ Goto(c, "name") /\ UNCHANGED status
     \/ Return(c, "IO_ERROR")
  /\ UNCHANGED <<files, partial, content, output, counts>>

PartialPath(c) ==
  /\ At(c, "name")
  /\ Goto(c, "open")
  /\ opens' = [opens EXCEPT ![c] = @ + 1]
  /\ UNCHANGED <<files, partial, content, output, status, writes, publishes>>

OpenPartial(c) ==
  /\ At(c, "open")
  /\ partial' = partial \cup {c}
  /\ content' = [content EXCEPT ![c] = "empty"]
  /\ writes' = [writes EXCEPT ![c] = @ + 1]
  /\ Goto(c, "write")
  /\ UNCHANGED <<files, output, status, opens, publishes>>

\* Worker::Write, an external call, puts its first bytes into the file.
WriteBegins(c) ==
  /\ At(c, "write")
  /\ content[c] = "empty"
  /\ content' = [content EXCEPT ![c] = "torn"]
  /\ UNCHANGED <<files, partial, stage, output, status, counts>>

\* It returns normally, and the file is closed: with everything in it, with
\* something missing, as when the disk is full and Tracy's FileWrite says nothing,
\* or with nothing.
WriteReturns(c) ==
  /\ At(c, "write")
  /\ \/ content[c] = "torn" /\ \E k \in Returned : content' = [content EXCEPT ![c] = k]
     \/ content[c] = "empty" /\ UNCHANGED content
  /\ Goto(c, "inspect")
  /\ UNCHANGED <<files, partial, output, status, counts>>

\* A bug: an empty file is good enough.
LooksWritten_Exists(c) == content[c] # "none"

LooksWritten(c) == content[c] \notin {"none", "empty"}

InspectPartial(c) ==
  /\ At(c, "inspect")
  /\ Goto(c, IF LooksWritten(c) THEN "link" ELSE "cleanup")
  /\ UNCHANGED <<files, partial, content, output, status, counts>>

\* A bug: publication replaces what another program put there.
NameIsFree_Always(c) == TRUE

\* Both create_hard_link and MoveFileExW without MOVEFILE_REPLACE_EXISTING
\* refuse a name that is taken.
NameIsFree(c) == files[output[c]] = Absent

CreateHardLink(c) ==
  /\ "posix" \in Platforms
  /\ At(c, "link")
  /\ NameIsFree(c)
  /\ files' = [files EXCEPT ![output[c]] = c]
  /\ Goto(c, "unlink")
  /\ UNCHANGED <<partial, content, output, status, counts>>

RemovePartial(c) ==
  /\ At(c, "unlink")
  /\ partial' = partial \ {c}
  /\ Goto(c, "count")
  /\ UNCHANGED <<files, content, output, status, counts>>

MoveFile(c) ==
  /\ "windows" \in Platforms
  /\ At(c, "link")
  /\ NameIsFree(c)
  /\ files' = [files EXCEPT ![output[c]] = c]
  /\ partial' = partial \ {c}
  /\ Goto(c, "count")
  /\ UNCHANGED <<content, output, status, counts>>

CountPublish(c) ==
  /\ At(c, "count")
  /\ publishes' = [publishes EXCEPT ![c] = @ + 1]
  /\ Return(c, "OK")
  /\ UNCHANGED <<files, partial, content, output, opens, writes>>

-----------------------------------------------------------------------------
(* What goes wrong. *)

\* A bug: a failure to bookkeep what is published fails the save.
MayThrow_AfterPublish(c) ==
  stage[c] \in {"exists", "parent", "name", "open", "write", "inspect", "link", "unlink",
               "count"}

\* The calls of the try block that throw: exists, is_directory, current_path,
\* the 32 attempts of partialPath, Open, Write, file_size, create_hard_link,
\* MoveFileExW and, if UnlinkMayFail, remove.
MayThrow(c) ==
  \/ stage[c] \in {"exists", "parent", "name", "open", "write", "inspect", "link"}
  \/ At(c, "unlink") /\ UnlinkMayFail

Throw(c) ==
  /\ MayThrow(c)
  /\ Goto(c, "cleanup")
  /\ UNCHANGED <<files, partial, content, output, status, counts>>

CleanupRemoves(c) == partial \ {c}

\* The handlers: remove(partial, ignored) may fail and is not looked at.
CleanUp(c) ==
  /\ At(c, "cleanup")
  /\ \/ partial' = CleanupRemoves(c)
     \/ UnlinkMayFail /\ UNCHANGED partial
  /\ Return(c, "IO_ERROR")
  /\ UNCHANGED <<files, content, output, counts>>

\* The process dies.
Crash(c) ==
  /\ stage[c] \notin {"returned", "crashed"}
  /\ Goto(c, "crashed")
  /\ UNCHANGED <<files, partial, content, output, status, counts>>

\* Another program creates the file.
ForeignCreate(o) ==
  /\ files[o] = Absent
  /\ files' = [files EXCEPT ![o] = Foreign]
  /\ UNCHANGED <<partial, content, stage, output, status, counts>>

-----------------------------------------------------------------------------
Save(c) ==
  \/ BeginSave(c) \/ CheckOutput(c) \/ CheckParent(c) \/ PartialPath(c)
  \/ OpenPartial(c) \/ WriteBegins(c) \/ WriteReturns(c) \/ InspectPartial(c)
  \/ CreateHardLink(c) \/ RemovePartial(c) \/ MoveFile(c) \/ CountPublish(c)
  \/ Throw(c) \/ CleanUp(c) \/ Crash(c)

Next ==
  \/ \E c \in Captures : Save(c)
  \/ \E o \in Outputs : ForeignCreate(o)

Spec == Init /\ [][Next]_vars

-----------------------------------------------------------------------------
(* Properties *)

TypeOK ==
  /\ files \in [Outputs -> Captures \cup {Absent, Foreign}]
  /\ partial \subseteq Captures
  /\ content \in [Captures -> Contents]
  /\ stage \in [Captures -> Stages]
  /\ output \in [Captures -> Outputs]
  /\ status \in [Captures -> Statuses]
  /\ opens \in [Captures -> 0..1]
  /\ writes \in [Captures -> 0..1]
  /\ publishes \in [Captures -> 0..1]

\* Whatever is found under an output path, at any moment and after any crash, is a
\* capture that was meant to go there and whose Write returned and left something:
\* never an empty file, one still being written, or what a Write that threw or a
\* process that died left (finishImpl 223-235).  That nothing is missing in it is
\* not said: line 232 looks at the size only, and publishes a short file.
PublishedIsWritten ==
  \A o \in Outputs :
    files[o] \in Captures => content[files[o]] \in Returned /\ output[files[o]] = o

\* An output file that exists is never replaced, whoever made it and however it
\* got there between the check of line 203 and the publication (comment at
\* lines 115-116).
NeverReplaced == [][\A o \in Outputs : files[o] # Absent => files'[o] = files[o]]_vars

\* OK is only returned for a capture that is under its name, counted once, with
\* its partial file gone.
OkMeansPublished ==
  \A c \in Captures : status[c] = "OK" =>
    /\ files[output[c]] = c
    /\ c \notin partial
    /\ opens[c] = 1 /\ writes[c] = 1 /\ publishes[c] = 1

\* docs/architecture.md:109-113 "an existing/unwritable output, ... writer
\* failure, and rename failure are reported without publishing a final capture":
\* a save that returned an error left no output file of its own.
FailureLeavesNoOutput ==
  \A c \in Captures : status[c] \in {"OUTPUT_EXISTS", "IO_ERROR"} => files[output[c]] # c

\* A partial file left in the directory belongs to a save under way or to a
\* process that died: a save that returned took its own away.
NoStrayPartial ==
  \A c \in partial : stage[c] # "returned"

\* A save that failed, or came too late for its name, left nothing behind: no
\* output of its own and no partial file, in whichever of its calls it failed.
FailureIsClean == FailureLeavesNoOutput /\ NoStrayPartial
=============================================================================

---------------------------- MODULE PublishProofs ----------------------------
(***************************************************************************)
(* What a save guarantees for any number of captures and output paths:     *)
(* the invariants and the action property of Publish, from one inductive   *)
(* invariant that says how far the file system has followed each save.     *)
(***************************************************************************)
EXTENDS Publish, TLAPS

\* The stages in which a capture may be found under its output path.
LinkedStages ==
  {"unlink", "count", "returned", "crashed"}
    \cup (IF UnlinkMayFail THEN {"cleanup"} ELSE {})

\* The stages in which a partial file may be there.
PartialStages ==
  {"write", "inspect", "link", "unlink", "cleanup", "crashed"}
    \cup (IF UnlinkMayFail THEN {"returned"} ELSE {})

\* An output path only ever names a capture that was written and linked there.
EntriesAreLinked ==
  \A o \in Outputs : \A c \in Captures : files[o] = c =>
    /\ output[c] = o
    /\ content[c] \in Returned
    /\ stage[c] \in LinkedStages
    /\ ~UnlinkMayFail /\ stage[c] = "returned" => status[c] = "OK"

\* A partial file is only there while its save runs, or failed to clean up.
PartialsAreOpen == \A c \in partial : stage[c] \in PartialStages

\* The content follows the stage.
ContentFollows ==
  \A c \in Captures :
    /\ stage[c] = "write" => content[c] \in {"empty", "torn"}
    /\ stage[c] = "inspect" => content[c] \in {"empty"} \cup Returned
    /\ stage[c] = "link" => content[c] \in Returned
    /\ stage[c] \in {"unlink", "count"} => files[output[c]] = c

\* The three counters follow the stage.
CountersFollow ==
  \A c \in Captures :
    /\ stage[c] \in {"capturing", "exists", "parent", "name"} => opens[c] = 0
    /\ stage[c] \in {"open", "write", "inspect", "link", "unlink", "count"} => opens[c] = 1
    /\ stage[c] \in {"capturing", "exists", "parent", "name", "open"} => writes[c] = 0
    /\ stage[c] \in {"write", "inspect", "link", "unlink", "count"} => writes[c] = 1
    /\ stage[c] # "returned" => publishes[c] = 0

\* A status is known exactly when the save has returned, and OK means published.
StatusFollows ==
  \A c \in Captures :
    /\ status[c] # "none" <=> stage[c] = "returned"
    /\ status[c] = "OK" =>
         /\ files[output[c]] = c
         /\ c \notin partial
         /\ opens[c] = 1 /\ writes[c] = 1 /\ publishes[c] = 1

IInv ==
  /\ TypeOK
  /\ EntriesAreLinked
  /\ PartialsAreOpen
  /\ ContentFollows
  /\ CountersFollow
  /\ StatusFollows

\* Every program starts with nothing saved.
LEMMA InitIInv == Init => IInv
<1> SUFFICES ASSUME Init PROVE IInv
  OBVIOUS
<1>1. TypeOK
  BY DEF Init, TypeOK, Contents, Stages, Statuses
<1>2. EntriesAreLinked
  BY NamesAssumption DEF Init, EntriesAreLinked
<1>3. PartialsAreOpen
  BY DEF Init, PartialsAreOpen
<1>4. ContentFollows /\ CountersFollow /\ StatusFollows
  BY DEF Init, ContentFollows, CountersFollow, StatusFollows
<1>5. QED
  BY <1>1, <1>2, <1>3, <1>4 DEF IInv

\* A step of a save keeps the invariant.
LEMMA SaveIInv ==
  ASSUME IInv, NEW c \in Captures, Save(c)
  PROVE  IInv'
<1> USE DEF IInv, At, Goto, Return, counts
<1>1. TypeOK'
  <2> USE DEF TypeOK, Contents, Returned, Stages, Statuses, CountersFollow
  <2>1. CASE BeginSave(c) \/ CheckOutput(c) \/ CheckParent(c) \/ PartialPath(c)
    BY <2>1 DEF BeginSave, MayBegin, CheckOutput, CheckParent, PartialPath
  <2>2. CASE OpenPartial(c) \/ WriteBegins(c) \/ WriteReturns(c) \/ InspectPartial(c) \/ CountPublish(c)
    BY <2>2 DEF OpenPartial, WriteBegins, WriteReturns, InspectPartial, CountPublish
  <2>3. CASE CreateHardLink(c) \/ RemovePartial(c) \/ MoveFile(c)
    BY <2>3 DEF CreateHardLink, RemovePartial, MoveFile
  <2>4. CASE Throw(c) \/ CleanUp(c) \/ Crash(c)
    BY <2>4 DEF Throw, CleanUp, CleanupRemoves, Crash
  <2>5. QED
    BY <2>1, <2>2, <2>3, <2>4 DEF Save
<1> USE PlatformAssumption, NamesAssumption DEF TypeOK
<1>2. EntriesAreLinked'
  <2> USE DEF EntriesAreLinked, ContentFollows, LinkedStages, Returned
  <2>1. CASE BeginSave(c) \/ CheckOutput(c) \/ CheckParent(c) \/ PartialPath(c)
    BY <2>1 DEF BeginSave, MayBegin, CheckOutput, CheckParent, PartialPath
  <2>2. CASE OpenPartial(c) \/ WriteBegins(c) \/ WriteReturns(c) \/ InspectPartial(c) \/ CountPublish(c)
    BY <2>2 DEF OpenPartial, WriteBegins, WriteReturns, InspectPartial, LooksWritten, CountPublish
  <2>3. CASE CreateHardLink(c) \/ RemovePartial(c) \/ MoveFile(c)
    BY <2>3 DEF CreateHardLink, RemovePartial, MoveFile, NameIsFree
  <2>4. CASE Throw(c) \/ CleanUp(c) \/ Crash(c)
    BY <2>4 DEF Throw, MayThrow, CleanUp, CleanupRemoves, Crash
  <2>5. QED
    BY <2>1, <2>2, <2>3, <2>4 DEF Save
<1>3. PartialsAreOpen'
  <2> USE DEF PartialsAreOpen, PartialStages
  <2>1. CASE BeginSave(c) \/ CheckOutput(c) \/ CheckParent(c) \/ PartialPath(c)
    BY <2>1 DEF BeginSave, MayBegin, CheckOutput, CheckParent, PartialPath
  <2>2. CASE OpenPartial(c) \/ WriteBegins(c) \/ WriteReturns(c) \/ InspectPartial(c) \/ CountPublish(c)
    BY <2>2 DEF OpenPartial, WriteBegins, WriteReturns, InspectPartial, CountPublish
  <2>3. CASE CreateHardLink(c) \/ RemovePartial(c) \/ MoveFile(c)
    BY <2>3 DEF CreateHardLink, RemovePartial, MoveFile
  <2>4. CASE Throw(c) \/ CleanUp(c) \/ Crash(c)
    BY <2>4 DEF Throw, MayThrow, CleanUp, CleanupRemoves, Crash
  <2>5. QED
    BY <2>1, <2>2, <2>3, <2>4 DEF Save
<1>4. ContentFollows'
  <2> USE DEF ContentFollows, Contents, Returned
  <2>1. CASE BeginSave(c) \/ CheckOutput(c) \/ CheckParent(c) \/ PartialPath(c)
    BY <2>1 DEF BeginSave, MayBegin, CheckOutput, CheckParent, PartialPath
  <2>2. CASE OpenPartial(c) \/ WriteBegins(c) \/ WriteReturns(c) \/ InspectPartial(c) \/ CountPublish(c)
    BY <2>2 DEF OpenPartial, WriteBegins, WriteReturns, InspectPartial, LooksWritten, CountPublish
  <2>3. CASE CreateHardLink(c) \/ RemovePartial(c) \/ MoveFile(c)
    BY <2>3 DEF CreateHardLink, RemovePartial, MoveFile, NameIsFree
  <2>4. CASE Throw(c) \/ CleanUp(c) \/ Crash(c)
    BY <2>4 DEF Throw, MayThrow, CleanUp, Crash
  <2>5. QED
    BY <2>1, <2>2, <2>3, <2>4 DEF Save
<1>5. CountersFollow'
  <2> USE DEF CountersFollow
  <2>1. CASE BeginSave(c) \/ CheckOutput(c) \/ CheckParent(c) \/ PartialPath(c)
    BY <2>1 DEF BeginSave, MayBegin, CheckOutput, CheckParent, PartialPath
  <2>2. CASE OpenPartial(c) \/ WriteBegins(c) \/ WriteReturns(c) \/ InspectPartial(c) \/ CountPublish(c)
    BY <2>2 DEF OpenPartial, WriteBegins, WriteReturns, InspectPartial, CountPublish
  <2>3. CASE CreateHardLink(c) \/ RemovePartial(c) \/ MoveFile(c)
    BY <2>3 DEF CreateHardLink, RemovePartial, MoveFile
  <2>4. CASE Throw(c) \/ CleanUp(c) \/ Crash(c)
    BY <2>4 DEF Throw, MayThrow, CleanUp, Crash
  <2>5. QED
    BY <2>1, <2>2, <2>3, <2>4 DEF Save
<1>6. StatusFollows'
  <2> USE DEF StatusFollows, ContentFollows, CountersFollow, PartialsAreOpen
  <2>1. CASE BeginSave(c) \/ CheckOutput(c) \/ CheckParent(c) \/ PartialPath(c)
    BY <2>1 DEF BeginSave, MayBegin, CheckOutput, CheckParent, PartialPath
  <2>2. CASE OpenPartial(c) \/ WriteBegins(c) \/ WriteReturns(c) \/ InspectPartial(c)
    BY <2>2 DEF OpenPartial, WriteBegins, WriteReturns, InspectPartial
  <2>3. CASE CountPublish(c)
    BY <2>3 DEF CountPublish, PartialStages
  <2>4. CASE CreateHardLink(c) \/ RemovePartial(c) \/ MoveFile(c)
    BY <2>4 DEF CreateHardLink, RemovePartial, MoveFile, NameIsFree
  <2>5. CASE Throw(c) \/ CleanUp(c) \/ Crash(c)
    BY <2>5 DEF Throw, MayThrow, CleanUp, CleanupRemoves, Crash
  <2>6. QED
    BY <2>1, <2>2, <2>3, <2>4, <2>5 DEF Save
<1>7. QED
  BY <1>1, <1>2, <1>3, <1>4, <1>5, <1>6

\* Another program's file takes a free name only.
LEMMA ForeignIInv ==
  ASSUME IInv, NEW o \in Outputs, ForeignCreate(o)
  PROVE  IInv'
<1> USE NamesAssumption DEF IInv, ForeignCreate, TypeOK, counts
<1>1. TypeOK'
  OBVIOUS
<1>2. EntriesAreLinked' /\ PartialsAreOpen'
  BY DEF EntriesAreLinked, PartialsAreOpen
<1>3. ContentFollows' /\ CountersFollow'
  BY DEF ContentFollows, CountersFollow
<1>4. StatusFollows'
  BY DEF StatusFollows
<1>5. QED
  BY <1>1, <1>2, <1>3, <1>4

\* Where nothing changes, nothing is lost.
LEMMA StutterIInv ==
  ASSUME IInv, UNCHANGED vars
  PROVE  IInv'
BY DEF IInv, vars, counts, TypeOK, EntriesAreLinked, PartialsAreOpen,
       ContentFollows, CountersFollow, StatusFollows

\* The invariant is one of every behaviour.
THEOREM Inductive == Spec => []IInv
<1>1. IInv /\ [Next]_vars => IInv'
  BY SaveIInv, ForeignIInv, StutterIInv DEF Next
<1>2. QED
  BY InitIInv, <1>1, PTL DEF Spec

\* The types of Publish hold, the counters included: a capture is opened,
\* written and published at most once (finishImpl 216, 228, 238).
THEOREM TypeCorrect == Spec => []TypeOK
BY Inductive, PTL DEF IInv

\* What is found under an output path is a capture meant for it whose Write
\* returned and left something (finishImpl 223-235), whatever crashes, throws or
\* races: never a file that is empty or that its writer did not finish.
THEOREM OnlyWrittenCaptures == Spec => []PublishedIsWritten
<1>1. IInv => PublishedIsWritten
  BY DEF IInv, EntriesAreLinked, PublishedIsWritten
<1>2. QED
  BY Inductive, <1>1, PTL

\* OK means that the capture is under its name, counted once, and its partial
\* file gone (finishImpl 235-264).
THEOREM OkIsPublished == Spec => []OkMeansPublished
<1>1. IInv => OkMeansPublished
  BY DEF IInv, StatusFollows, OkMeansPublished
<1>2. QED
  BY Inductive, <1>1, PTL

\* Publication never replaces a file, on either platform (atomicPublish).
THEOREM NothingReplaced == Spec => NeverReplaced
<1>1. IInv /\ [Next]_vars =>
        [\A o \in Outputs : files[o] # Absent => files'[o] = files[o]]_vars
  <2> SUFFICES ASSUME IInv, Next, NEW o \in Outputs, files[o] # Absent
               PROVE  files'[o] = files[o]
    OBVIOUS
  <2>1. CASE \E p \in Outputs : ForeignCreate(p)
    BY <2>1 DEF ForeignCreate, IInv, TypeOK
  <2>2. ASSUME NEW c \in Captures, Save(c) PROVE files'[o] = files[o]
    <3>1. CASE CreateHardLink(c) \/ MoveFile(c)
      BY <3>1 DEF CreateHardLink, MoveFile, NameIsFree, IInv, TypeOK
    <3>2. CASE UNCHANGED files
      BY <3>2
    <3>3. QED
      BY <2>2, <3>1, <3>2 DEF Save, BeginSave, CheckOutput, CheckParent, PartialPath,
         OpenPartial, WriteBegins, WriteReturns, InspectPartial, RemovePartial, CountPublish,
         Throw, CleanUp, Crash
  <2>3. QED
    BY <2>1, <2>2 DEF Next
<1>2. QED
  BY Inductive, <1>1, PTL DEF Spec, NeverReplaced

\* A save that returned an error published nothing, and every save that returned
\* took its partial file away, provided that a partial file can be removed
\* (docs/architecture.md:109-113; the handlers 241-242, 246-247 and atomicPublish
\* 118).
THEOREM FailuresAreClean ==
  ASSUME ~UnlinkMayFail
  PROVE  Spec => []FailureIsClean
<1>1. IInv => FailureLeavesNoOutput
  BY DEF IInv, TypeOK, EntriesAreLinked, StatusFollows, FailureLeavesNoOutput
<1>2. IInv => NoStrayPartial
  BY DEF IInv, PartialsAreOpen, PartialStages, NoStrayPartial
<1>3. QED
  BY Inductive, <1>1, <1>2, PTL DEF FailureIsClean
=============================================================================

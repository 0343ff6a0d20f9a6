---------------------------- MODULE MovingProofs -----------------------------
(***************************************************************************)
(* What TLAPS proves of the work below the execution coordinator: the      *)
(* worker's system calls (SafeRename), the transfer between volumes        *)
(* (CrossVolumeTransfer), the session between coordinator and worker       *)
(* (ExecutorProtocol), the recovery journal (RecoveryJournal), and the     *)
(* properties that the run of MCMoving checks of them all.                 *)
(***************************************************************************)
EXTENDS MCMoving, TLAPS, FiniteSetTheorems, SequenceTheorems

-----------------------------------------------------------------------------
(* The system calls: what every step of the handler and of the other       *)
(* process keeps                                                           *)

\* The steps of a handler that follow its one call that changes the disk.
AfterRename ==
  {"postSource", "postDestination", "postIdentity", "checkSource", "reopen",
   "reprint"}
Acted == AfterRename \cup {"madeCheck", "removedCheck"}

StepsOf(o) ==
  CASE o = "rename" ->
         {"precheck", "fingerprint", "sourceParent", "destinationParent", "open",
          "verify", "hash", "recheck", "destination", "rename",
          "done"} \cup AfterRename
    [] o = "mkdir" -> {"precheck", "parent", "make", "madeCheck", "done"}
    [] OTHER -> {"precheck", "parent", "leaf", "empty", "remove", "removedCheck",
                 "done"}

\* The handler of an operation stays among its own steps, and an answer ends it.
Course ==
  /\ step \in StepsOf(op)
  /\ step = "done" <=> result # "none"

\* The disk is changed by the one call, and by nothing before it; "declined" is
\* not said after it.
Touching ==
  /\ step \in Acted => touched # {}
  /\ step \notin Acted \cup {"done"} => touched = {}
  /\ result = "declined" => touched = {}
  /\ platform = "windows" /\ op = "rename" => touched \subseteq {Approved}

SourceHeld ==
  {"destinationParent", "open", "verify", "hash", "recheck", "destination",
   "rename",
   "postSource", "postDestination", "postIdentity"}
DestinationHeld ==
  {"open", "verify", "hash", "recheck", "destination", "rename", "postSource",
   "postDestination", "postIdentity", "make", "madeCheck", "leaf", "empty",
   "remove",
   "removedCheck"}
FileHeld ==
  {"verify", "hash", "recheck", "destination", "rename", "postSource",
   "postDestination", "postIdentity", "reprint"}

\* What the handler holds: directories of the root, the object it opened, and
\* on Windows that object under its name.
Holding ==
  /\ held \in [sp : Dirs \cup {None}, dp : Dirs \cup {None},
               object : Files \cup Folders \cup {None}]
  /\ step \in SourceHeld => held.sp \in Inside
  /\ step \in DestinationHeld => held.dp \in Inside
  /\ step \in FileHeld => held.object \in Files
  /\ step \in {"empty", "remove"} => held.object \in Folders
  /\ platform = "windows" /\ step \in {"hash", "recheck", "rename"} =>
       held.object = Approved
  /\ /\ platform = "windows" /\ held.object = Approved
     /\ step \in {"verify", "hash", "recheck", "destination", "rename"}
     => entry[held.sp] = Approved
  /\ platform = "windows" /\ step \in {"empty", "remove"} =>
       entry[held.dp] = held.object

\* Only a link leads out of the root, and a folder has one name.
Homes ==
  /\ \A p \in Paths : p \notin linked => dirAt[p] \in Inside \cup {None}
  /\ \A d, e \in Dirs : entry[d] = entry[e] /\ entry[d] \in Folders => d = e
  /\ op = "mkdir" /\ touched = {} => \A d \in Dirs : entry[d] # Created

RenameInv == TypeOK /\ Course /\ Touching /\ Holding /\ Homes

Steps ==
  {"precheck", "fingerprint", "sourceParent", "destinationParent", "open", "verify",
   "hash", "recheck", "destination", "rename", "postSource", "postDestination",
   "postIdentity", "checkSource", "reopen", "reprint", "parent", "make",
   "madeCheck",
   "leaf", "empty", "remove", "removedCheck", "done"}

-----------------------------------------------------------------------------
(* The operators *)

\* An object has a link count above zero exactly when a directory names it.
LEMMA LinkCounts ==
  ASSUME NEW names, NEW f
  PROVE  LET named == Cardinality({d \in Dirs : names[d] = f})
         IN /\ named \in Nat
            /\ named = 0 <=> \A d \in Dirs : names[d] # f
  <1> DEFINE Under == {d \in Dirs : names[d] = f}
  <1>1. IsFiniteSet(Dirs)
    <2>1. IsFiniteSet({} \cup {SourceDir})
      BY FS_EmptySet, FS_AddElement
    <2>2. IsFiniteSet(({} \cup {SourceDir}) \cup {TargetDir})
      BY <2>1, FS_AddElement
    <2>3. IsFiniteSet((({} \cup {SourceDir}) \cup {TargetDir}) \cup {OtherDir})
      BY <2>2, FS_AddElement
    <2>4. IsFiniteSet(((({} \cup {SourceDir}) \cup {TargetDir}) \cup {OtherDir})
            \cup {Outside})
      BY <2>3, FS_AddElement
    <2>5. Dirs
            = ((({} \cup {SourceDir}) \cup {TargetDir}) \cup {OtherDir})
              \cup {Outside}
      BY DEF Dirs, Inside
    <2>6. QED BY <2>4, <2>5
  <1>2. IsFiniteSet(Under)
    BY <1>1, FS_Subset
  <1>3. Cardinality(Under) \in Nat /\ (Cardinality(Under) = 0 <=> Under = {})
    BY <1>2, FS_CardinalityType, FS_EmptySet
  <1>4. QED BY <1>3

LEMMA RenameFacts ==
  /\ SourceDir \in Inside /\ TargetDir \in Inside /\ Inside \subseteq Dirs
  /\ None \notin Inside /\ None \notin Files /\ None \notin Folders
  /\ Approved \in Files /\ Foreign \in Files /\ Created \in Folders
       /\ Stranger \in Folders
  /\ Approved \notin Folders /\ Foreign \notin Folders /\ Outside \notin Inside
  /\ Created \notin Files /\ Stranger \notin Files /\ Outside \in Dirs
  BY RenameAssumption DEF Files, Folders, Inside, Dirs

-----------------------------------------------------------------------------
(* The handler's control *)

\* A step that goes on without a system call that writes.
LEMMA Proceeds ==
  ASSUME RenameInv, result = "none", Still, NEW s \in Steps \ {"done"}, GoTo(s),
         s \in StepsOf(op), s \in Acted <=> step \in Acted, Holding'
  PROVE  RenameInv'
  <1> USE DEF RenameInv
  <1>1. TypeOK'
    BY DEF TypeOK, Still, disk, GoTo, Holding, Steps
  <1>2. Course'
    BY DEF Course, Still, GoTo, StepsOf, AfterRename
  <1>3. Touching'
    BY DEF Touching, Course, Still, GoTo, Acted
  <1>4. Homes'
    BY DEF Homes, Still, disk
  <1>5. QED BY <1>1, <1>2, <1>3, <1>4

\* An answer, which after the call that changed the disk is not "declined".
LEMMA Answers ==
  ASSUME RenameInv, result = "none", Still,
         NEW r \in {"applied", "declined", "recovery"}, Answer(r),
         r = "declined" => step \notin Acted
  PROVE  RenameInv'
  <1> USE DEF RenameInv
  <1>1. step # "done"
    BY DEF Course
  <1>2. TypeOK'
    BY DEF TypeOK, Still, disk, Answer, NothingHeld
  <1>3. Course'
    BY DEF Course, Still, Answer, StepsOf, AfterRename
  <1>4. Touching'
    BY <1>1 DEF Touching, Course, Still, Answer, Acted, AfterRename
  <1>5. Holding'
    BY DEF Holding, Still, disk, Answer, NothingHeld, SourceHeld, DestinationHeld,
           FileHeld
  <1>6. Homes'
    BY DEF Homes, Still, disk
  <1>7. QED BY <1>2, <1>3, <1>4, <1>5, <1>6

LEMMA Fails ==
  ASSUME RenameInv, result = "none", Still, NEW class, Fail(class),
         step \in Acted => class \in {"io", "ambiguous"}
  PROVE  RenameInv'
  <1>1. Outcome(class) \in {"declined", "recovery"} /\ Answer(Outcome(class))
    BY DEF Outcome, Fail
  <1>2. Outcome(class) = "declined" => step \notin Acted
    BY DEF Outcome
  <1>3. QED BY <1>1, <1>2, Answers

\* While the handler has a step to make there is no answer.
LEMMA Running ==
  ASSUME RenameInv, step # "done"
  PROVE  result = "none"
  BY DEF RenameInv, Course, TypeOK

LEMMA Retries == ASSUME RenameInv, Busy PROVE RenameInv'
  <1>1. step \notin Acted /\ step # "done" /\ result = "none" /\ op = "rename"
    BY Running, RenameAssumption
    DEF Busy, Acted, AfterRename, RenameInv, Course, StepsOf, TypeOK
  <1>2. CASE Fail("sharing")
    BY <1>1, <1>2, Fails DEF Busy
  <1>3. CASE /\ attempt < MaxAttempts /\ attempt' = attempt + 1
             /\ step' = "precheck" /\ held' = NothingHeld /\ UNCHANGED result
    <2>1. TypeOK'
      <3>1. attempt' \in 1..MaxAttempts
        BY <1>3, RenameAssumption DEF RenameInv, TypeOK
      <3>2. QED BY <1>3, <3>1 DEF RenameInv, TypeOK, Busy, Still, disk, NothingHeld
    <2>2. Course'
      BY <1>1, <1>3 DEF RenameInv, Course, Busy, Still, StepsOf
    <2>3. Touching'
      BY <1>1, <1>3 DEF RenameInv, Touching, Busy, Still, Acted, AfterRename
    <2>4. Holding'
      BY <1>3
      DEF RenameInv, Holding, NothingHeld, SourceHeld, DestinationHeld, FileHeld
    <2>5. Homes'
      BY DEF RenameInv, Homes, Busy, Still, disk
    <2>6. QED BY <2>1, <2>2, <2>3, <2>4, <2>5 DEF RenameInv
  <1>4. QED BY <1>2, <1>3 DEF Busy, Refused

LEMMA BreaksHold == ASSUME RenameInv, Breaks PROVE RenameInv'
  <1>1. result = "none"
    BY Running DEF Breaks
  <1>2. ASSUME step \in Acted
        PROVE  ~(step = "precheck" /\ op # "rename")
    BY <1>2 DEF Acted, AfterRename
  <1>3. QED
    BY <1>1, <1>2, Fails DEF Breaks

-----------------------------------------------------------------------------
(* The steps that look *)

\* What is kept when a step goes on with what it holds.
LEMMA HoldsOn ==
  ASSUME RenameInv, Still, UNCHANGED held, NEW s, step' = s,
         s \in SourceHeld => step \in SourceHeld,
         s \in DestinationHeld => step \in DestinationHeld,
         s \in FileHeld => step \in FileHeld,
         s \notin {"empty", "remove"},
         platform = "windows" /\ s \in {"hash", "recheck", "rename"} =>
           held.object = Approved,
         /\ platform = "windows" /\ held.object = Approved
         /\ s \in {"verify", "hash", "recheck", "destination", "rename"}
         => step \in {"verify", "hash", "recheck", "destination", "rename"}
  PROVE  Holding'
  BY DEF RenameInv, Holding, Still, disk

LEMMA PrecheckHolds == ASSUME RenameInv, Precheck PROVE RenameInv'
  <1>1. result = "none" /\ step \notin Acted
    BY Running DEF Precheck, Acted, AfterRename
  <1>2. CASE GoTo("fingerprint") /\ UNCHANGED held
    <2>1. Holding'
      BY <1>2, HoldsOn DEF Precheck, GoTo, SourceHeld, DestinationHeld, FileHeld
    <2>2. QED
      BY <1>1, <1>2, <2>1, Proceeds DEF Precheck, Steps, StepsOf, Acted, AfterRename
  <1>3. QED BY <1>1, <1>2, Fails DEF Precheck

LEMMA FingerprintHolds == ASSUME RenameInv, Fingerprint PROVE RenameInv'
  <1>1. result = "none" /\ step \notin Acted /\ op = "rename"
    BY Running, RenameAssumption
       DEF Fingerprint, Acted, AfterRename, RenameInv, Course, StepsOf, TypeOK
  <1>2. CASE GoTo("sourceParent") /\ UNCHANGED held
    <2>1. Holding'
      BY <1>2, HoldsOn DEF Fingerprint, GoTo, SourceHeld, DestinationHeld, FileHeld
    <2>2. QED
      BY <1>1, <1>2, <2>1, Proceeds
      DEF Fingerprint, Steps, StepsOf, Acted, AfterRename
  <1>3. QED BY <1>1, <1>2, Fails DEF Fingerprint

\* A directory that a path leads to without a link is of the root.
LEMMA ChainInside ==
  ASSUME RenameInv, NEW p \in Paths, OpenChain(p) = "ok"
  PROVE  dirAt[p] \in Inside
  BY RenameFacts DEF RenameInv, Homes, OpenChain, ChainClass

LEMMA SourceParentHolds == ASSUME RenameInv, SourceParent PROVE RenameInv'
  <1>1. result = "none" /\ step \notin Acted /\ op = "rename"
    BY Running, RenameAssumption
       DEF SourceParent, Acted, AfterRename, RenameInv, Course, StepsOf, TypeOK
  <1>2. CASE /\ OpenChain("src") = "ok"
             /\ held' = [held EXCEPT !.sp = dirAt["src"]]
                  /\ GoTo("destinationParent")
    <2>1. dirAt["src"] \in Inside
      BY <1>2, ChainInside DEF Paths
    <2>2. Holding'
      BY <1>2, <2>1, RenameFacts
         DEF RenameInv, Holding, SourceParent, Still, disk, GoTo, SourceHeld,
             DestinationHeld, FileHeld
    <2>3. QED
      BY <1>1, <1>2, <2>2, Proceeds
      DEF SourceParent, Steps, StepsOf, Acted, AfterRename
  <1>3. QED BY <1>1, <1>2, Fails DEF SourceParent

LEMMA DestinationParentHolds == ASSUME RenameInv, DestinationParent PROVE RenameInv'
  <1>1. result = "none" /\ step \notin Acted /\ op = "rename"
    BY Running, RenameAssumption
       DEF DestinationParent, Acted, AfterRename, RenameInv, Course, StepsOf, TypeOK
  <1>2. CASE /\ OpenChain("dst") = "ok"
             /\ held' = [held EXCEPT !.dp = dirAt["dst"]] /\ GoTo("open")
    <2>1. dirAt["dst"] \in Inside
      BY <1>2, ChainInside DEF Paths
    <2>2. Holding'
      BY <1>2, <2>1, RenameFacts
         DEF RenameInv, Holding, DestinationParent, Still, disk, GoTo, SourceHeld,
             DestinationHeld, FileHeld
    <2>3. QED
      BY <1>1, <1>2, <2>2, Proceeds
      DEF DestinationParent, Steps, StepsOf, Acted, AfterRename
  <1>3. QED BY <1>1, <1>2, Fails DEF DestinationParent

LEMMA OpenSourceHolds == ASSUME RenameInv, OpenSource PROVE RenameInv'
  <1>1. result = "none" /\ step \notin Acted /\ op = "rename" /\ held.sp \in Inside
    BY Running, RenameAssumption
       DEF OpenSource, Acted, AfterRename, RenameInv, Course, StepsOf, TypeOK,
           Holding, SourceHeld
  <1>2. CASE /\ entry[held.sp] \in Files
             /\ held' = [held EXCEPT !.object = entry[held.sp]]
             /\ GoTo(IF platform = "windows" THEN "destination" ELSE "verify")
    <2>1. Holding'
      BY <1>2, RenameFacts
         DEF RenameInv, Holding, OpenSource, Still, disk, GoTo, SourceHeld,
             DestinationHeld, FileHeld
    <2>2. QED
      BY <1>1, <1>2, <2>1, Proceeds
      DEF OpenSource, Steps, StepsOf, Acted, AfterRename
  <1>3. QED BY <1>1, <1>2, Fails DEF OpenSource

\* The verification leads on with the approved object in hand.
LEMMA VerifyHolds ==
  ASSUME RenameInv, NEW here \in {"verify", "recheck"}, NEW next, Verify(here,
         next),
         here = "verify" => next = "hash",
         here = "recheck" =>
           next = IF platform = "windows" THEN "rename" ELSE "destination"
  PROVE  RenameInv'
  <1>1. result = "none" /\ step \notin Acted /\ op = "rename"
    BY Running, RenameAssumption
       DEF Verify, Acted, AfterRename, RenameInv, Course, StepsOf, TypeOK
  <1>2. CASE IdentityHolds /\ GoTo(next) /\ UNCHANGED held
    <2>1. held.object = Approved
      BY <1>2 DEF IdentityHolds
    <2>2. next \in {"hash", "rename", "destination"}
      OBVIOUS
    <2>3. Holding'
      BY <1>2, <2>1, <2>2, HoldsOn
      DEF Verify, GoTo, SourceHeld, DestinationHeld, FileHeld
    <2>4. QED
      BY <1>1, <1>2, <2>2, <2>3, Proceeds
      DEF Verify, Steps, StepsOf, Acted, AfterRename
  <1>3. QED BY <1>1, <1>2, Fails DEF Verify

LEMMA HashHolds == ASSUME RenameInv, Hash PROVE RenameInv'
  <1>1. result = "none" /\ step \notin Acted /\ op = "rename"
    BY Running, RenameAssumption
       DEF Hash, Acted, AfterRename, RenameInv, Course, StepsOf, TypeOK
  <1>2. CASE GoTo("recheck") /\ UNCHANGED held
    <2>1. platform = "windows" => held.object = Approved
      BY DEF Hash, RenameInv, Holding
    <2>2. Holding'
      BY <1>2, <2>1, HoldsOn DEF Hash, GoTo, SourceHeld, DestinationHeld, FileHeld
    <2>3. QED
      BY <1>1, <1>2, <2>2, Proceeds DEF Hash, Steps, StepsOf, Acted, AfterRename
  <1>3. QED BY <1>1, <1>2, Fails DEF Hash

LEMMA DestinationAbsentHolds == ASSUME RenameInv, DestinationAbsent PROVE RenameInv'
  <1>1. result = "none" /\ step \notin Acted /\ op = "rename"
    BY Running, RenameAssumption
       DEF DestinationAbsent, Acted, AfterRename, RenameInv, Course, StepsOf, TypeOK
  <1>2. CASE /\ GoTo(IF platform = "windows" THEN "verify" ELSE "rename")
             /\ UNCHANGED held
    <2>1. Holding'
      BY <1>2, HoldsOn
      DEF DestinationAbsent, GoTo, SourceHeld, DestinationHeld, FileHeld
    <2>2. QED
      BY <1>1, <1>2, <2>1, Proceeds
         DEF DestinationAbsent, Steps, StepsOf, Acted, AfterRename
  <1>3. QED BY <1>1, <1>2, Fails DEF DestinationAbsent

\* The looks after the rename, none of which declines.
LEMMA PostHolds ==
  ASSUME RenameInv, PostSource \/ PostDestination \/ PostIdentity \/ CheckSource
                    \/ Reopen \/ Reprint
  PROVE  RenameInv'
  <1>1. /\ result = "none" /\ step \in AfterRename /\ step \in Acted
        /\ op = "rename" /\ Still
    BY Running, RenameAssumption
       DEF PostSource, PostDestination, PostIdentity, CheckSource, Reopen, Reprint,
           Acted, AfterRename, RenameInv, Course, StepsOf, TypeOK
  <1>2. ASSUME NEW class, Fail(AfterCall(class)), class = "ambiguous"
        PROVE  RenameInv'
    BY <1>1, <1>2, Fails DEF AfterCall
  <1>3. ASSUME Answer("recovery") \/ Answer("applied")
        PROVE  RenameInv'
    BY <1>1, <1>3, Answers
  <1>4. ASSUME NEW s \in {"postDestination", "postIdentity"}, GoTo(s),
               UNCHANGED held,
               step \in {"postSource", "postDestination"}
        PROVE  RenameInv'
    <2>1. Holding'
      BY <1>1, <1>4, HoldsOn DEF GoTo, SourceHeld, DestinationHeld, FileHeld
    <2>2. QED BY <1>1, <1>4, <2>1, Proceeds DEF Steps, StepsOf, Acted, AfterRename
  <1>5. ASSUME GoTo("checkSource"), held' = NothingHeld
        PROVE  RenameInv'
    <2>1. Holding'
      BY <1>5 DEF Holding, GoTo, NothingHeld, SourceHeld, DestinationHeld, FileHeld
    <2>2. QED BY <1>1, <1>5, <2>1, Proceeds DEF Steps, StepsOf, Acted, AfterRename
  <1>6. ASSUME GoTo("reopen"), UNCHANGED held
        PROVE  RenameInv'
    <2>1. Holding'
      BY <1>1, <1>6, HoldsOn DEF GoTo, SourceHeld, DestinationHeld, FileHeld
    <2>2. QED BY <1>1, <1>6, <2>1, Proceeds DEF Steps, StepsOf, Acted, AfterRename
  <1>7. ASSUME At("dst") \in Files, GoTo("reprint"),
               held' = [held EXCEPT !.object = At("dst")]
        PROVE  RenameInv'
    <2>1. Holding'
      BY <1>1, <1>7
      DEF RenameInv, Holding, GoTo, SourceHeld, DestinationHeld, FileHeld
    <2>2. QED BY <1>1, <1>7, <2>1, Proceeds DEF Steps, StepsOf, Acted, AfterRename
  <1>8. CASE PostSource
    BY <1>2, <1>4, <1>8 DEF PostSource
  <1>9. CASE PostDestination
    BY <1>2, <1>4, <1>9 DEF PostDestination
  <1>10. CASE PostIdentity
    BY <1>2, <1>5, <1>10 DEF PostIdentity
  <1>11. CASE CheckSource
    BY <1>3, <1>6, <1>11 DEF CheckSource
  <1>12. CASE Reopen
    BY <1>3, <1>7, <1>12 DEF Reopen
  <1>13. CASE Reprint
    BY <1>3, <1>13 DEF Reprint
  <1>14. QED BY <1>8, <1>9, <1>10, <1>11, <1>12, <1>13

-----------------------------------------------------------------------------
(* The calls that write *)

\* What the rename moves is the object under the source name; on Windows it is
\* the approved one.
LEMMA RenamedIsThere ==
  ASSUME RenameInv, step = "rename"
  PROVE  /\ Renamed = entry[held.sp]
         /\ platform = "windows" => Renamed = Approved
         /\ held.sp \in Inside /\ held.dp \in Inside
  BY DEF RenameInv, TypeOK, Platforms, Holding, Renamed, SourceHeld, DestinationHeld

\* What the rename does to the names and to what is touched, with whatever
\* control follows it.
LEMMA MovesOne ==
  ASSUME RenameInv, step = "rename", op = "rename", Renamed # None, NoReplace,
         entry' = [entry EXCEPT ![held.sp] = None, ![held.dp] = Renamed],
         UNCHANGED <<dirAt, linked, op>>
  PROVE  /\ entry' \in [Dirs -> Files \cup Folders \cup {None}]
         /\ Renamed \in Files \cup Folders
         /\ platform = "windows" => Renamed = Approved
         /\ touched = {}
         /\ Homes'
  <1>1. /\ Renamed = entry[held.sp] /\ held.sp \in Inside /\ held.dp \in Inside
        /\ platform = "windows" => Renamed = Approved
    BY RenamedIsThere
  <1>2. entry[held.dp] = None /\ held.sp # held.dp
    BY <1>1 DEF NoReplace, MayRename
  <1>3. entry \in [Dirs -> Files \cup Folders \cup {None}]
          /\ Renamed \in Files \cup Folders
    BY <1>1, RenameFacts DEF RenameInv, TypeOK
  <1>4. entry' \in [Dirs -> Files \cup Folders \cup {None}]
    BY <1>3, RenameFacts
  <1>5. touched = {}
    BY RenameAssumption DEF RenameInv, Touching, Acted, AfterRename
  <1>6. Homes'
    <2>1. ASSUME NEW d \in Dirs, NEW e \in Dirs, entry'[d] = entry'[e],
                 entry'[d] \in Folders
          PROVE  d = e
      <3>1. \A x \in Dirs : entry'[x] = IF x = held.dp THEN entry[held.sp]
                                        ELSE IF x = held.sp THEN None ELSE entry[x]
        BY <1>1, <1>2, <1>3
      <3>2. entry'[held.sp] = None /\ held.sp \in Dirs /\ held.dp \in Dirs
        BY <3>1, <1>1, <1>2, RenameFacts
      <3>3. d # held.sp /\ e # held.sp
        BY <2>1, <3>2, RenameFacts
      <3>4. \A x, y \in Dirs : entry[x] = entry[y] /\ entry[x] \in Folders => x = y
        BY DEF RenameInv, Homes
      <3>5. d = held.dp => entry'[d] = entry[held.sp]
        BY <3>1
      <3>6. e = held.dp => entry'[e] = entry[held.sp]
        BY <3>1
      <3>7. d # held.dp => entry'[d] = entry[d]
        BY <3>1, <3>3
      <3>8. e # held.dp => entry'[e] = entry[e]
        BY <3>1, <3>3
      <3>9. QED BY <2>1, <3>2, <3>3, <3>4, <3>5, <3>6, <3>7, <3>8
    <2>2. QED BY <2>1 DEF RenameInv, Homes
  <1>7. QED BY <1>1, <1>3, <1>4, <1>5, <1>6

LEMMA RenameHolds == ASSUME RenameInv, Rename PROVE RenameInv'
  <1>1. result = "none" /\ step = "rename" /\ op = "rename" /\ step \notin Acted
    BY Running, RenameAssumption
       DEF Rename, Acted, AfterRename, RenameInv, Course, StepsOf, TypeOK
  <1>2. CASE /\ Renamed # None /\ NoReplace
             /\ entry' = [entry EXCEPT ![held.sp] = None, ![held.dp] = Renamed]
             /\ touched' = touched \cup {Renamed} /\ GoTo("postSource")
             /\ UNCHANGED <<platform, dirAt, linked, content, stamp, filled, held,
                            op, changes>>
    <2>1. /\ entry' \in [Dirs -> Files \cup Folders \cup {None}]
          /\ Renamed \in Files \cup Folders
          /\ platform = "windows" => Renamed = Approved
          /\ touched = {}
          /\ Homes'
      BY <1>1, <1>2, MovesOne
    <2>2. TypeOK'
      BY <1>2, <2>1 DEF RenameInv, TypeOK, GoTo
    <2>3. Course'
      BY <1>1, <1>2 DEF RenameInv, Course, GoTo, StepsOf, AfterRename
    <2>4. Touching'
      BY <1>1, <1>2, <2>1 DEF Touching, GoTo, Acted, AfterRename
    <2>5. Holding'
      BY <1>1, <1>2
      DEF RenameInv, Holding, GoTo, SourceHeld, DestinationHeld, FileHeld
    <2>6. QED BY <2>1, <2>2, <2>3, <2>4, <2>5 DEF RenameInv
  <1>3. QED BY <1>1, <1>2, Fails DEF Rename

\* A rename that was performed and reported as an error asks for recovery.
LEMMA RenameMisreportedHolds == ASSUME RenameInv, RenameMisreported PROVE RenameInv'
  <1>1. result = "none" /\ step = "rename" /\ op = "rename"
    BY Running, RenameAssumption
       DEF RenameMisreported, RenameInv, Course, StepsOf, TypeOK
  <1>2. Answer("recovery")
    BY PartsAssumption, RenameAssumption
    DEF RenameMisreported, Refused, Fail, Outcome
  <1>3. /\ entry' \in [Dirs -> Files \cup Folders \cup {None}]
        /\ Renamed \in Files \cup Folders
        /\ platform = "windows" => Renamed = Approved
        /\ touched = {}
        /\ Homes'
    BY <1>1, MovesOne DEF RenameMisreported
  <1>4. TypeOK'
    BY <1>2, <1>3 DEF RenameMisreported, RenameInv, TypeOK, Answer, NothingHeld
  <1>5. Course'
    BY <1>1, <1>2 DEF RenameMisreported, Course, Answer, StepsOf
  <1>6. Touching'
    BY <1>1, <1>2, <1>3
    DEF RenameMisreported, Touching, Answer, Acted, AfterRename
  <1>7. Holding'
    BY <1>2
    DEF RenameInv, Holding, Answer, NothingHeld, SourceHeld, DestinationHeld,
        FileHeld
  <1>8. QED BY <1>3, <1>4, <1>5, <1>6, <1>7 DEF RenameInv

LEMMA DirectoryPrecheckHolds == ASSUME RenameInv, DirectoryPrecheck PROVE RenameInv'
  <1>1. result = "none" /\ step \notin Acted
    BY Running DEF DirectoryPrecheck, Acted, AfterRename
  <1>2. CASE GoTo("parent") /\ UNCHANGED held
    <2>1. Holding'
      BY <1>2, HoldsOn
      DEF DirectoryPrecheck, GoTo, SourceHeld, DestinationHeld, FileHeld
    <2>2. QED
      BY <1>1, <1>2, <2>1, Proceeds
      DEF DirectoryPrecheck, Steps, StepsOf, Acted, AfterRename
  <1>3. QED BY <1>1, <1>2, Answers DEF DirectoryPrecheck

LEMMA DirectoryParentHolds == ASSUME RenameInv, DirectoryParent PROVE RenameInv'
  <1>1. result = "none" /\ step \notin Acted /\ op \in {"mkdir", "rmdir"}
    BY Running, RenameAssumption
       DEF DirectoryParent, Acted, AfterRename, RenameInv, Course, StepsOf, TypeOK
  <1>2. CASE /\ OpenChain("dst") = "ok"
             /\ held' = [held EXCEPT !.dp = dirAt["dst"]]
             /\ GoTo(IF op = "mkdir" THEN "make" ELSE "leaf")
    <2>1. dirAt["dst"] \in Inside
      BY <1>2, ChainInside DEF Paths
    <2>2. Holding'
      BY <1>2, <2>1, RenameFacts
         DEF RenameInv, Holding, DirectoryParent, Still, disk, GoTo, SourceHeld,
             DestinationHeld, FileHeld
    <2>3. QED
      BY <1>1, <1>2, <2>2, Proceeds
      DEF DirectoryParent, Steps, StepsOf, Acted, AfterRename
  <1>3. QED BY <1>1, <1>2, Fails DEF DirectoryParent

LEMMA MakeHolds == ASSUME RenameInv, Make PROVE RenameInv'
  <1>1. /\ result = "none" /\ step = "make" /\ op = "mkdir" /\ step \notin Acted
        /\ held.dp \in Inside /\ held.dp \in Dirs
    BY Running, RenameAssumption, RenameFacts
       DEF Make, Acted, AfterRename, RenameInv, Course, StepsOf, TypeOK, Holding,
           DestinationHeld
  <1>2. CASE /\ entry[held.dp] = None
             /\ entry' = [entry EXCEPT ![held.dp] = Created]
             /\ touched' = touched \cup {Created} /\ GoTo("madeCheck")
             /\ UNCHANGED <<platform, dirAt, linked, content, stamp, filled, held,
                            op, changes>>
    <2>1. TypeOK'
      BY <1>2, RenameFacts DEF RenameInv, TypeOK, GoTo
    <2>2. Course'
      BY <1>1, <1>2 DEF RenameInv, Course, GoTo, StepsOf
    <2>3. Touching'
      BY <1>1, <1>2 DEF RenameInv, Touching, GoTo, Acted, AfterRename
    <2>4. Holding'
      BY <1>1, <1>2
      DEF RenameInv, Holding, GoTo, SourceHeld, DestinationHeld, FileHeld
    <2>5. Homes'
      <3>1. \A d \in Dirs : entry[d] # Created
        BY <1>1 DEF RenameInv, Homes, Touching
      <3>2. \A x \in Dirs : entry'[x] = IF x = held.dp THEN Created ELSE entry[x]
        BY <1>2, RenameFacts DEF RenameInv, TypeOK
      <3>3. ASSUME NEW d \in Dirs, NEW e \in Dirs, entry'[d] = entry'[e],
                   entry'[d] \in Folders
            PROVE  d = e
        BY <3>1, <3>2, <3>3 DEF RenameInv, Homes
      <3>4. QED BY <1>2, <3>3 DEF RenameInv, Homes
    <2>6. QED BY <2>1, <2>2, <2>3, <2>4, <2>5 DEF RenameInv
  <1>3. QED BY <1>1, <1>2, Fails DEF Make

LEMMA DirectoryChecksHold ==
  ASSUME RenameInv, MadeCheck \/ RemovedCheck
  PROVE  RenameInv'
  <1>1. result = "none" /\ Still /\ (Answer("applied") \/ Answer("recovery"))
    BY Running DEF MadeCheck, RemovedCheck, Outcome, AfterCall
  <1>2. QED BY <1>1, Answers

LEMMA LeafFolderHolds == ASSUME RenameInv, LeafFolder PROVE RenameInv'
  <1>1. result = "none" /\ step \notin Acted /\ op = "rmdir"
    BY Running, RenameAssumption
       DEF LeafFolder, Acted, AfterRename, RenameInv, Course, StepsOf, TypeOK
  <1>2. CASE /\ entry[held.dp] \in Folders
             /\ held' = [held EXCEPT !.object = entry[held.dp]]
             /\ GoTo(IF platform = "windows" THEN "remove" ELSE "empty")
    <2>1. Holding'
      BY <1>2, RenameFacts
         DEF RenameInv, Holding, LeafFolder, Still, disk, GoTo, SourceHeld,
             DestinationHeld, FileHeld
    <2>2. QED
      BY <1>1, <1>2, <2>1, Proceeds
      DEF LeafFolder, Steps, StepsOf, Acted, AfterRename
  <1>3. QED BY <1>1, <1>2, Fails DEF LeafFolder

LEMMA EmptyFolderHolds == ASSUME RenameInv, EmptyFolder PROVE RenameInv'
  <1>1. result = "none" /\ step \notin Acted /\ op = "rmdir"
    BY Running, RenameAssumption
       DEF EmptyFolder, Acted, AfterRename, RenameInv, Course, StepsOf, TypeOK
  <1>2. CASE GoTo("remove") /\ UNCHANGED held
    <2>1. Holding'
      BY <1>2 DEF RenameInv, Holding, EmptyFolder, Still, disk, GoTo, SourceHeld,
             DestinationHeld, FileHeld
    <2>2. QED
      BY <1>1, <1>2, <2>1, Proceeds
      DEF EmptyFolder, Steps, StepsOf, Acted, AfterRename
  <1>3. QED BY <1>1, <1>2, Fails DEF EmptyFolder

\* The folder that is removed is the one under the name.
LEMMA RemovedIsThere ==
  ASSUME RenameInv, step = "remove"
  PROVE  Removed = entry[held.dp] /\ held.dp \in Inside
  BY DEF RenameInv, TypeOK, Platforms, Holding, Removed, DestinationHeld

LEMMA RemoveHolds == ASSUME RenameInv, Remove PROVE RenameInv'
  <1>1. result = "none" /\ step = "remove" /\ op = "rmdir" /\ step \notin Acted
    BY Running, RenameAssumption
       DEF Remove, Acted, AfterRename, RenameInv, Course, StepsOf, TypeOK
  <1>2. CASE /\ Removable(Removed)
             /\ entry' = [d
                  \in Dirs |-> IF entry[d] = Removed THEN None ELSE entry[d]]
             /\ touched' = touched \cup {Removed} /\ GoTo("removedCheck")
             /\ UNCHANGED <<platform, dirAt, linked, content, stamp, filled, held,
                            op, changes>>
    <2>1. Removed \in Folders
      BY <1>2 DEF Removable
    <2>2. TypeOK'
      BY <1>2, <2>1 DEF RenameInv, TypeOK, GoTo
    <2>3. Course'
      BY <1>1, <1>2 DEF RenameInv, Course, GoTo, StepsOf
    <2>4. Touching'
      BY <1>1, <1>2 DEF RenameInv, Touching, GoTo, Acted, AfterRename
    <2>5. Holding'
      BY <1>1, <1>2
      DEF RenameInv, Holding, GoTo, SourceHeld, DestinationHeld, FileHeld
    <2>6. Homes'
      <3>1. \A d \in Dirs : entry'[d] \in Folders => entry'[d] = entry[d]
        BY <1>2, RenameFacts
      <3>2. QED BY <1>1, <1>2, <3>1 DEF RenameInv, Homes
    <2>7. QED BY <2>2, <2>3, <2>4, <2>5, <2>6 DEF RenameInv
  <1>3. QED BY <1>1, <1>2, Fails DEF Remove

LEMMA HandlerHolds == ASSUME RenameInv, HandlerStep PROVE RenameInv'
  <1>1. Verify("verify", "hash") => RenameInv'
    BY VerifyHolds
  <1>2. Verify("recheck", IF platform = "windows" THEN "rename" ELSE "destination") =>
          RenameInv'
    BY VerifyHolds
  <1>3. QED
    BY <1>1, <1>2, PrecheckHolds, FingerprintHolds, SourceParentHolds,
        DestinationParentHolds,
       OpenSourceHolds, HashHolds, DestinationAbsentHolds, RenameHolds,
       RenameMisreportedHolds, PostHolds,
       DirectoryPrecheckHolds, DirectoryParentHolds, MakeHolds, DirectoryChecksHold,
       LeafFolderHolds, EmptyFolderHolds, RemoveHolds
       DEF HandlerStep

-----------------------------------------------------------------------------
(* The other process *)

\* What the handler relies on outlives a change of the names: nothing of the
\* root is reached but by a link, a folder keeps to one name, and what is held
\* open on Windows stays.
LEMMA OthersKeep ==
  ASSUME RenameInv, Other, TypeOK',
         linked' \subseteq Paths,
         \A p \in Paths : p \notin linked' => dirAt'[p] \in Inside \cup {None},
         \A d, e \in Dirs : entry'[d] = entry'[e] /\ entry'[d] \in Folders => d = e,
         \A d \in Dirs : entry'[d] = Created => \E e \in Dirs : entry[e] = Created,
         \A d \in Dirs : Locked(entry[d]) /\ entry[d] # Foreign =>
           entry'[d] = entry[d]
  PROVE  RenameInv'
  <1>1. Course' /\ Touching'
    BY DEF RenameInv, Other, Course, Touching
  <1>2. Homes'
    BY DEF RenameInv, Other, Homes
  <1>3. Holding'
    <2>1. ASSUME NEW d \in Dirs, entry[d] \notin {None, Foreign},
                 held.object = entry[d],
                 platform = "windows", step # "reprint"
          PROVE  entry'[d] = entry[d]
      BY <2>1 DEF Locked
    <2>2. ASSUME platform = "windows", held.object = Approved,
                 step \in {"verify", "hash", "recheck", "destination", "rename"}
          PROVE  entry'[held.sp] = Approved
      BY <2>1, <2>2, RenameFacts, RenameAssumption
      DEF RenameInv, Holding, SourceHeld
    <2>3. ASSUME platform = "windows", step \in {"empty", "remove"}
          PROVE  entry'[held.dp] = held.object
      BY <2>1, <2>3, RenameFacts DEF RenameInv, Holding, DestinationHeld
    <2>4. QED BY <2>2, <2>3 DEF RenameInv, Other, Holding
  <1>4. QED BY <1>1, <1>2, <1>3 DEF RenameInv

LEMMA OtherHolds == ASSUME RenameInv, OtherStep PROVE RenameInv'
  <1>1. Other /\ changes' \in 0..MaxChanges
    BY RenameAssumption DEF OtherStep, Other, RenameInv, TypeOK
  <1>2. /\ entry \in [Dirs -> Files \cup Folders \cup {None}]
        /\ \A d, e \in Dirs : entry[d] = entry[e] /\ entry[d] \in Folders => d = e
        /\ \A p \in Paths : p \notin linked => dirAt[p] \in Inside \cup {None}
        /\ linked \subseteq Paths
    BY DEF RenameInv, TypeOK, Homes
  <1>3. ASSUME NEW object \in {Foreign, Stranger}, NEW d \in Dirs, Appear(object, d)
        PROVE  RenameInv'
    <2>1. \A e \in Dirs : entry[e] # object
      BY <1>3, LinkCounts DEF Appear, LinkCount
    <2>2. \A e \in Dirs : entry'[e] = IF e = d THEN object ELSE entry[e]
      BY <1>2, <1>3 DEF Appear
    <2>3. TypeOK'
      BY <1>1, <1>3, RenameFacts DEF RenameInv, TypeOK, Appear, Other
    <2>4. object # Created
      BY RenameAssumption, RenameFacts
    <2>5. \A e \in Dirs : Locked(entry[e]) /\ entry[e] # Foreign =>
            entry'[e] = entry[e]
      BY <1>3, <2>2 DEF Locked, Appear
    <2>6. UNCHANGED <<dirAt, linked>>
      BY <1>3 DEF Appear
    <2>7. \A e, f \in Dirs : entry'[e] = entry'[f] /\ entry'[e] \in Folders => e = f
      BY <1>2, <2>1, <2>2
    <2>8. QED BY <1>1, <1>2, <2>2, <2>3, <2>4, <2>5, <2>6, <2>7, OthersKeep
  <1>4. ASSUME NEW from \in Dirs, NEW to \in Dirs, MoveAway(from, to)
        PROVE  RenameInv'
    <2>1. \A e \in Dirs : entry'[e] = IF e = to THEN entry[from]
                                      ELSE IF e = from THEN None ELSE entry[e]
      BY <1>2, <1>4 DEF MoveAway
    <2>2. TypeOK'
      BY <1>1, <1>4 DEF RenameInv, TypeOK, MoveAway, Other
    <2>3. /\ ~Locked(entry[from]) /\ from # to /\ UNCHANGED <<dirAt, linked>>
          /\ entry[to] \in {None, Foreign}
      BY <1>4 DEF MoveAway
    <2>4. \A e, f \in Dirs : entry'[e] = entry'[f] /\ entry'[e] \in Folders => e = f
      BY <1>2, <2>1, RenameFacts
    <2>5. \A e \in Dirs : entry'[e] = Created => \E f \in Dirs : entry[f] = Created
      BY <2>1, RenameFacts
    <2>6. \A e \in Dirs : Locked(entry[e]) /\ entry[e] # Foreign =>
            entry'[e] = entry[e]
      BY <2>1, <2>3 DEF Locked
    <2>7. QED BY <1>1, <1>2, <2>2, <2>3, <2>4, <2>5, <2>6, OthersKeep
  <1>5. ASSUME NEW from \in Dirs, NEW to \in Dirs, HardLink(from, to)
        PROVE  RenameInv'
    <2>1. \A e \in Dirs : entry'[e] = IF e = to THEN entry[from] ELSE entry[e]
      BY <1>2, <1>5 DEF HardLink
    <2>2. TypeOK'
      BY <1>1, <1>5 DEF RenameInv, TypeOK, HardLink, Other
    <2>3. UNCHANGED <<dirAt, linked>> /\ entry[from] \in Files /\ entry[to] = None
      BY <1>5 DEF HardLink
    <2>4. \A e, f \in Dirs : entry'[e] = entry'[f] /\ entry'[e] \in Folders => e = f
      BY <1>2, <2>1, <2>3, RenameAssumption
    <2>5. \A e \in Dirs : entry'[e] = Created => \E f \in Dirs : entry[f] = Created
      BY <2>1, <2>3, RenameFacts
    <2>6. \A e \in Dirs : Locked(entry[e]) /\ entry[e] # Foreign =>
            entry'[e] = entry[e]
      BY <2>1, <2>3 DEF Locked
    <2>7. QED BY <1>1, <1>2, <2>2, <2>3, <2>4, <2>5, <2>6, OthersKeep
  <1>6. ASSUME UNCHANGED entry, UNCHANGED <<dirAt, linked>>, TypeOK'
        PROVE  RenameInv'
    BY <1>1, <1>2, <1>6, OthersKeep
  <1>7. ASSUME NEW f \in Files, Write(f)
        PROVE  RenameInv'
    <2>1. TypeOK'
      BY ZenonT(40), <1>1, <1>7 DEF RenameInv, TypeOK, Write, Other
    <2>2. QED BY <1>6, <1>7, <2>1 DEF Write
  <1>8. ASSUME NEW folder \in Folders, Fill(folder)
        PROVE  RenameInv'
    <2>1. TypeOK'
      BY <1>1, <1>8 DEF RenameInv, TypeOK, Fill, Other
    <2>2. QED BY <1>6, <1>8, <2>1 DEF Fill
  <1>9. ASSUME NEW p \in Paths, Redirect(p)
        PROVE  RenameInv'
    <2>1. UNCHANGED entry
      BY <1>9 DEF Redirect
    <2>2. PICK d \in Dirs \cup {None} :
            /\ dirAt' = [dirAt EXCEPT ![p] = d]
            /\ \/ linked' = linked \ {p} /\ d \in Inside \cup {None}
               \/ linked' = linked \cup {p}
      BY <1>9, RenameFacts DEF Redirect
    <2>3. dirAt \in [Paths -> Dirs \cup {None}]
      BY DEF RenameInv, TypeOK
    <2>4. TypeOK'
      BY <1>1, <1>9, <2>1, <2>2, <2>3 DEF RenameInv, TypeOK, Redirect, Other
    <2>5. \A q \in Paths : q \notin linked' => dirAt'[q] \in Inside \cup {None}
      BY <1>2, <2>2, <2>3
    <2>6. linked' \subseteq Paths
      BY <2>4 DEF TypeOK
    <2>7. QED BY <1>1, <1>2, <2>1, <2>4, <2>5, <2>6, OthersKeep
  <1>10. QED
    BY <1>3, <1>4, <1>5, <1>7, <1>8, <1>9 DEF OtherStep

-----------------------------------------------------------------------------
(* The invariant, and what a step may not do *)

LEMMA RenameInit == ASSUME Init PROVE RenameInv
  <1>1. entry \in [Dirs -> Files \cup Folders \cup {None}]
    BY RenameFacts DEF Init
  <1>2. TypeOK
    BY <1>1, RenameFacts, RenameAssumption
    DEF Init, TypeOK, NothingHeld, Paths, Contents
  <1>3. Course
    BY RenameAssumption DEF Init, Course, StepsOf
  <1>4. Touching
    BY DEF Init, Touching, Acted, AfterRename
  <1>5. Holding
    BY DEF Init, Holding, NothingHeld, SourceHeld, DestinationHeld, FileHeld
  <1>6. Homes
    <2>1. ASSUME NEW d \in Dirs, NEW e \in Dirs, entry[d] = entry[e],
                 entry[d] \in Folders
          PROVE  d = e
      BY <2>1, RenameFacts DEF Init
    <2>2. op = "mkdir" => \A d \in Dirs : entry[d] # Created
      BY RenameFacts DEF Init
    <2>3. \A p \in Paths : dirAt[p] \in Inside
      BY RenameFacts DEF Init
    <2>4. QED BY <2>1, <2>2, <2>3 DEF Homes
  <1>7. QED BY <1>2, <1>3, <1>4, <1>5, <1>6 DEF RenameInv

LEMMA RenameStutters == ASSUME RenameInv, UNCHANGED vars PROVE RenameInv'
  BY DEF RenameInv, vars, disk, TypeOK, Course, Touching, Holding, Homes

LEMMA RenameStep == ASSUME RenameInv, [Next]_vars PROVE RenameInv'
  BY HandlerHolds, Retries, BreaksHold, OtherHolds, RenameStutters
  DEF Next, Answered

\* A step that is not one of the three calls leaves every name; the calls fill
\* a free name of the root, or free one there.
LEMMA NamesKept ==
  ASSUME RenameInv, Next, changes' = changes
  PROVE  \/ UNCHANGED entry
         \/ /\ step = "rename" /\ Renamed # None /\ NoReplace
            /\ entry' = [entry EXCEPT ![held.sp] = None, ![held.dp] = Renamed]
         \/ /\ step = "make" /\ entry[held.dp] = None
            /\ entry' = [entry EXCEPT ![held.dp] = Created]
         \/ /\ step = "remove" /\ Removable(Removed)
            /\ entry' = [d
                 \in Dirs |-> IF entry[d] = Removed THEN None ELSE entry[d]]
  <1>1. ~OtherStep
    BY DEF OtherStep, Other, RenameInv, TypeOK
  <1>2. Still => UNCHANGED entry
    BY DEF Still, disk
  <1>3. HandlerStep /\ ~Rename /\ ~RenameMisreported /\ ~Make /\ ~Remove => Still
    BY DEF HandlerStep, Precheck, Fingerprint, SourceParent, DestinationParent,
           OpenSource, Verify, Hash, DestinationAbsent, PostSource, PostDestination,
           PostIdentity, CheckSource, Reopen, Reprint, DirectoryPrecheck,
           DirectoryParent, MadeCheck, LeafFolder, EmptyFolder, RemovedCheck
  <1>4. Busy \/ Breaks => Still
    BY DEF Busy, Breaks
  <1>5. Answered => UNCHANGED entry
    BY DEF Answered, vars, disk
  <1>6. QED
    BY <1>1, <1>2, <1>3, <1>4, <1>5
    DEF Next, Rename, RenameMisreported, Make, Remove

LEMMA Survives ==
  ASSUME RenameInv, Next
  PROVE  ObjectsSurviveStep
  <1> SUFFICES ASSUME changes' = changes, NEW object \in Files \cup Folders,
                      LinkCount(object) > 0, LinkCount(object)' = 0
               PROVE  object \in Folders \ filled
    BY DEF ObjectsSurviveStep
  <1>1. PICK d \in Dirs : entry[d] = object
    <2>1. LinkCount(object) # 0
      OBVIOUS
    <2>2. LinkCount(object) = 0 <=> \A d \in Dirs : entry[d] # object
      BY LinkCounts DEF LinkCount
    <2>3. QED BY <2>1, <2>2
  <1>2. \A e \in Dirs : entry'[e] # object
    <2>1. LinkCount(object)' = Cardinality({e \in Dirs : entry'[e] = object})
      BY DEF LinkCount
    <2>2. QED BY <2>1, LinkCounts
  <1>3. entry \in [Dirs -> Files \cup Folders \cup {None}]
    BY DEF RenameInv, TypeOK
  <1>4. CASE UNCHANGED entry
    BY <1>1, <1>2, <1>4
  <1>5. CASE /\ step = "rename" /\ Renamed # None /\ NoReplace
             /\ entry' = [entry EXCEPT ![held.sp] = None, ![held.dp] = Renamed]
    <2>1. Renamed = entry[held.sp] /\ held.sp \in Dirs /\ held.dp \in Dirs
      BY <1>5, RenamedIsThere, RenameFacts
    <2>2. \A e \in Dirs : entry'[e] = IF e = held.dp THEN entry[held.sp]
                                      ELSE IF e = held.sp THEN None ELSE entry[e]
      BY <1>3, <1>5, <2>1
    <2>3. d # held.dp
      BY <1>1, <1>5, RenameFacts DEF NoReplace, MayRename
    <2>4. QED BY <1>1, <1>2, <2>1, <2>2, <2>3
  <1>6. CASE /\ step = "make" /\ entry[held.dp] = None
             /\ entry' = [entry EXCEPT ![held.dp] = Created]
    BY <1>1, <1>2, <1>3, <1>6, RenameFacts
  <1>7. CASE /\ step = "remove" /\ Removable(Removed)
             /\ entry' = [e
                  \in Dirs |-> IF entry[e] = Removed THEN None ELSE entry[e]]
    BY <1>1, <1>2, <1>3, <1>7 DEF Removable
  <1>8. QED BY <1>4, <1>5, <1>6, <1>7, NamesKept

LEMMA StaysInside ==
  ASSUME RenameInv, Next
  PROVE  OutsideIsUntouchedStep
  <1> SUFFICES ASSUME changes' = changes
               PROVE  entry'[Outside] = entry[Outside]
    BY DEF OutsideIsUntouchedStep
  <1>1. entry \in [Dirs -> Files \cup Folders \cup {None}]
    BY DEF RenameInv, TypeOK
  <1>2. CASE /\ step = "rename"
             /\ entry' = [entry EXCEPT ![held.sp] = None, ![held.dp] = Renamed]
    BY <1>1, <1>2, RenamedIsThere, RenameFacts
  <1>3. CASE /\ step = "make"
             /\ entry' = [entry EXCEPT ![held.dp] = Created]
    BY <1>1, <1>3, RenameFacts DEF RenameInv, Holding, DestinationHeld
  <1>4. CASE /\ step = "remove" /\ Removable(Removed)
             /\ entry' = [e
                  \in Dirs |-> IF entry[e] = Removed THEN None ELSE entry[e]]
    <2>1. Removed = entry[held.dp] /\ held.dp \in Inside
      BY <1>4, RemovedIsThere
    <2>2. entry[Outside] # Removed
      BY <1>4, <2>1, RenameFacts DEF RenameInv, Homes, Removable
    <2>3. QED BY <1>1, <1>4, <2>2, RenameFacts
  <1>5. QED BY <1>2, <1>3, <1>4, NamesKept

LEMMA AppliedApproved ==
  ASSUME RenameInv, Next
  PROVE  AppliedIsApprovedStep
  <1> SUFFICES ASSUME op = "rename", result = "none", result' = "applied"
               PROVE  touched # {} /\ Expected(Approved)
    BY DEF AppliedIsApprovedStep
  <1>1. ~OtherStep /\ ~Answered
    BY DEF OtherStep, Other, Answered
  <1>2. \A class : Fail(class) => result' # "applied"
    BY DEF Fail, Answer, Outcome
  <1>3. ~Busy /\ ~Breaks
    BY <1>2 DEF Busy, Breaks, Refused
  <1>4. step \in StepsOf("rename")
    BY DEF RenameInv, Course
  <1>5. Reprint
    <2>1. HandlerStep
      BY <1>1, <1>3 DEF Next
    <2>2. ~MadeCheck /\ ~RemovedCheck
      BY <1>4 DEF StepsOf, AfterRename, MadeCheck, RemovedCheck
    <2>3. ~Precheck /\ ~Fingerprint /\ ~SourceParent /\ ~DestinationParent
            /\ ~OpenSource
      BY <1>2
      DEF Precheck, Fingerprint, SourceParent, DestinationParent, OpenSource, GoTo
    <2>4. /\ ~Verify("verify", "hash")
          /\ ~Verify("recheck",
                     IF platform = "windows" THEN "rename" ELSE "destination")
          /\ ~Hash /\ ~DestinationAbsent /\ ~Rename /\ ~RenameMisreported
      BY <1>2
      DEF Verify, Hash, DestinationAbsent, Rename, RenameMisreported, Refused, GoTo
    <2>5. ~PostSource /\ ~PostDestination /\ ~PostIdentity /\ ~CheckSource
            /\ ~Reopen
      BY <1>2
      DEF PostSource, PostDestination, PostIdentity, CheckSource, Reopen, GoTo,
          Answer
    <2>6. ~DirectoryPrecheck /\ ~DirectoryParent /\ ~Make /\ ~LeafFolder
            /\ ~EmptyFolder /\ ~Remove
      BY <1>2
      DEF DirectoryPrecheck, DirectoryParent, Make, LeafFolder, EmptyFolder, Remove,
                  GoTo, Answer
    <2>7. QED BY <2>1, <2>2, <2>3, <2>4, <2>5, <2>6 DEF HandlerStep
  <1>6. ExpectedMatches(held.object)
    BY <1>5 DEF Reprint, Answer
  <1>7. Expected(Approved)
    BY <1>6 DEF ExpectedMatches, Expected
  <1>8. touched # {}
    BY <1>5 DEF Reprint, RenameInv, Touching, Acted, AfterRename
  <1>9. QED BY <1>7, <1>8

LEMMA RenameHoldsAlways == Spec => []RenameInv
  <1>1. Init => RenameInv
    BY RenameInit
  <1>2. RenameInv /\ [Next]_vars => RenameInv'
    BY RenameStep
  <1>3. QED BY <1>1, <1>2, PTL DEF Spec

\* A call that answers "declined" has changed nothing, whatever another process
\* did meanwhile, and on Windows no file but the approved one is moved (the
\* handle of rename_same_volume_no_replace excludes every other access).
THEOREM RenameSafe == Spec => [](DeclinedIsUntouched /\ OnlyApprovedIsMoved)
  <1>1. RenameInv => DeclinedIsUntouched /\ OnlyApprovedIsMoved
    BY DEF RenameInv, Touching, DeclinedIsUntouched, OnlyApprovedIsMoved
  <1>2. QED BY <1>1, RenameHoldsAlways, PTL

\* "applied" is answered only when the file has the approved content after the
\* move, no step of the handler takes the last name of an object other than an
\* empty folder, and none changes a directory outside the root
\* (rename_same_volume_no_replace, remove_directory_if_empty, open_parent_chain).
THEOREM RenameSteps ==
  Spec => AppliedIsApproved /\ ObjectsSurvive /\ OutsideIsUntouched
  <1>1. RenameInv /\ [Next]_vars =>
          [AppliedIsApprovedStep /\ ObjectsSurviveStep /\ OutsideIsUntouchedStep]_vars
    BY Survives, StaysInside, AppliedApproved
  <1>2. QED
    BY <1>1, RenameHoldsAlways, PTL
    DEF Spec, AppliedIsApproved, ObjectsSurvive, OutsideIsUntouched

-----------------------------------------------------------------------------
(* The transfer between volumes *)

Outcomes ==
  {"none", "disabled", "mismatch", "exists", "changed", "volume", "journal", "io",
   "unverified", "platform", "restored", "manual_review", "receipt", "crashed"}
CopyThere ==
  {"reread", "copied", "intent_vault", "vault", "vaulted", "intent_publish",
   "fingerprint", "publish"}
InVault ==
  {"vaulted", "intent_publish", "fingerprint", "publish", "published", "finish",
   "answer", "inspect_vault"}
Publishing == {"fingerprint", "publish", "inspect_vault", "restore"}
Recorded ==
  {"approved", "intent_copy", "applied_copy", "intent_vault", "applied_vault",
   "intent_publish", "applied_publish", "finished"}

\* The variables have their types and the four paths of the plan are apart, also
\* the temporary file from the source and the vault once the volumes are checked.
Sealed ==
  /\ transferPlan \in [Transfer!Roles -> Transfer!Paths]
       /\ transferPlan["source"] = "s" /\ Transfer!Seal(transferPlan)
  /\ volume \in [Transfer!Dirs -> Transfer!Volumes]
       /\ transferAt \in [Transfer!Paths -> Transfer!Files \cup {None}]
  /\ print \in Transfer!Files \cup {None} /\ transferJournal \in Seq(Recorded)
  /\ alive \subseteq {"original", "copy", "other"}
       /\ transferTouched \subseteq Transfer!Paths
  /\ outcome \in Outcomes /\ (transferPc = "ended") = (outcome # "none")
  /\ transferChanges \in 0..TransferChanges
  /\ transferPc \notin {"check", "ended"} =>
       transferPlan["temporary"] \notin {transferPlan["source"],
                                         transferPlan["vault"]}

\* Nothing is done before the journal is opened.
Unopened ==
  transferPc = "check" \/ outcome \in {"disabled", "mismatch", "exists", "volume"}
    => transferJournal = <<>> /\ "copy" \notin alive

\* The last event is the intent of the next change of the disk.
Announced ==
  /\ transferPc \in {"read", "create"} =>
       transferJournal # <<>> /\ Transfer!Last(transferJournal) = "intent_copy"
  /\ transferPc = "vault" =>
       transferJournal # <<>> /\ Transfer!Last(transferJournal) = "intent_vault"
  /\ transferPc \in Publishing =>
       transferJournal # <<>> /\ Transfer!Last(transferJournal) = "intent_publish"

\* Where the copy and the original are, unless the other process was there.
Placed ==
  /\ transferPc \in CopyThere =>
       transferAt[transferPlan["temporary"]] = Transfer!File("copy", "approved")
         \/ transferPlan["temporary"] \in transferTouched
  /\ transferPc = "publish" =>
       print \in Transfer!Files /\ print.content = "approved"
  /\ transferPc \in InVault \/ outcome = "receipt" =>
       transferAt[transferPlan["vault"]] = Transfer!Original
         \/ transferPlan["vault"] \in transferTouched
  /\ transferPc \in {"published", "finish", "answer"} \/ outcome = "receipt" =>
       \/ transferAt[transferPlan["destination"]] = Transfer!File("copy",
                                                                  "approved")
       \/ {transferPlan["destination"],
           transferPlan["temporary"]} \cap transferTouched # {}
  /\ transferPc = "restore" =>
       print = Transfer!Original \/ transferPlan["vault"] \in transferTouched
  /\ outcome = "restored" =>
       \/ transferAt[transferPlan["source"]] = Transfer!Original
       \/ {transferPlan["source"], transferPlan["vault"]} \cap transferTouched # {}

TransferInv == Sealed /\ Transfer!NothingIsLost /\ Unopened /\ Announced /\ Placed

LEMMA TransferInit ==
  ASSUME Transfer!TransferAssumption, Transfer!Init
  PROVE  TransferInv
  <1>1. Transfer!Original \in Transfer!Files
    BY DEF Transfer!Original, Transfer!Files, Transfer!File
  <1>2. Sealed
    BY <1>1
    DEF Transfer!Init, Sealed, Outcomes, Transfer!TransferAssumption, Transfer!Paths
  <1>3. Transfer!NothingIsLost
    <2>1. "s" \in Transfer!Paths /\ transferAt["s"] = Transfer!Original
      BY DEF Transfer!Init, Transfer!Paths
    <2>2. Transfer!Original # None BY <1>1 DEF Transfer!TransferAssumption
    <2>3. Transfer!Original.id = "original" BY DEF Transfer!Original, Transfer!File
    <2> QED BY <2>1, <2>2, <2>3 DEF Transfer!Init, Transfer!NothingIsLost
  <1>4. Unopened /\ Announced /\ Placed
    BY DEF Transfer!Init, Unopened, Announced, Placed, CopyThere, InVault,
           Publishing
  <1> QED BY <1>2, <1>3, <1>4 DEF TransferInv

\* The volumes of a plan that is not refused keep the temporary file away from
\* the source and the vault.
LEMMA VolumesApart ==
  ASSUME Transfer!TransferAssumption, Sealed, Transfer!Refusal = None
  PROVE  /\ transferPlan["temporary"] \notin {transferPlan["source"],
                                              transferPlan["vault"]}
         /\ transferAt[transferPlan["source"]] = Transfer!Original
  <1>1. Enabled /\ approval = "this"
          /\ transferAt[transferPlan["source"]] = Transfer!Original
               /\ Transfer!ValidateVolumes
    BY DEF Transfer!Refusal, Transfer!TransferAssumption
  <1>2. Transfer!DirOf(transferPlan["destination"])
          = Transfer!DirOf(transferPlan["temporary"])
    BY DEF Sealed, Transfer!Seal
  <1> QED BY <1>1, <1>2, Zenon DEF Transfer!ValidateVolumes

LEMMA CheckStep ==
  ASSUME Transfer!TransferAssumption, TransferInv, Transfer!Check PROVE TransferInv'
  <1> USE DEF TransferInv
  <1>1. transferPc = "check"
          /\ UNCHANGED <<transferPlan, approval, volume, transferTouched,
                         transferChanges, transferAt, transferJournal, print,
                         alive>>
    BY DEF Transfer!Check, Transfer!Refuse, Transfer!Constant
  <1>2. CASE Transfer!Refusal # None /\ Transfer!Refuse(Transfer!Refusal)
    <2>1. Transfer!Refusal \in {"disabled", "mismatch", "exists", "changed",
                                "volume"}
      BY <1>2 DEF Transfer!Refusal
    <2>2. transferPc' = "ended" /\ outcome' = Transfer!Refusal
      BY <1>2 DEF Transfer!Refuse, Transfer!End
    <2>3. Sealed' BY <1>1, <2>1, <2>2 DEF Sealed, Outcomes
    <2>4. Transfer!NothingIsLost' BY <1>1 DEF Transfer!NothingIsLost
    <2>5. Unopened' /\ Announced' /\ Placed'
      BY <1>1, <2>1, <2>2
      DEF Unopened, Announced, Placed, CopyThere, InVault, Publishing
    <2> QED BY <2>3, <2>4, <2>5
  <1>3. CASE Transfer!Refusal = None /\ Transfer!Goto("approve")
    <2>1. transferPc' = "approve" /\ outcome' = outcome BY <1>3 DEF Transfer!Goto
    <2>2. transferPlan["temporary"] \notin {transferPlan["source"],
                                            transferPlan["vault"]}
      BY <1>3, VolumesApart
    <2>3. Sealed' BY <1>1, <2>1, <2>2 DEF Sealed
    <2>4. Transfer!NothingIsLost' BY <1>1 DEF Transfer!NothingIsLost
    <2>5. Unopened' /\ Announced' /\ Placed'
      BY <1>1, <2>1
      DEF Unopened, Announced, Placed, CopyThere, InVault, Publishing, Sealed
    <2> QED BY <2>3, <2>4, <2>5
  <1> QED BY <1>2, <1>3 DEF Transfer!Check

\* An event more on the journal.
Noted(event) ==
  /\ UNCHANGED <<transferPlan, approval, volume, transferTouched, transferChanges,
                 transferAt, print, alive>>
  /\ \/ transferJournal' = Append(transferJournal, event) /\ transferPc' # "ended"
          /\ UNCHANGED outcome
     \/ transferJournal' \in {transferJournal, Append(transferJournal, event)}
          /\ transferPc' = "ended" /\ outcome' = "journal"

LEMMA NotedStep ==
  ASSUME Transfer!TransferAssumption, TransferInv, NEW event \in Recorded,
         Noted(event),
         transferPc \notin {"check", "ended"}, transferPc' \notin {"check",
                                                                   "publish",
                                                                   "restore"},
         transferPc' \in {"read", "create"} => event = "intent_copy",
         transferPc' = "vault" => event = "intent_vault",
         transferPc' \in Publishing => event = "intent_publish",
         transferPc' \in CopyThere => transferPc \in CopyThere,
         transferPc' \in InVault => transferPc \in InVault,
         transferPc' \in {"published", "finish", "answer"} =>
           transferPc \in {"published", "finish", "answer"}
  PROVE  TransferInv'
  <1> USE DEF TransferInv
  <1>1. UNCHANGED <<transferPlan, approval, volume, transferTouched,
                    transferChanges, transferAt, print, alive>>
    BY DEF Noted
  <1>2. transferJournal \in Seq(Recorded)
          /\ transferJournal' \in {transferJournal, Append(transferJournal, event)}
    BY DEF Noted, Sealed
  <1>3. outcome = "none" BY DEF Sealed
  <1>4. Transfer!NothingIsLost' BY <1>1 DEF Transfer!NothingIsLost
  <1>5. CASE transferJournal' = Append(transferJournal, event)
               /\ transferPc' # "ended" /\ UNCHANGED outcome
    <2>2. transferJournal' # <<>> /\ Transfer!Last(transferJournal') = event
      BY <1>2, <1>5 DEF Transfer!Last
    <2>3. Sealed' BY <1>1, <1>2, <1>3, <1>5 DEF Sealed
    <2>4. Unopened' BY <1>3, <1>5 DEF Unopened
    <2>5. Announced' BY <2>2 DEF Announced
    <2>6. Placed' BY <1>1, <1>3, <1>5 DEF Placed
    <2> QED BY <1>4, <2>3, <2>4, <2>5, <2>6
  <1>6. CASE transferPc' = "ended" /\ outcome' = "journal"
    <2>1. transferJournal' \in Seq(Recorded) BY <1>2
    <2>2. outcome' \in Outcomes BY <1>6 DEF Outcomes
    <2>3. Sealed' BY <1>1, <1>6, <2>1, <2>2 DEF Sealed
    <2>4. Unopened' /\ Announced' /\ Placed'
      BY <1>6 DEF Unopened, Announced, Placed, CopyThere, InVault, Publishing
    <2> QED BY <1>4, <2>3, <2>4
  <1> QED BY <1>5, <1>6 DEF Noted

LEMMA JournalledStep ==
  ASSUME Transfer!TransferAssumption, TransferInv, Transfer!Journalled
  PROVE  TransferInv'
  <1>1. PICK event \in Recorded :
          /\ Noted(event)
          /\ transferPc \notin {"check", "ended"}
               /\ transferPc' \notin {"check", "publish", "restore"}
          /\ transferPc' \in {"read", "create"} => event = "intent_copy"
          /\ transferPc' = "vault" => event = "intent_vault"
          /\ transferPc' \in Publishing => event = "intent_publish"
          /\ transferPc' \in CopyThere => transferPc \in CopyThere
          /\ transferPc' \in InVault => transferPc \in InVault
          /\ transferPc' \in {"published", "finish", "answer"} =>
               transferPc \in {"published", "finish", "answer"}
    <2> USE DEF Recorded, Transfer!AppendEvent, Transfer!Constant, Transfer!Goto,
                Transfer!End, Noted, CopyThere, InVault, Publishing
    <2>1. CASE transferPc = "approve"
                 /\ Transfer!AppendEvent("approved", "intent_copy")
      BY <2>1
    <2>2. CASE transferPc = "intent_copy"
                 /\ Transfer!AppendEvent("intent_copy", "read")
      BY <2>2
    <2>3. CASE transferPc = "copied"
                 /\ Transfer!AppendEvent("applied_copy", "intent_vault")
      BY <2>3
    <2>4. CASE transferPc = "intent_vault"
                 /\ Transfer!AppendEvent("intent_vault", "vault")
      BY <2>4
    <2>5. CASE transferPc = "vaulted"
                 /\ Transfer!AppendEvent("applied_vault", "intent_publish")
      BY <2>5
    <2>6. CASE transferPc = "intent_publish"
                 /\ Transfer!AppendEvent("intent_publish", "fingerprint")
      BY <2>6
    <2>7. CASE transferPc = "published"
                 /\ Transfer!AppendEvent("applied_publish", "finish")
      BY <2>7
    <2>8. CASE transferPc = "finish" /\ Transfer!AppendEvent("finished", "answer")
      BY <2>8
    <2> QED
      BY <2>1, <2>2, <2>3, <2>4, <2>5, <2>6, <2>7, <2>8, Zenon
      DEF Transfer!Journalled
  <1> QED BY <1>1, NotedStep

\* The steps that only look, and those that end the work.
LEMMA LookStep ==
  ASSUME Transfer!TransferAssumption, TransferInv,
         UNCHANGED <<transferPlan, approval, volume, transferTouched,
           transferChanges, transferAt, transferJournal, alive>>,
         print' \in Transfer!Files \cup {None}, transferPc # "ended",
         \/ /\ transferPc' = "ended" /\ print' = print
            /\ outcome' \in {"changed", "unverified", "platform", "crashed"}
         \/ /\ UNCHANGED outcome
            /\ \/ transferPc = "read" /\ transferPc' = "create" /\ print' = print
               \/ transferPc = "reread" /\ transferPc' = "copied" /\ print' = print
               \/ transferPc = "inspect_vault" /\ transferPc' = "restore"
                    /\ print' = transferAt[transferPlan["vault"]]
               \/ /\ transferPc = "fingerprint" /\ transferPc' = "publish"
                  /\ print' \in Transfer!Files /\ print'.content = "approved"
         \/ transferPc = "fingerprint" /\ transferPc' = "ended"
              /\ outcome' = "unverified"
  PROVE  TransferInv'
  <1> USE DEF TransferInv
  <1>1. Sealed' BY DEF Sealed, Outcomes
  <1>2. Transfer!NothingIsLost' BY DEF Transfer!NothingIsLost
  <1>3. Unopened' /\ Announced'
    BY DEF Unopened, Announced, Publishing, Sealed
  <1>4. Placed' BY DEF Placed, Sealed, CopyThere, InVault
  <1> QED BY <1>1, <1>2, <1>3, <1>4

LEMMA ReadSourceStep ==
  ASSUME Transfer!TransferAssumption, TransferInv, Transfer!ReadSource
  PROVE  TransferInv'
  <1>1. print \in Transfer!Files \cup {None} BY DEF TransferInv, Sealed
  <1> QED
    BY <1>1, LookStep
    DEF Transfer!ReadSource, Transfer!Constant, Transfer!Goto, Transfer!End

LEMMA RereadTemporaryStep ==
  ASSUME Transfer!TransferAssumption, TransferInv, Transfer!RereadTemporary
  PROVE  TransferInv'
  <1>1. print \in Transfer!Files \cup {None} BY DEF TransferInv, Sealed
  <1> QED
    BY <1>1, LookStep
    DEF Transfer!RereadTemporary, Transfer!Constant, Transfer!Goto, Transfer!End

LEMMA InspectVaultStep ==
  ASSUME Transfer!TransferAssumption, TransferInv, Transfer!InspectVault
  PROVE  TransferInv'
  <1>1. print \in Transfer!Files \cup {None}
          /\ transferAt[transferPlan["vault"]] \in Transfer!Files \cup {None}
    BY DEF TransferInv, Sealed, Transfer!Roles
  <1> QED
    BY <1>1, LookStep
    DEF Transfer!InspectVault, Transfer!Constant, Transfer!Goto, Transfer!End

LEMMA FingerprintTemporaryStep ==
  ASSUME Transfer!TransferAssumption, TransferInv, Transfer!FingerprintTemporary
  PROVE  TransferInv'
  <1>1. print \in Transfer!Files \cup {None}
          /\ transferAt[transferPlan["temporary"]] \in Transfer!Files \cup {None}
    BY DEF TransferInv, Sealed, Transfer!Roles
  <1> QED
    BY <1>1, LookStep
    DEF Transfer!FingerprintTemporary, Transfer!VerifiedCopy, Transfer!Constant,
        Transfer!Goto, Transfer!End

LEMMA CrashStep ==
  ASSUME Transfer!TransferAssumption, TransferInv, Transfer!Crash
  PROVE  TransferInv'
  <1>1. print \in Transfer!Files \cup {None} BY DEF TransferInv, Sealed
  <1> QED
    BY <1>1, LookStep
    DEF Transfer!Crash, Transfer!Constant, Transfer!Refuse, Transfer!End

LEMMA AnswerStep ==
  ASSUME Transfer!TransferAssumption, TransferInv, Transfer!Answer
  PROVE  TransferInv'
  <1> USE DEF TransferInv
  <1>1. /\ UNCHANGED <<transferPlan, approval, volume, transferTouched,
                       transferChanges, transferAt, transferJournal, print, alive>>
        /\ transferPc = "answer" /\ transferPc' = "ended" /\ outcome' = "receipt"
    BY DEF Transfer!Answer, Transfer!Constant, Transfer!End
  <1>2. Sealed' BY <1>1 DEF Sealed, Outcomes
  <1>3. Transfer!NothingIsLost' BY <1>1 DEF Transfer!NothingIsLost
  <1>4. Unopened' /\ Announced' BY <1>1 DEF Unopened, Announced, Publishing
  <1>5. Placed' BY <1>1 DEF Placed, CopyThere, InVault
  <1> QED BY <1>2, <1>3, <1>4, <1>5

\* A rename that does not replace loses no file.
LEMMA MoveKeeps ==
  ASSUME Transfer!TransferAssumption,
         transferAt \in [Transfer!Paths -> Transfer!Files \cup {None}],
         NEW from \in Transfer!Paths, NEW to \in Transfer!Paths,
         transferAt[to] = None, Transfer!Moved(from, to), Transfer!NothingIsLost,
         UNCHANGED alive
  PROVE  /\ transferAt' \in [Transfer!Paths -> Transfer!Files \cup {None}]
         /\ transferAt'[to] = transferAt[from]
         /\ \A p \in Transfer!Paths \ {from, to} : transferAt'[p] = transferAt[p]
         /\ Transfer!NothingIsLost'
  <1>1. transferAt' \in [Transfer!Paths -> Transfer!Files \cup {None}]
    BY DEF Transfer!Moved
  <1>2. transferAt'[to] = transferAt[from] BY DEF Transfer!Moved
  <1>3. \A p \in Transfer!Paths \ {from, to} : transferAt'[p] = transferAt[p]
    BY DEF Transfer!Moved
  <1>4. ASSUME NEW id \in alive
        PROVE  \E p \in Transfer!Paths : transferAt'[p] # None
                 /\ transferAt'[p].id = id
    <2>1. PICK p \in Transfer!Paths : transferAt[p] # None /\ transferAt[p].id = id
      BY DEF Transfer!NothingIsLost
    <2>2. CASE p = from BY <1>2, <2>1, <2>2
    <2>3. CASE p # from BY <1>3, <2>1, <2>3
    <2> QED BY <2>2, <2>3
  <1> QED BY <1>1, <1>2, <1>3, <1>4 DEF Transfer!NothingIsLost

LEMMA CreateTemporaryStep ==
  ASSUME Transfer!TransferAssumption, TransferInv, Transfer!CreateTemporary
  PROVE  TransferInv'
  <1> USE DEF TransferInv
  <1>1. /\ UNCHANGED <<transferPlan, approval, volume, transferTouched,
                       transferChanges, transferJournal, print>>
        /\ transferPc = "create" /\ outcome = "none"
        /\ transferPlan["temporary"] \in Transfer!Paths
    BY DEF Transfer!CreateTemporary, Transfer!Constant, Sealed, Transfer!Roles
  <1>2. Transfer!File("copy", "approved") \in Transfer!Files
          /\ Transfer!File("copy", "torn") \in Transfer!Files
    BY DEF Transfer!File, Transfer!Files
  <1>3. CASE Transfer!End("io") /\ UNCHANGED <<transferAt, alive>>
    <2>1. print' \in Transfer!Files \cup {None} BY <1>1 DEF Sealed
    <2>2. transferPc' = "ended" /\ outcome' = "io" BY <1>3 DEF Transfer!End
    <2>3. Sealed' BY <1>1, <1>3, <2>2 DEF Sealed, Outcomes
    <2>4. Transfer!NothingIsLost' BY <1>3 DEF Transfer!NothingIsLost
    <2>5. Unopened' /\ Announced' /\ Placed'
      BY <2>2 DEF Unopened, Announced, Placed, CopyThere, InVault, Publishing
    <2> QED BY <2>3, <2>4, <2>5
  <1>4. ASSUME NEW made \in {Transfer!File("copy", "approved"),
               Transfer!File("copy", "torn")},
               Transfer!MayCreate(transferPlan["temporary"]),
               transferAt' = [transferAt EXCEPT ![transferPlan["temporary"]]
                 = made],
               alive' = alive \cup {"copy"}
        PROVE  /\ transferAt' \in [Transfer!Paths -> Transfer!Files \cup {None}]
                    /\ Transfer!NothingIsLost'
               /\ transferAt'[transferPlan["temporary"]] = made
    <2>1. transferAt \in [Transfer!Paths -> Transfer!Files \cup {None}]
            /\ made \in Transfer!Files
      BY <1>2 DEF Sealed
    <2>2. transferAt' \in [Transfer!Paths -> Transfer!Files \cup {None}]
            /\ transferAt'[transferPlan["temporary"]] = made
      BY <1>1, <1>4, <2>1
    <2>3. made # None /\ made.id = "copy"
      BY <2>1 DEF Transfer!TransferAssumption, Transfer!File
    <2>4. ASSUME NEW id \in alive'
          PROVE  \E p \in Transfer!Paths : transferAt'[p] # None
                   /\ transferAt'[p].id = id
      <3>1. CASE id = "copy" BY <1>1, <2>2, <2>3, <3>1
      <3>2. CASE id \in alive
        <4>1. PICK p \in Transfer!Paths : transferAt[p] # None
                     /\ transferAt[p].id = id
          BY <3>2 DEF Transfer!NothingIsLost
        <4>2. p # transferPlan["temporary"] BY <4>1, <1>4 DEF Transfer!MayCreate
        <4>3. transferAt'[p] = transferAt[p] BY <1>4, <2>1, <4>2
        <4> QED BY <4>1, <4>3
      <3> QED BY <1>4, <3>1, <3>2
    <2> QED BY <2>2, <2>4 DEF Transfer!NothingIsLost
  <1>5. CASE /\ Transfer!MayCreate(transferPlan["temporary"])
                  /\ alive' = alive \cup {"copy"}
             /\ transferAt' = [transferAt EXCEPT ![transferPlan["temporary"]]
                  = Transfer!File("copy", "approved")]
             /\ Transfer!Goto("reread")
    <2>1. /\ transferAt' \in [Transfer!Paths -> Transfer!Files \cup {None}]
               /\ Transfer!NothingIsLost'
          /\ transferAt'[transferPlan["temporary"]] = Transfer!File("copy",
                                                                    "approved")
      BY <1>4, <1>5
    <2>2. transferPc' = "reread" /\ outcome' = outcome BY <1>5 DEF Transfer!Goto
    <2>3. Sealed' BY <1>1, <1>5, <2>1, <2>2 DEF Sealed
    <2>4. Unopened' /\ Announced' BY <1>1, <2>2 DEF Unopened, Announced, Publishing
    <2>5. Placed' BY <1>1, <2>1, <2>2 DEF Placed, InVault
    <2> QED BY <2>1, <2>3, <2>4, <2>5
  <1>6. CASE /\ Transfer!MayCreate(transferPlan["temporary"])
                  /\ alive' = alive \cup {"copy"}
             /\ transferAt' = [transferAt EXCEPT ![transferPlan["temporary"]]
                  = Transfer!File("copy", "torn")]
             /\ Transfer!End("io")
    <2>1. transferAt' \in [Transfer!Paths -> Transfer!Files \cup {None}]
            /\ Transfer!NothingIsLost'
      BY <1>4, <1>6
    <2>2. transferPc' = "ended" /\ outcome' = "io" BY <1>6 DEF Transfer!End
    <2>3. Sealed' BY <1>1, <1>6, <2>1, <2>2 DEF Sealed, Outcomes
    <2>4. Unopened' /\ Announced' /\ Placed'
      BY <2>2 DEF Unopened, Announced, Placed, CopyThere, InVault, Publishing
    <2> QED BY <2>1, <2>3, <2>4
  <1> QED BY <1>3, <1>5, <1>6 DEF Transfer!CreateTemporary

\* The two outcomes of a rename, with what is kept whichever it is.
LEMMA RenameKeeps ==
  ASSUME Transfer!TransferAssumption, TransferInv, NEW from \in Transfer!Paths,
         NEW to \in Transfer!Paths,
         NEW expected,
         \/ Transfer!MayRename(from, to, expected) /\ Transfer!Moved(from, to)
         \/ UNCHANGED transferAt,
         UNCHANGED alive
  PROVE  /\ transferAt' \in [Transfer!Paths -> Transfer!Files \cup {None}]
              /\ Transfer!NothingIsLost'
         /\ \A p \in Transfer!Paths \ {from, to} : transferAt'[p] = transferAt[p]
  <1> USE DEF TransferInv
  <1>1. transferAt \in [Transfer!Paths -> Transfer!Files \cup {None}] BY DEF Sealed
  <1>2. CASE Transfer!MayRename(from, to, expected) /\ Transfer!Moved(from, to)
    BY <1>1, <1>2, MoveKeeps DEF Transfer!MayRename
  <1>3. CASE UNCHANGED transferAt BY <1>1, <1>3 DEF Transfer!NothingIsLost
  <1> QED BY <1>2, <1>3

LEMMA VaultSourceStep ==
  ASSUME Transfer!TransferAssumption, TransferInv, Transfer!VaultSource
  PROVE  TransferInv'
  <1> USE DEF TransferInv
  <1>1. /\ UNCHANGED <<transferPlan, approval, volume, transferTouched,
                       transferChanges, transferJournal, print, alive>>
        /\ transferPc = "vault" /\ outcome = "none"
        /\ transferPlan["source"] \in Transfer!Paths
             /\ transferPlan["vault"] \in Transfer!Paths
                  /\ transferPlan["temporary"] \in Transfer!Paths
        /\ transferPlan["temporary"] \notin {transferPlan["source"],
                                             transferPlan["vault"]}
    BY DEF Transfer!VaultSource, Transfer!Constant, Sealed, Transfer!Roles
  <1>2. \/ /\ Transfer!MayRename(transferPlan["source"], transferPlan["vault"],
                                 Transfer!Original)
           /\ Transfer!Moved(transferPlan["source"], transferPlan["vault"])
           /\ Transfer!Goto("vaulted") \/ Transfer!End("platform")
        \/ UNCHANGED transferAt /\ Transfer!End("platform")
    BY DEF Transfer!VaultSource, Transfer!RenameNoReplace
  <1>3. /\ transferAt' \in [Transfer!Paths -> Transfer!Files \cup {None}]
             /\ Transfer!NothingIsLost'
        /\ transferAt'[transferPlan["temporary"]]
             = transferAt[transferPlan["temporary"]]
    BY <1>1, <1>2, RenameKeeps
  <1>4. CASE transferPc' = "ended" /\ outcome' = "platform"
    <2>1. Sealed' BY <1>1, <1>3, <1>4 DEF Sealed, Outcomes
    <2>2. Unopened' /\ Announced' /\ Placed'
      BY <1>4 DEF Unopened, Announced, Placed, CopyThere, InVault, Publishing
    <2> QED BY <1>3, <2>1, <2>2
  <1>5. CASE /\ transferPc' = "vaulted" /\ outcome' = outcome
             /\ Transfer!MayRename(transferPlan["source"], transferPlan["vault"],
                                   Transfer!Original)
             /\ Transfer!Moved(transferPlan["source"], transferPlan["vault"])
    <2>1. Sealed' BY <1>1, <1>3, <1>5 DEF Sealed
    <2>2. transferAt'[transferPlan["vault"]] = Transfer!Original
      <3>1. transferAt \in [Transfer!Paths -> Transfer!Files \cup {None}]
        BY DEF Sealed
      <3>2. transferAt'[transferPlan["vault"]] = transferAt[transferPlan["source"]]
        BY <1>1, <1>5, <3>1, MoveKeeps DEF Transfer!MayRename
      <3> QED BY <1>5, <3>2 DEF Transfer!MayRename
    <2>3. Unopened' /\ Announced' BY <1>1, <1>5 DEF Unopened, Announced, Publishing
    <2>4. Placed' BY <1>1, <1>3, <1>5, <2>2 DEF Placed, CopyThere
    <2> QED BY <1>3, <2>1, <2>3, <2>4
  <1> QED BY <1>2, <1>4, <1>5 DEF Transfer!Goto, Transfer!End

LEMMA PublishStep ==
  ASSUME Transfer!TransferAssumption, TransferInv, Transfer!Publish
  PROVE  TransferInv'
  <1> USE DEF TransferInv
  <1>1. /\ UNCHANGED <<transferPlan, approval, volume, transferTouched,
                       transferChanges, transferJournal, print, alive>>
        /\ transferPc = "publish" /\ outcome = "none"
        /\ transferPlan["vault"] \in Transfer!Paths
             /\ transferPlan["temporary"] \in Transfer!Paths
        /\ transferPlan["destination"] \in Transfer!Paths
        /\ transferPlan["vault"] \notin {transferPlan["temporary"],
                                         transferPlan["destination"]}
    BY DEF Transfer!Publish, Transfer!Constant, Sealed, Transfer!Roles,
           Transfer!Seal
  <1>2. \/ /\ Transfer!MayRename(transferPlan["temporary"],
                                 transferPlan["destination"], print)
           /\ Transfer!Moved(transferPlan["temporary"], transferPlan["destination"])
           /\ Transfer!Goto("published") \/ Transfer!Goto("inspect_vault")
        \/ UNCHANGED transferAt /\ Transfer!Goto("inspect_vault")
    BY DEF Transfer!Publish, Transfer!RenameNoReplace
  <1>3. /\ transferAt' \in [Transfer!Paths -> Transfer!Files \cup {None}]
             /\ Transfer!NothingIsLost'
        /\ transferAt'[transferPlan["vault"]] = transferAt[transferPlan["vault"]]
    BY <1>1, <1>2, RenameKeeps
  <1>4. UNCHANGED outcome /\ transferPc' \in {"published", "inspect_vault"}
    BY <1>2 DEF Transfer!Goto
  <1>5. Sealed' BY <1>1, <1>3, <1>4 DEF Sealed
  <1>6. Unopened' /\ Announced' BY <1>1, <1>4 DEF Unopened, Announced, Publishing
  <1>7. transferAt[transferPlan["vault"]] = Transfer!Original
          \/ transferPlan["vault"] \in transferTouched
    BY <1>1 DEF Placed, InVault
  <1>8. transferPc' = "published" =>
          \/ transferAt'[transferPlan["destination"]] = Transfer!File("copy",
                                                                      "approved")
          \/ {transferPlan["destination"],
              transferPlan["temporary"]} \cap transferTouched # {}
    <2> SUFFICES ASSUME transferPc' = "published" PROVE
          \/ transferAt'[transferPlan["destination"]] = Transfer!File("copy",
                                                                      "approved")
          \/ {transferPlan["destination"],
              transferPlan["temporary"]} \cap transferTouched # {}
      OBVIOUS
    <2>1. /\ Transfer!MayRename(transferPlan["temporary"],
                                transferPlan["destination"], print)
          /\ Transfer!Moved(transferPlan["temporary"], transferPlan["destination"])
      BY <1>2 DEF Transfer!Goto
    <2>2. transferAt \in [Transfer!Paths -> Transfer!Files \cup {None}]
      BY DEF Sealed
    <2>3. transferAt'[transferPlan["destination"]]
            = transferAt[transferPlan["temporary"]]
      BY <1>1, <2>1, <2>2, MoveKeeps DEF Transfer!MayRename
    <2>4. transferAt[transferPlan["temporary"]] = Transfer!File("copy", "approved")
            \/ transferPlan["temporary"] \in transferTouched
      BY <1>1 DEF Placed, CopyThere
    <2> QED BY <2>3, <2>4
  <1>9. Placed' BY <1>1, <1>3, <1>4, <1>7, <1>8 DEF Placed, CopyThere
  <1> QED BY <1>3, <1>5, <1>6, <1>9

LEMMA RestoreStep ==
  ASSUME Transfer!TransferAssumption, TransferInv, Transfer!Restore
  PROVE  TransferInv'
  <1> USE DEF TransferInv
  <1>1. /\ UNCHANGED <<transferPlan, approval, volume, transferTouched,
                       transferChanges, transferJournal, print, alive>>
        /\ transferPc = "restore" /\ transferPlan["vault"] \in Transfer!Paths
             /\ transferPlan["source"] \in Transfer!Paths
    BY DEF Transfer!Restore, Transfer!Constant, Sealed, Transfer!Roles
  <1>2. \/ /\ Transfer!MayRename(transferPlan["vault"], transferPlan["source"],
                                 print)
           /\ Transfer!Moved(transferPlan["vault"], transferPlan["source"])
           /\ Transfer!End("restored") \/ Transfer!NotRestored
        \/ UNCHANGED transferAt /\ Transfer!NotRestored
    BY DEF Transfer!Restore, Transfer!RenameNoReplace
  <1>3. transferAt' \in [Transfer!Paths -> Transfer!Files \cup {None}]
          /\ Transfer!NothingIsLost'
    BY <1>1, <1>2, RenameKeeps
  <1>4. transferPc' = "ended" /\ outcome' \in {"restored", "manual_review"}
    BY <1>2 DEF Transfer!End, Transfer!NotRestored
  <1>5. Sealed' BY <1>1, <1>3, <1>4 DEF Sealed, Outcomes
  <1>6. Unopened' /\ Announced' BY <1>4 DEF Unopened, Announced, Publishing
  <1>7. outcome' = "restored" =>
          transferAt'[transferPlan["source"]] = Transfer!Original
            \/ transferPlan["vault"] \in transferTouched
    <2> SUFFICES ASSUME outcome' = "restored"
                 PROVE  transferAt'[transferPlan["source"]] = Transfer!Original
                          \/ transferPlan["vault"] \in transferTouched
      OBVIOUS
    <2>1. Transfer!MayRename(transferPlan["vault"], transferPlan["source"], print)
            /\ Transfer!Moved(transferPlan["vault"], transferPlan["source"])
      BY <1>2 DEF Transfer!End, Transfer!NotRestored
    <2>2. transferAt \in [Transfer!Paths -> Transfer!Files \cup {None}]
      BY DEF Sealed
    <2>3. transferAt'[transferPlan["source"]] = print
      BY <1>1, <2>1, <2>2, MoveKeeps DEF Transfer!MayRename
    <2>4. print = Transfer!Original \/ transferPlan["vault"] \in transferTouched
      BY <1>1 DEF Placed
    <2> QED BY <2>3, <2>4
  <1>8. Placed' BY <1>1, <1>4, <1>7 DEF Placed, CopyThere, InVault
  <1> QED BY <1>3, <1>5, <1>6, <1>8

\* A step of the other process, which is remembered by the path it changed.
LEMMA MeddleStep ==
  ASSUME Transfer!TransferAssumption, TransferInv, NEW p \in Transfer!Paths,
         NEW f \in Transfer!Files \cup {None},
         Transfer!Meddle(p, f), Transfer!NothingIsLost',
         alive' \subseteq alive \cup {"other"}
  PROVE  TransferInv'
  <1> USE DEF TransferInv
  <1>1. /\ UNCHANGED <<transferPlan, approval, volume, transferJournal, transferPc,
                       print, outcome>>
        /\ transferAt' \in [Transfer!Paths -> Transfer!Files \cup {None}]
        /\ \A q \in Transfer!Paths \ {p} : transferAt'[q] = transferAt[q]
        /\ transferTouched' = transferTouched \cup {p}
             /\ transferChanges' \in 0..TransferChanges
    BY DEF Transfer!Meddle, Sealed, Transfer!TransferAssumption
  <1>2. \A r \in Transfer!Roles : transferPlan[r] \in Transfer!Paths
                         /\ (transferAt'[transferPlan[r]]
                              = transferAt[transferPlan[r]]
                                \/ transferPlan[r] \in transferTouched')
    BY <1>1 DEF Sealed
  <1>3. /\ {"source", "destination", "vault", "temporary"} \subseteq Transfer!Roles
        /\ transferTouched \subseteq transferTouched'
    BY <1>1 DEF Transfer!Roles
  <1>4. Sealed' BY <1>1 DEF Sealed
  <1>5. Unopened' /\ Announced' BY <1>1 DEF Unopened, Announced
  <1>6. Placed' BY <1>1, <1>2, <1>3 DEF Placed
  <1> QED BY <1>4, <1>5, <1>6

LEMMA OtherProcessStep ==
  ASSUME Transfer!TransferAssumption, TransferInv, Transfer!Other
  PROVE  TransferInv'
  <1> USE DEF TransferInv
  <1>1. PICK p \in Transfer!Paths : Transfer!Put(p) \/ Transfer!Edit(p)
               \/ Transfer!Take(p)
    BY DEF Transfer!Other
  <1>2. transferAt \in [Transfer!Paths -> Transfer!Files \cup {None}] BY DEF Sealed
  <1>3. CASE Transfer!Put(p)
    <2>1. Transfer!File("other", "foreign") \in Transfer!Files
      BY DEF Transfer!File, Transfer!Files
    <2>2. Transfer!Meddle(p, Transfer!File("other", "foreign"))
            /\ transferAt[p] = None /\ alive' = alive \cup {"other"}
      BY <1>3 DEF Transfer!Put
    <2>3. Transfer!File("other", "foreign") # None
            /\ Transfer!File("other", "foreign").id = "other"
      BY <2>1 DEF Transfer!TransferAssumption, Transfer!File
    <2>4. transferAt'[p] = Transfer!File("other", "foreign")
            /\ \A q \in Transfer!Paths \ {p} : transferAt'[q] = transferAt[q]
      BY <1>2, <2>2 DEF Transfer!Meddle
    <2>5. Transfer!NothingIsLost' BY <2>2, <2>3, <2>4 DEF Transfer!NothingIsLost
    <2> QED BY <2>1, <2>2, <2>5, MeddleStep
  <1>4. CASE Transfer!Edit(p)
    <2> DEFINE edited == [transferAt[p] EXCEPT !.content = "edited"]
    <2>1. transferAt[p] \in Transfer!Files BY <1>2, <1>4 DEF Transfer!Edit
    <2>2. edited \in Transfer!Files /\ edited.id = transferAt[p].id
      BY <2>1 DEF Transfer!Files
    <2>3. Transfer!Meddle(p, edited) /\ UNCHANGED alive BY <1>4 DEF Transfer!Edit
    <2>4. transferAt'[p] = edited
            /\ \A q \in Transfer!Paths \ {p} : transferAt'[q] = transferAt[q]
      BY <1>2, <2>3 DEF Transfer!Meddle
    <2>5. edited # None BY <2>2 DEF Transfer!TransferAssumption
    <2> HIDE DEF edited
    <2>6. Transfer!NothingIsLost'
      BY <2>2, <2>3, <2>4, <2>5 DEF Transfer!NothingIsLost
    <2> QED BY <2>2, <2>3, <2>6, MeddleStep
  <1>5. CASE Transfer!Take(p)
    <2>1. Transfer!Meddle(p, None) /\ alive' = alive \ {transferAt[p].id}
      BY <1>5 DEF Transfer!Take
    <2>2. \A q \in Transfer!Paths \ {p} : transferAt'[q] = transferAt[q]
      BY <1>2, <2>1 DEF Transfer!Meddle
    <2>3. Transfer!NothingIsLost' BY <2>1, <2>2 DEF Transfer!NothingIsLost
    <2> QED BY <2>1, <2>3, MeddleStep
  <1> QED BY <1>1, <1>3, <1>4, <1>5

LEMMA TransferStep ==
  ASSUME Transfer!TransferAssumption, TransferInv, [Transfer!Next]_(Transfer!vars)
  PROVE  TransferInv'
  <1>1. CASE Transfer!Execute
    BY <1>1, CheckStep, JournalledStep, ReadSourceStep, CreateTemporaryStep,
       RereadTemporaryStep, VaultSourceStep, FingerprintTemporaryStep, PublishStep,
       InspectVaultStep, RestoreStep, AnswerStep DEF Transfer!Execute
  <1>2. CASE Transfer!Crash BY <1>2, CrashStep
  <1>3. CASE Transfer!Other BY <1>3, OtherProcessStep
  <1>4. CASE UNCHANGED Transfer!vars
    BY <1>4
    DEF Transfer!vars, TransferInv, Sealed, Transfer!NothingIsLost, Unopened,
        Announced, Placed
  <1> QED BY <1>1, <1>2, <1>3, <1>4 DEF Transfer!Next

\* What the run checks follows from the invariant,
LEMMA TransferTells ==
  ASSUME TransferInv
  PROVE  Transfer!TypeOK /\ Transfer!NothingIsLost /\ Transfer!AnswerIsTrue
  <1>1. Transfer!TypeOK BY DEF TransferInv, Sealed, Outcomes, Transfer!TypeOK
  <1>2. Transfer!AnswerIsTrue
    BY DEF TransferInv, Transfer!AnswerIsTrue, Unopened, Placed
  <1> QED BY <1>1, <1>2 DEF TransferInv

\* and a step of the transfer has the intent it acts on before it.
LEMMA TransferAnnounces ==
  ASSUME Transfer!TransferAssumption, TransferInv, [Transfer!Next]_(Transfer!vars)
  PROVE  Transfer!EveryMoveIsAnnouncedStep /\ Transfer!PublishedIsApprovedStep
  <1> SUFFICES ASSUME transferAt' # transferAt, transferChanges' = transferChanges
               PROVE  Transfer!EveryMoveIsAnnouncedStep
                        /\ Transfer!PublishedIsApprovedStep
    BY DEF Transfer!EveryMoveIsAnnouncedStep, Transfer!PublishedIsApprovedStep
  <1> USE DEF TransferInv
  <1>1. Transfer!CreateTemporary \/ Transfer!VaultSource \/ Transfer!Publish
          \/ Transfer!Restore
    <2>1. ~ UNCHANGED Transfer!vars BY DEF Transfer!vars
    <2>2. ~ Transfer!Other
      BY DEF Transfer!Other, Transfer!Put, Transfer!Edit, Transfer!Take,
             Transfer!Meddle, Sealed
    <2>3. ~ Transfer!Crash BY DEF Transfer!Crash, Transfer!Refuse
    <2>4. ~ (Transfer!Check \/ Transfer!Journalled \/ Transfer!ReadSource)
      BY DEF Transfer!Check, Transfer!Refuse, Transfer!Journalled,
             Transfer!AppendEvent, Transfer!ReadSource
    <2>5. ~ (Transfer!RereadTemporary \/ Transfer!FingerprintTemporary)
      BY DEF Transfer!RereadTemporary, Transfer!FingerprintTemporary
    <2>6. ~ (Transfer!InspectVault \/ Transfer!Answer)
      BY DEF Transfer!InspectVault, Transfer!Answer
    <2> QED
      BY <2>1, <2>2, <2>3, <2>4, <2>5, <2>6 DEF Transfer!Next, Transfer!Execute
  <1>2. transferPc \in {"create", "vault", "publish", "restore"}
    BY <1>1
    DEF Transfer!CreateTemporary, Transfer!VaultSource, Transfer!Publish,
        Transfer!Restore
  <1>3. Transfer!EveryMoveIsAnnouncedStep
    BY <1>2 DEF Transfer!EveryMoveIsAnnouncedStep, Announced, Publishing
  <1>4. Transfer!PublishedIsApprovedStep
    <2> SUFFICES ASSUME transferPc = "publish"
                 PROVE  /\ transferAt'[transferPlan["destination"]].content
                             = "approved"
                        /\ transferAt[transferPlan["vault"]] = Transfer!Original
                             \/ transferPlan["vault"] \in transferTouched
      BY DEF Transfer!PublishedIsApprovedStep
    <2>1. Transfer!MayRename(transferPlan["temporary"],
                             transferPlan["destination"], print)
            /\ Transfer!Moved(transferPlan["temporary"],
                              transferPlan["destination"])
      BY <1>1
      DEF Transfer!CreateTemporary, Transfer!VaultSource, Transfer!Publish,
          Transfer!Restore, Transfer!RenameNoReplace
    <2>2. /\ transferAt \in [Transfer!Paths -> Transfer!Files \cup {None}]
          /\ transferPlan["temporary"] \in Transfer!Paths
               /\ transferPlan["destination"] \in Transfer!Paths
      BY DEF Sealed, Transfer!Roles
    <2>3. transferAt'[transferPlan["destination"]] = print
      BY <2>1, <2>2 DEF Transfer!MayRename, Transfer!Moved
    <2> QED BY <2>3 DEF Placed, InVault
  <1> QED BY <1>3, <1>4

\* At every step of a transfer between volumes the files are where its program
\* counter and its journal say, unless the other process was there, and no file
\* is lost (CrossVolumeTransferService::execute).
THEOREM TransferHolds ==
  ASSUME Transfer!TransferAssumption PROVE Transfer!Spec => []TransferInv
  <1>1. Transfer!Init => TransferInv BY TransferInit
  <1>2. TransferInv /\ [Transfer!Next]_(Transfer!vars) => TransferInv'
    BY TransferStep
  <1> QED BY <1>1, <1>2, PTL DEF Transfer!Spec

-----------------------------------------------------------------------------
(* The session with the worker: the inductive invariant.  The wire        *)
(* delivers any frame at any time, so everything rests on what a frame of  *)
(* the current session can say: an operation is sent under one number, the *)
(* worker has spent a number for each operation it attempted, and an       *)
(* answer about an operation is given when nothing can change it.          *)

OpenFrame ==
  [kind : {"open"}, session : Nat, expires : Nat, eligible : SUBSET Ops]

RequestFrame ==
  [kind : {"request"}, session : Nat, op : Protocol!Bindings, seq : Nat, sent : Nat,
   expires : Nat, genuine : {TRUE}]

OpenedFrame == [kind : {"opened"}, session : Nat]

ResponseFrame ==
  [kind : {"response"}, session : Nat, op : Protocol!Bindings, seq : Nat,
   outcome : Protocol!Outcomes, sent : Nat, expires : Nat]

PreparedFrame == [kind : {"request"}, op : Protocol!Bindings, seq : Nat]

ClientType ==
  client \in
    [pc : {"opening", "ready", "waiting", "poisoned", "closing", "closed"},
     session : 0..MaxSessions, seq : Nat, expect : Nat,
     attempted : SUBSET Protocol!Bindings,
     prepared : PreparedFrame \cup {Protocol!NoFrame},
     sent : RequestFrame \cup {Protocol!NoFrame}, expires : Nat,
     eligible : SUBSET Ops]

WorkerType ==
  worker \in
    [pc : {"hello", "serving", "handling", "answering", "exited"},
     session : Nat, seq : Nat, seen : SUBSET Nat,
     attempted : SUBSET Protocol!Bindings,
     applied : SUBSET Ops, remaining : SUBSET Ops,
     frame : RequestFrame \cup {Protocol!NoFrame}, tries : 0..Attempts,
     outcome : Protocol!Outcomes \cup {"none"}]

SessionTypes ==
  /\ now \in 0..MaxTime
  /\ ClientType /\ WorkerType /\ worker.session = client.session
  /\ requests \subseteq OpenFrame \cup RequestFrame
  /\ replies \subseteq OpenedFrame \cup ResponseFrame
  /\ done \subseteq Ops
  /\ count \in [Protocol!Bindings -> Nat]
  /\ results \in [Protocol!Bindings -> Protocol!Outcomes \cup {"none"}]

\* The frames of the current session.
Handshakes == {f \in requests : f.kind = "open" /\ f.session = client.session}

Sends == {f \in requests : f.kind = "request" /\ f.session = client.session}

Replied == {r \in replies : r.kind = "response" /\ r.session = client.session}

SessionFrames ==
  /\ \A f \in requests \cup replies : f.session <= client.session
  /\ \A f \in Handshakes : f.eligible = client.eligible
       /\ f.expires = client.expires
  /\ worker.pc # "exited" => Handshakes # {} /\ client.session > 0

\* An operation is sent once, under a number the client has passed.
Numbered ==
  /\ \A f \in Sends : f.op \in client.attempted
  /\ \A f, g \in Sends : f.op = g.op => f.seq = g.seq
  /\ client.prepared # Protocol!NoFrame =>
       /\ client.prepared.op \in client.attempted
       /\ \A f \in Sends : f.op # client.prepared.op
       /\ client.expect <= client.prepared.seq /\ client.prepared.seq < client.seq
  /\ client.pc = "waiting" =>
       /\ client.prepared = Protocol!NoFrame /\ client.sent \in Sends
       /\ client.expect <= client.sent.seq /\ client.sent.seq < client.seq
  /\ client.expect <= client.seq

\* The worker has an operation in hand, or is done with operation b.
InHandler == worker.pc \in {"handling", "answering"}

Rested(b) == b \in worker.attempted /\ (InHandler => worker.frame.op # b)

InHand ==
  /\ InHandler =>
       /\ worker.frame \in Sends
       /\ worker.frame.op \in worker.attempted
       /\ worker.frame.op[2] = Protocol!Mode(client.session)
       /\ Protocol!InOrder(worker.frame.op)
  /\ worker.pc = "handling" => count[worker.frame.op] = 0
  /\ worker.pc = "answering" =>
       /\ worker.outcome \in {"success", "not_applied", "recovery"}
       /\ worker.outcome = "success" =>
            /\ count[worker.frame.op] = 1
            /\ worker.frame.op[1] \in done <=> worker.frame.op[2] = "forward"
       /\ worker.outcome = "not_applied" => count[worker.frame.op] = 0

\* What was performed was attempted, and what was attempted was sent under a
\* number the worker has reached; a worker that waits has passed it.
Spent ==
  /\ \A b \in Protocol!Bindings : count[b] > 0 =>
       b \in worker.attempted /\ b[2] = Protocol!Mode(client.session)
  /\ \A b \in worker.attempted : \E f \in Sends :
       /\ f.op = b /\ f.seq <= worker.seq
       /\ worker.pc = "serving" => f.seq < worker.seq
  /\ worker.pc = "hello" => worker.attempted = {}

\* An answer is final when it is given, but for the refusal of an operation
\* that was sent under an earlier number: nobody waits for that one.
SentBefore(r) == \E f \in Sends : f.op = r.op /\ f.seq < r.seq

AnsweredTrue ==
  \A r \in Replied :
    /\ r.outcome = "success" => count[r.op] = 1 /\ Rested(r.op)
    /\ r.outcome = "not_applied" => count[r.op] = 0 /\ Rested(r.op)
    /\ r.outcome = "refused" =>
         worker.pc = "exited" /\ (count[r.op] = 0 \/ SentBefore(r))

Told ==
  \A b \in Protocol!Bindings :
    /\ results[b] = "success" => count[b] = 1 /\ Rested(b)
    /\ results[b] = "not_applied" => count[b] = 0 /\ Rested(b)
    /\ results[b] = "refused" => worker.pc = "exited" /\ count[b] = 0

\* The lists of the worker bound what is on disk.
OrderOnDisk ==
  /\ Protocol!DependenciesOnDisk
  /\ Protocol!Mode(client.session) = "forward" => worker.applied \subseteq done
  /\ Protocol!Mode(client.session) = "rollback" /\ client.session > 0 =>
       /\ done \subseteq client.eligible
       /\ worker.pc \notin {"hello", "exited"} => done \subseteq worker.remaining

SessionInv ==
  SessionTypes /\ SessionFrames /\ Numbered /\ InHand /\ Spent /\ AnsweredTrue
    /\ Told /\ OrderOnDisk

-----------------------------------------------------------------------------
(* The session: steps that only move a program counter                     *)

FramesKept == UNCHANGED <<requests, replies, done, count, results>>

\* The client's steps leave to show only what they do to the client's side of
\* the invariant.
LEMMA ClientWorks ==
  ASSUME SessionInv, UNCHANGED <<now, worker, replies, done, count>>,
         client'.session = client.session, client'.eligible = client.eligible,
         Sends \subseteq Sends', SessionTypes', SessionFrames', Numbered', Told'
  PROVE  SessionInv'
  <1>1. Replied' = Replied
    BY DEF Replied
  <1>2. InHand' /\ Spent'
    BY DEF SessionInv, InHand, Spent, InHandler, Protocol!InOrder, Protocol!Mode
  <1>3. AnsweredTrue'
    BY <1>1 DEF SessionInv, AnsweredTrue, SentBefore, Rested, InHandler
  <1>4. OrderOnDisk'
    BY DEF SessionInv, OrderOnDisk, Protocol!DependenciesOnDisk, Protocol!Mode
  <1>5. QED BY <1>2, <1>3, <1>4 DEF SessionInv

\* The client changes its mind about the session: a failed or ended wait, an
\* opened session, its end.
LEMMA ClientMoves ==
  ASSUME SessionInv, NEW next \in {"ready", "poisoned", "closing", "closed"},
         client' = [client EXCEPT !.pc = next],
         UNCHANGED <<now, worker>>, FramesKept
  PROVE  SessionInv'
  <1>1. /\ ClientType'
        /\ client'.pc = next /\ client'.session = client.session
        /\ client'.seq = client.seq /\ client'.expect = client.expect
        /\ client'.attempted = client.attempted
        /\ client'.prepared = client.prepared
        /\ client'.expires = client.expires /\ client'.eligible = client.eligible
    BY DEF SessionInv, SessionTypes, ClientType
  <1>2. Handshakes' = Handshakes /\ Sends' = Sends
    BY <1>1 DEF FramesKept, Handshakes, Sends
  <1>3. SessionTypes'
    BY <1>1 DEF SessionInv, SessionTypes, WorkerType, FramesKept
  <1>4. SessionFrames' /\ Numbered'
    BY <1>1, <1>2 DEF SessionInv, SessionFrames, Numbered, FramesKept
  <1>5. Told'
    BY DEF SessionInv, Told, Rested, InHandler, FramesKept
  <1>6. QED BY <1>1, <1>2, <1>3, <1>4, <1>5, ClientWorks DEF FramesKept

\* The child ends: killed, crashed, or after a frame it refuses.
LEMMA WorkerExits ==
  ASSUME SessionInv, worker' = [worker EXCEPT !.pc = "exited"],
         UNCHANGED <<now, client>>, FramesKept
  PROVE  SessionInv'
  <1>1. /\ WorkerType'
        /\ worker'.pc = "exited" /\ worker'.session = worker.session
        /\ worker'.seq = worker.seq /\ worker'.attempted = worker.attempted
        /\ worker'.applied = worker.applied /\ worker'.frame = worker.frame
    BY DEF SessionInv, SessionTypes, WorkerType
  <1>2. Handshakes' = Handshakes /\ Sends' = Sends /\ Replied' = Replied
    BY DEF FramesKept, Handshakes, Sends, Replied
  <1>3. SessionTypes'
    BY <1>1 DEF SessionInv, SessionTypes, ClientType, FramesKept
  <1>4. SessionFrames' /\ Numbered'
    BY <1>1, <1>2 DEF SessionInv, SessionFrames, Numbered, FramesKept
  <1>5. InHand' /\ Spent'
    BY <1>1, <1>2 DEF SessionInv, InHand, Spent, InHandler, FramesKept
  <1>6. AnsweredTrue' /\ Told'
    BY <1>1, <1>2
    DEF SessionInv, AnsweredTrue, Told, SentBefore, Rested, InHandler, FramesKept
  <1>7. OrderOnDisk'
    BY <1>1 DEF SessionInv, OrderOnDisk, Protocol!DependenciesOnDisk, FramesKept
  <1>8. QED BY <1>3, <1>4, <1>5, <1>6, <1>7 DEF SessionInv

\* Time passes; no part of the invariant but the clock's type reads the clock.
LEMMA ClockTicks ==
  ASSUME SessionInv, Protocol!Tick, MaxTime \in Nat
  PROVE  SessionInv'
  <1>1. Handshakes' = Handshakes /\ Sends' = Sends /\ Replied' = Replied
    BY DEF Protocol!Tick, Handshakes, Sends, Replied
  <1>2. SessionTypes'
    BY DEF SessionInv, SessionTypes, ClientType, WorkerType, Protocol!Tick
  <1>3. SessionFrames' /\ Numbered'
    BY <1>1 DEF SessionInv, SessionFrames, Numbered, Protocol!Tick
  <1>4. InHand' /\ Spent'
    BY <1>1
    DEF SessionInv, InHand, Spent, InHandler, Protocol!Tick, Protocol!InOrder
  <1>5. AnsweredTrue' /\ Told'
    BY <1>1
    DEF SessionInv, AnsweredTrue, Told, SentBefore, Rested, InHandler, Protocol!Tick
  <1>6. OrderOnDisk'
    BY DEF SessionInv, OrderOnDisk, Protocol!DependenciesOnDisk, Protocol!Tick
  <1>7. QED BY <1>2, <1>3, <1>4, <1>5, <1>6 DEF SessionInv

-----------------------------------------------------------------------------
(* The session: the coordinator's side                                     *)

\* A session is new: no frame on the wire names it.
LEMMA SessionOpens ==
  ASSUME SessionInv, Protocol!ProtocolAssumption, Protocol!OpenSession
  PROVE  SessionInv'
  <1> DEFINE s == client.session + 1
             eligible == IF Protocol!Mode(s) = "rollback" THEN done ELSE {}
             open == [kind |-> "open", session |-> s, expires |-> now + SessionLife,
                      eligible |-> eligible]
  <1>1. /\ client' = [Protocol!NoClient EXCEPT !.pc = "opening", !.session = s,
                                      !.expires = open.expires,
                                      !.eligible = eligible]
        /\ worker' = [Protocol!NoWorker EXCEPT !.pc = "hello", !.session = s]
        /\ requests' = requests \cup {open}
        /\ count' = [b \in Protocol!Bindings |-> 0]
        /\ results' = [b \in Protocol!Bindings |-> "none"]
        /\ UNCHANGED <<now, replies, done>>
        /\ client.session < MaxSessions
    BY DEF Protocol!OpenSession
  <1>2. /\ s \in 1..MaxSessions /\ now + SessionLife \in Nat
        /\ eligible \subseteq Ops
        /\ {0, 1} \subseteq Nat /\ 0 \in 0..Attempts
    BY <1>1 DEF SessionInv, SessionTypes, ClientType, Protocol!ProtocolAssumption
  <1> HIDE DEF s, eligible
  <1>3. /\ client' = [pc |-> "opening", session |-> s, seq |-> 1, expect |-> 1,
                      attempted |-> {}, prepared |-> Protocol!NoFrame,
                      sent |-> Protocol!NoFrame,
                      expires |-> now + SessionLife, eligible |-> eligible]
        /\ worker' = [pc |-> "hello", session |-> s, seq |-> 1, seen |-> {},
                      attempted |-> {}, applied |-> {}, remaining |-> {},
                      frame |-> Protocol!NoFrame, tries |-> 0, outcome |-> "none"]
    BY <1>1 DEF Protocol!NoClient, Protocol!NoWorker
  <1>4. open \in OpenFrame /\ open.session = s
    BY <1>2 DEF OpenFrame
  <1>5. SessionTypes'
    <2>1. ClientType' /\ WorkerType' /\ worker'.session = client'.session
      BY <1>2, <1>3 DEF ClientType, WorkerType
    <2>2. requests' \subseteq OpenFrame \cup RequestFrame
      BY <1>1, <1>4 DEF SessionInv, SessionTypes
    <2>3. /\ count' \in [Protocol!Bindings -> Nat]
          /\ results' \in [Protocol!Bindings -> Protocol!Outcomes \cup {"none"}]
      BY <1>1, <1>2
    <2>4. QED
      BY <1>1, <2>1, <2>2, <2>3 DEF SessionInv, SessionTypes
  <1>6. \A f \in requests \cup replies : f.session # s /\ f.session <= s
    <2>1. requests \cup replies
            \subseteq OpenFrame \cup RequestFrame \cup OpenedFrame
              \cup ResponseFrame
      BY DEF SessionInv, SessionTypes
    <2>2. \A f \in requests \cup replies : f.session \in Nat
            /\ f.session <= client.session
      BY <2>1
      DEF SessionInv, SessionFrames, OpenFrame, RequestFrame, OpenedFrame,
          ResponseFrame
    <2>3. s = client.session + 1 /\ client.session \in Nat
      BY DEF s, SessionInv, SessionTypes, ClientType
    <2>4. QED BY <2>2, <2>3
  <1>7. Handshakes' = {open} /\ Sends' = {} /\ Replied' = {}
    BY <1>1, <1>3, <1>4, <1>6 DEF Handshakes, Sends, Replied
  <1>8. SessionFrames'
    BY <1>1, <1>2, <1>3, <1>4, <1>6, <1>7 DEF SessionFrames
  <1>9. /\ client'.pc = "opening" /\ client'.seq = 1 /\ client'.expect = 1
        /\ client'.prepared = Protocol!NoFrame /\ client'.session = s
        /\ client'.eligible = eligible
        /\ worker'.pc = "hello" /\ worker'.attempted = {} /\ worker'.applied = {}
        /\ \A b \in Protocol!Bindings : count'[b] = 0
    <2>1. \A b \in Protocol!Bindings : count'[b] = 0
      BY <1>1
    <2>2. QED BY <1>3, <2>1
  <1>12. Numbered'
    BY <1>7, <1>9 DEF Numbered
  <1>13. InHand' /\ Spent' /\ AnsweredTrue'
    BY <1>7, <1>9 DEF InHand, Spent, AnsweredTrue, InHandler
  <1>10. Told'
    BY <1>1 DEF Told
  <1>11. OrderOnDisk'
    <2>1. Protocol!Mode(s) = "rollback" => eligible = done
      BY DEF eligible
    <2>2. Protocol!DependenciesOnDisk'
      BY <1>1 DEF SessionInv, OrderOnDisk, Protocol!DependenciesOnDisk
    <2>3. QED
      BY <1>1, <1>9, <2>1, <2>2 DEF OrderOnDisk, Protocol!Mode
  <1>14. QED BY <1>5, <1>8, <1>10, <1>11, <1>12, <1>13 DEF SessionInv

\* A prepared operation has a number above all that were sent.
LEMMA Prepares ==
  ASSUME SessionInv, NEW b \in Protocol!Bindings, Protocol!PrepareOperation(b)
  PROVE  SessionInv'
  <1>1. /\ client.pc = "ready" /\ client.prepared = Protocol!NoFrame
        /\ b \notin client.attempted
        /\ UNCHANGED <<now, worker, requests, replies, done, count, results>>
    BY DEF Protocol!PrepareOperation
  <1>2. /\ ClientType' /\ client'.pc = client.pc /\ client'.session = client.session
        /\ client'.expect = client.expect
        /\ client'.attempted = client.attempted \cup {b}
        /\ client'.expires = client.expires /\ client'.eligible = client.eligible
        /\ \/ client'.seq = client.seq /\ client'.prepared = Protocol!NoFrame
           \/ /\ client'.seq = client.seq + 1
              /\ client'.prepared.op = b /\ client'.prepared.seq = client.seq
    <2> DEFINE p == [kind |-> "request", op |-> b, seq |-> client.seq]
    <2>1. p \in PreparedFrame /\ p.op = b /\ p.seq = client.seq
      BY DEF PreparedFrame, SessionInv, SessionTypes, ClientType
    <2>2. \/ client' = [client EXCEPT !.attempted = @ \cup {b}, !.seq = @,
                        !.prepared = Protocol!NoFrame]
          \/ client' = [client EXCEPT !.attempted = @ \cup {b}, !.seq = @ + 1,
                        !.prepared = p]
      BY DEF Protocol!PrepareOperation
    <2> HIDE DEF p
    <2>3. client \in [pc : {"opening", "ready", "waiting", "poisoned", "closing",
                            "closed"},
                     session : 0..MaxSessions, seq : Nat, expect : Nat,
                     attempted : SUBSET Protocol!Bindings,
                     prepared : PreparedFrame \cup {Protocol!NoFrame},
                     sent : RequestFrame \cup {Protocol!NoFrame}, expires : Nat,
                     eligible : SUBSET Ops]
          /\ client.seq \in Nat /\ client.seq + 1 \in Nat
      BY DEF SessionInv, SessionTypes, ClientType
    <2>4. CASE client' = [client EXCEPT !.attempted = @ \cup {b}, !.seq = @,
                          !.prepared = Protocol!NoFrame]
      BY <2>3, <2>4 DEF ClientType
    <2>5. CASE client' = [client EXCEPT !.attempted = @ \cup {b}, !.seq = @ + 1,
                          !.prepared = p]
      BY <2>1, <2>3, <2>5 DEF ClientType
    <2>6. QED BY <2>2, <2>4, <2>5
  <1>3. client.seq \in Nat /\ client.expect \in Nat
    BY DEF SessionInv, SessionTypes, ClientType
  <1>4. Handshakes' = Handshakes /\ Sends' = Sends
    BY <1>1, <1>2 DEF Handshakes, Sends
  <1>5. SessionTypes'
    BY <1>1, <1>2 DEF SessionInv, SessionTypes, WorkerType
  <1>6. SessionFrames' /\ Numbered'
    BY <1>1, <1>2, <1>3, <1>4 DEF SessionInv, SessionFrames, Numbered
  <1>7. Told'
    BY <1>1 DEF SessionInv, Told, Rested, InHandler
  <1>8. QED BY <1>1, <1>2, <1>4, <1>5, <1>6, <1>7, ClientWorks

\* A request is sent with the number it was prepared with, or given up.
LEMMA Dispatches ==
  ASSUME SessionInv, Protocol!ProtocolAssumption, Protocol!DispatchPrepared
  PROVE  SessionInv'
  <1>1. /\ client.pc = "ready" /\ client.prepared # Protocol!NoFrame
        /\ UNCHANGED <<now, worker, replies, done, count, results>>
    BY DEF Protocol!DispatchPrepared
  <1>2. Told'
    BY <1>1 DEF SessionInv, Told, Rested, InHandler
  <1>3. CASE ~Protocol!CanSign(client.expires)
    <2>1. client' = [client EXCEPT !.prepared = Protocol!NoFrame]
            /\ requests' = requests
      BY <1>3 DEF Protocol!DispatchPrepared
    <2>2. /\ ClientType' /\ client'.pc = client.pc
          /\ client'.session = client.session
          /\ client'.seq = client.seq /\ client'.expect = client.expect
          /\ client'.attempted = client.attempted
          /\ client'.prepared = Protocol!NoFrame
          /\ client'.expires = client.expires /\ client'.eligible = client.eligible
      BY <2>1 DEF SessionInv, SessionTypes, ClientType
    <2>3. Handshakes' = Handshakes /\ Sends' = Sends
      BY <2>1, <2>2 DEF Handshakes, Sends
    <2>4. SessionTypes'
      BY <1>1, <2>1, <2>2 DEF SessionInv, SessionTypes, WorkerType
    <2>5. SessionFrames' /\ Numbered'
      BY <1>1, <2>1, <2>2, <2>3 DEF SessionInv, SessionFrames, Numbered
    <2>6. QED BY <1>1, <1>2, <2>2, <2>3, <2>4, <2>5, ClientWorks
  <1>4. CASE Protocol!CanSign(client.expires)
    <2> DEFINE f == [kind |-> "request", session |-> client.session,
                     op |-> client.prepared.op, seq |-> client.prepared.seq,
                     sent |-> now,
                     expires |-> Protocol!MessageExpiry(client.expires),
                     genuine |-> TRUE]
    <2>1. /\ requests' = requests \cup {f}
          /\ client' = [client EXCEPT !.pc = "waiting", !.sent = f,
                        !.prepared = Protocol!NoFrame]
      BY <1>4 DEF Protocol!DispatchPrepared
    <2>2. /\ client.prepared \in PreparedFrame
          /\ client.session \in Nat /\ client.session \in 0..MaxSessions
          /\ now \in Nat /\ Protocol!MessageExpiry(client.expires) \in Nat
      BY <1>1
      DEF SessionInv, SessionTypes, ClientType, Protocol!ProtocolAssumption,
          Protocol!MessageExpiry, Protocol!Earlier
    <2>3. /\ f \in RequestFrame /\ f.session = client.session /\ f.kind = "request"
          /\ f.op = client.prepared.op /\ f.seq = client.prepared.seq
      BY <2>2 DEF RequestFrame, PreparedFrame
    <2> HIDE DEF f
    <2>4. /\ ClientType' /\ client'.pc = "waiting"
          /\ client'.session = client.session
          /\ client'.seq = client.seq /\ client'.expect = client.expect
          /\ client'.attempted = client.attempted
          /\ client'.prepared = Protocol!NoFrame
          /\ client'.sent = f
          /\ client'.expires = client.expires /\ client'.eligible = client.eligible
      BY <2>1, <2>3 DEF SessionInv, SessionTypes, ClientType
    <2>5. Handshakes' = Handshakes /\ Sends' = Sends \cup {f}
      BY <2>1, <2>3, <2>4 DEF Handshakes, Sends
    <2>6. SessionTypes'
      BY <1>1, <2>1, <2>3, <2>4 DEF SessionInv, SessionTypes, WorkerType
    <2>7. SessionFrames'
      BY <1>1, <2>1, <2>2, <2>3, <2>4, <2>5 DEF SessionInv, SessionFrames
    <2>8. Numbered'
      <3>1. /\ \A g \in Sends : g.op \in client.attempted /\ g.op # f.op
            /\ f.op \in client.attempted
            /\ client.expect <= f.seq /\ f.seq < client.seq
        BY <1>1, <2>3 DEF SessionInv, Numbered
      <3>2. client.expect <= client.seq
        BY DEF SessionInv, Numbered
      <3>3. \A g, h \in Sends \cup {f} : g.op = h.op => g.seq = h.seq
        BY <3>1 DEF SessionInv, Numbered
      <3>4. QED BY <2>4, <2>5, <3>1, <3>2, <3>3 DEF Numbered
    <2>9. QED BY <1>1, <1>2, <2>4, <2>5, <2>6, <2>7, <2>8, ClientWorks
  <1>5. QED BY <1>3, <1>4

\* An accepted answer is about the operation the client waits for, and was
\* given when nothing could change it any more: a refusal of an operation sent
\* under an earlier number answers an earlier request.
LEMMA Receives ==
  ASSUME SessionInv, Protocol!ReceiveResponse
  PROVE  SessionInv'
  <1>1. /\ client.pc = "waiting"
        /\ UNCHANGED <<now, worker, requests, replies, done, count>>
    BY DEF Protocol!ReceiveResponse
  <1>2. PICK r \in replies :
          IF Protocol!Answers(r, client.expect)
          THEN
            /\ client' = [client EXCEPT !.pc = "ready", !.expect = @ + 1,
                          !.sent = Protocol!NoFrame]
               /\ results' = [results EXCEPT ![r.op] = r.outcome]
          ELSE client' = [client EXCEPT !.pc = "poisoned"] /\ UNCHANGED results
    BY DEF Protocol!ReceiveResponse
  <1>3. CASE ~Protocol!Answers(r, client.expect)
    BY <1>1, <1>2, <1>3, ClientMoves DEF FramesKept
  <1>4. CASE Protocol!Answers(r, client.expect)
    <2>1. /\ client' = [client EXCEPT !.pc = "ready", !.expect = @ + 1,
                        !.sent = Protocol!NoFrame]
          /\ results' = [results EXCEPT ![r.op] = r.outcome]
      BY <1>2, <1>4
    <2>2. /\ ClientType' /\ client'.pc = "ready" /\ client'.session = client.session
          /\ client'.seq = client.seq /\ client'.expect = client.expect + 1
          /\ client'.attempted = client.attempted
          /\ client'.prepared = client.prepared
          /\ client'.expires = client.expires /\ client'.eligible = client.eligible
      <3>1. client.expect \in Nat /\ client.expect + 1 \in Nat
        BY DEF SessionInv, SessionTypes, ClientType
      <3>2. QED
        BY <2>1, <3>1 DEF SessionInv, SessionTypes, ClientType
    <2>3. Handshakes' = Handshakes /\ Sends' = Sends
      BY <1>1, <2>2 DEF Handshakes, Sends
    <2>4. /\ r \in Replied /\ r.op = client.sent.op /\ r.seq = client.expect
          /\ r.op \in Protocol!Bindings /\ r.outcome \in Protocol!Outcomes
      BY <1>4
      DEF Protocol!Answers, Replied, SessionInv, SessionTypes, OpenedFrame,
          ResponseFrame
    <2>5. SessionTypes'
      BY <1>1, <2>1, <2>2, <2>4 DEF SessionInv, SessionTypes, WorkerType
    <2>6. SessionFrames'
      BY <1>1, <2>2, <2>3 DEF SessionInv, SessionFrames
    <2>7. Numbered'
      <3>1. /\ client.prepared = Protocol!NoFrame
            /\ client.expect <= client.sent.seq
            /\ client.sent.seq < client.seq /\ client.sent \in Sends
        BY <1>1 DEF SessionInv, Numbered
      <3>2. /\ client.expect \in Nat /\ client.seq \in Nat
            /\ client.sent.seq \in Nat
        BY <3>1
        DEF SessionInv, SessionTypes, ClientType, Sends, OpenFrame, RequestFrame
      <3>3. client'.expect <= client'.seq
        BY <2>2, <3>1, <3>2
      <3>4. QED BY <2>2, <2>3, <3>1, <3>3 DEF SessionInv, Numbered
    <2>8. ~SentBefore(r)
      <3>1. ASSUME NEW f \in Sends, f.op = r.op, f.seq < r.seq PROVE FALSE
        <4>1. client.sent \in Sends /\ client.expect <= client.sent.seq
          BY <1>1 DEF SessionInv, Numbered
        <4>2. f.seq = client.sent.seq
          BY <2>4, <3>1, <4>1 DEF SessionInv, Numbered
        <4>3. f.seq \in Nat /\ client.expect \in Nat
          BY DEF SessionInv, SessionTypes, ClientType, Sends, OpenFrame,
                 RequestFrame
        <4>4. QED BY <2>4, <3>1, <4>1, <4>2, <4>3
      <3>2. QED BY <3>1 DEF SentBefore
    <2>9. Told'
      <3>1. ASSUME NEW b \in Protocol!Bindings,
                   b # r.op PROVE results'[b] = results[b]
        BY <2>1, <3>1 DEF SessionInv, SessionTypes
      <3>2. results'[r.op] = r.outcome
        BY <2>1, <2>4 DEF SessionInv, SessionTypes
      <3>3. /\ r.outcome = "success" => count[r.op] = 1 /\ Rested(r.op)
            /\ r.outcome = "not_applied" => count[r.op] = 0 /\ Rested(r.op)
            /\ r.outcome = "refused" => worker.pc = "exited" /\ count[r.op] = 0
        BY <2>4, <2>8 DEF SessionInv, AnsweredTrue
      <3>4. QED
        BY <1>1, <3>1, <3>2, <3>3 DEF SessionInv, Told, Rested, InHandler
    <2>10. QED BY <1>1, <2>2, <2>3, <2>5, <2>6, <2>7, <2>9, ClientWorks
  <1>5. QED BY <1>3, <1>4

-----------------------------------------------------------------------------
(* The session: the worker's side                                          *)

\* The worker's steps leave to show only what they do to the worker's side.
LEMMA WorkerWorks ==
  ASSUME SessionInv, UNCHANGED <<now, client, requests, results>>,
         SessionTypes', worker'.pc = "exited" \/ worker.pc # "exited",
         \A r \in replies' : r \in replies \/ r.session = client.session,
         InHand', Spent', AnsweredTrue', Told', OrderOnDisk'
  PROVE  SessionInv'
  <1>1. Handshakes' = Handshakes /\ Sends' = Sends
    BY DEF Handshakes, Sends
  <1>2. \A f \in requests' \cup replies' : f.session <= client'.session
    <2>1. client.session \in Nat
      BY DEF SessionInv, SessionTypes, ClientType
    <2>2. QED BY <2>1 DEF SessionInv, SessionFrames
  <1>3. SessionFrames'
    BY <1>1, <1>2 DEF SessionInv, SessionFrames
  <1>4. Numbered'
    BY <1>1 DEF SessionInv, Numbered
  <1>5. QED BY <1>3, <1>4 DEF SessionInv

\* The handshake a living worker accepted is the session's own.
LEMMA OpenedHere ==
  ASSUME SessionInv, worker.pc # "exited"
  PROVE  /\ Protocol!Opened.eligible = client.eligible
         /\ Protocol!Opened.expires = client.expires
         /\ client.expires \in Nat
  <1>1. \E f \in requests : f.kind = "open" /\ f.session = worker.session
    BY DEF SessionInv, SessionFrames, Handshakes, SessionTypes
  <1>2. Protocol!Opened \in requests /\ Protocol!Opened.kind = "open"
          /\ Protocol!Opened.session = worker.session
    BY <1>1 DEF Protocol!Opened
  <1>3. Protocol!Opened \in Handshakes
    BY <1>2 DEF SessionInv, SessionTypes, Handshakes
  <1>4. QED BY <1>3 DEF SessionInv, SessionFrames, SessionTypes, ClientType

\* What an answer of the worker looks like.
LEMMA ReplyType ==
  ASSUME SessionInv, Protocol!ProtocolAssumption, worker.pc # "exited",
         NEW b \in Protocol!Bindings,
         NEW answer \in Protocol!Outcomes
  PROVE  /\ Protocol!Reply(b, answer) \in ResponseFrame
         /\ Protocol!Reply(b, answer).kind = "response"
         /\ Protocol!Reply(b, answer).session = client.session
         /\ Protocol!Reply(b, answer).op = b
         /\ Protocol!Reply(b, answer).seq = worker.seq
         /\ Protocol!Reply(b, answer).outcome = answer
  <1>1. /\ now \in Nat /\ Protocol!MessageExpiry(Protocol!Opened.expires) \in Nat
    BY OpenedHere
    DEF SessionInv, SessionTypes, Protocol!ProtocolAssumption,
        Protocol!MessageExpiry, Protocol!Earlier
  <1>2. /\ worker.session = client.session /\ worker.session \in Nat
        /\ worker.seq \in Nat
    BY DEF SessionInv, SessionTypes, WorkerType
  <1>3. QED BY <1>1, <1>2 DEF Protocol!Reply, ResponseFrame

LEMMA Accepts ==
  ASSUME SessionInv, Protocol!AcceptSession
  PROVE  SessionInv'
  <1>1. /\ worker.pc = "hello"
        /\ UNCHANGED <<now, client, requests, done, count, results>>
    BY DEF Protocol!AcceptSession
  <1>2. PICK f \in requests :
          /\ f.kind = "open"
          /\ IF f.session = worker.session /\ now < f.expires
             THEN
               /\ worker' = [worker EXCEPT !.pc = "serving",
                             !.remaining = f.eligible]
                  /\ replies' = replies \cup {[kind |-> "opened",
                                               session |-> worker.session]}
             ELSE worker' = [worker EXCEPT !.pc = "exited"] /\ UNCHANGED replies
    BY DEF Protocol!AcceptSession
  <1>3. CASE ~(f.session = worker.session /\ now < f.expires)
    BY <1>1, <1>2, <1>3, WorkerExits DEF FramesKept
  <1>4. CASE f.session = worker.session /\ now < f.expires
    <2> DEFINE opened == [kind |-> "opened", session |-> worker.session]
    <2>1. /\ worker' = [worker EXCEPT !.pc = "serving", !.remaining = f.eligible]
          /\ replies' = replies \cup {opened}
      BY <1>2, <1>4
    <2>2. f \in Handshakes /\ f.eligible = client.eligible
            /\ f.eligible \subseteq Ops
      BY <1>2, <1>4
      DEF SessionInv, SessionTypes, SessionFrames, Handshakes, ClientType
    <2>3. /\ opened \in OpenedFrame /\ opened.kind = "opened"
          /\ opened.session = client.session
      BY DEF OpenedFrame, SessionInv, SessionTypes, WorkerType
    <2> HIDE DEF opened
    <2>4. /\ WorkerType' /\ worker'.pc = "serving"
          /\ worker'.session = worker.session
          /\ worker'.seq = worker.seq /\ worker'.attempted = worker.attempted
          /\ worker'.applied = worker.applied /\ worker'.remaining = client.eligible
      BY <2>1, <2>2 DEF SessionInv, SessionTypes, WorkerType
    <2>5. SessionTypes'
      BY <1>1, <2>1, <2>3, <2>4 DEF SessionInv, SessionTypes, ClientType
    <2>6. Sends' = Sends /\ Replied' = Replied
      BY <1>1, <2>1, <2>3 DEF Sends, Replied
    <2>7. InHand'
      BY <2>4 DEF InHand, InHandler
    <2>8. Spent'
      BY <1>1, <2>4, <2>6 DEF SessionInv, Spent
    <2>9. AnsweredTrue' /\ Told'
      BY <1>1, <2>4, <2>6
      DEF SessionInv, AnsweredTrue, Told, SentBefore, Rested, InHandler
    <2>10. OrderOnDisk'
      BY <1>1, <2>4
      DEF SessionInv, OrderOnDisk, Protocol!DependenciesOnDisk, Protocol!Mode
    <2>11. QED
      BY <1>1, <2>1, <2>3, <2>5, <2>7, <2>8, <2>9, <2>10, WorkerWorks
  <1>5. QED BY <1>3, <1>4

\* A request that passes every check of serve_session is one the client sent,
\* in order, permitted, and never attempted before.
LEMMA Takes ==
  ASSUME SessionInv, Protocol!ProtocolAssumption, Protocol!TakeRequest
  PROVE  SessionInv'
  <1>1. /\ worker.pc = "serving"
        /\ UNCHANGED <<now, client, requests, done, count, results>>
    BY DEF Protocol!TakeRequest
  <1>2. PICK f \in Protocol!Arriving :
          IF Protocol!Accepted(f)
          THEN
            /\ worker' = [worker EXCEPT !.pc = "handling", !.frame = f, !.tries = 1,
                               !.seen = @ \cup {f.seq}, !.attempted = @ \cup {f.op}]
               /\ UNCHANGED replies
          ELSE /\ worker' = [worker EXCEPT !.pc = "exited"]
               /\ replies' = IF Protocol!CanSign(Protocol!Opened.expires)
                             THEN replies \cup {Protocol!Reply(f.op,
                                                               "refused")} ELSE replies
    BY DEF Protocol!TakeRequest
  <1>3. f.op \in Protocol!Bindings
    BY DEF Protocol!Arriving, SessionInv, SessionTypes, OpenFrame, RequestFrame
  <1>4. CASE Protocol!Accepted(f)
    <2>1. /\ worker' = [worker EXCEPT !.pc = "handling", !.frame = f, !.tries = 1,
                          !.seen = @ \cup {f.seq}, !.attempted = @ \cup {f.op}]
          /\ UNCHANGED replies
      BY <1>2, <1>4
    <2>2. f \in requests /\ f.kind = "request"
      BY <1>4 DEF Protocol!Accepted, Protocol!Verified, Protocol!Arriving
    <2>3. f \in Sends /\ f \in RequestFrame /\ f.seq \in Nat
      BY <1>4, <2>2
      DEF Protocol!Accepted, Protocol!Verified, Sends, SessionInv, SessionTypes,
          OpenFrame, RequestFrame
    <2>4. 1 \in 0..Attempts
      BY DEF Protocol!ProtocolAssumption
    <2>5. /\ WorkerType' /\ worker'.pc = "handling"
          /\ worker'.session = worker.session
          /\ worker'.seq = worker.seq
          /\ worker'.attempted = worker.attempted \cup {f.op}
          /\ worker'.applied = worker.applied
          /\ worker'.remaining = worker.remaining
          /\ worker'.frame = f
      BY <1>3, <2>1, <2>3, <2>4 DEF SessionInv, SessionTypes, WorkerType
    <2>6. SessionTypes'
      BY <1>1, <2>1, <2>5 DEF SessionInv, SessionTypes, ClientType
    <2>7. Sends' = Sends /\ Replied' = Replied
      BY <1>1, <2>1 DEF Sends, Replied
    <2>8. /\ f.op \notin worker.attempted /\ Protocol!InOrder(f.op)
          /\ f.seq = worker.seq
          /\ f.op[2] = Protocol!Mode(client.session)
      BY <1>4
      DEF Protocol!Accepted, Protocol!Verified, Protocol!Permits, SessionInv,
          SessionTypes
    <2>9. count[f.op] = 0
      BY <1>3, <2>8 DEF SessionInv, Spent, SessionTypes
    <2>10. InHand'
      BY <1>1, <2>3, <2>5, <2>7, <2>8, <2>9
      DEF InHand, InHandler, Protocol!InOrder, Protocol!Mode
    <2>11. Spent'
      BY <1>1, <2>3, <2>5, <2>7, <2>8 DEF SessionInv, Spent, Protocol!Mode
    <2>12. AnsweredTrue' /\ Told'
      BY <1>1, <2>5, <2>7, <2>8
      DEF SessionInv, AnsweredTrue, Told, SentBefore, Rested, InHandler
    <2>13. OrderOnDisk'
      BY <1>1, <2>5
      DEF SessionInv, OrderOnDisk, Protocol!DependenciesOnDisk, Protocol!Mode
    <2>14. QED
      BY <1>1, <2>1, <2>6, <2>10, <2>11, <2>12, <2>13, WorkerWorks
  <1>5. CASE ~Protocol!Accepted(f) /\ ~Protocol!CanSign(Protocol!Opened.expires)
    BY <1>1, <1>2, <1>5, WorkerExits DEF FramesKept
  <1>6. CASE ~Protocol!Accepted(f) /\ Protocol!CanSign(Protocol!Opened.expires)
    <2> DEFINE r == Protocol!Reply(f.op, "refused")
    <2>1. /\ worker' = [worker EXCEPT !.pc = "exited"]
          /\ replies' = replies \cup {r}
      BY <1>2, <1>6
    <2>2. /\ r \in ResponseFrame /\ r.kind = "response"
          /\ r.session = client.session
          /\ r.op = f.op /\ r.seq = worker.seq /\ r.outcome = "refused"
      BY <1>1, <1>3, ReplyType DEF Protocol!Outcomes
    <2> HIDE DEF r
    <2>3. /\ WorkerType' /\ worker'.pc = "exited"
          /\ worker'.session = worker.session
          /\ worker'.seq = worker.seq /\ worker'.attempted = worker.attempted
          /\ worker'.applied = worker.applied
      BY <2>1 DEF SessionInv, SessionTypes, WorkerType
    <2>4. SessionTypes'
      BY <1>1, <2>1, <2>2, <2>3 DEF SessionInv, SessionTypes, ClientType
    <2>5. Sends' = Sends /\ Replied' = Replied \cup {r}
      BY <1>1, <2>1, <2>2 DEF Sends, Replied
    <2>6. InHand' /\ Spent'
      BY <1>1, <2>3, <2>5 DEF SessionInv, InHand, Spent, InHandler, Protocol!Mode
    <2>7. count[r.op] = 0 \/ SentBefore(r)
      BY <1>1, <1>3, <2>2 DEF SessionInv, Spent, SentBefore, SessionTypes
    <2>8. AnsweredTrue'
      BY <1>1, <2>2, <2>3, <2>5, <2>7
      DEF SessionInv, AnsweredTrue, SentBefore, Rested, InHandler
    <2>9. Told'
      BY <1>1, <2>3 DEF SessionInv, Told, Rested, InHandler
    <2>10. OrderOnDisk'
      BY <1>1, <2>3
      DEF SessionInv, OrderOnDisk, Protocol!DependenciesOnDisk, Protocol!Mode
    <2>11. QED
      BY <1>1, <2>1, <2>2, <2>3, <2>4, <2>6, <2>8, <2>9, <2>10, WorkerWorks
  <1>7. QED BY <1>4, <1>5, <1>6

\* The handler leaves the operation alone: nothing was performed yet.
LEMMA Declines ==
  ASSUME SessionInv, Protocol!ProtocolAssumption, Protocol!HandlerDeclines
  PROVE  SessionInv'
  <1>1. /\ worker.pc = "handling"
        /\ UNCHANGED <<now, client, requests, replies, done, count, results>>
    BY DEF Protocol!HandlerDeclines
  <1>2. /\ WorkerType' /\ worker'.session = worker.session
        /\ worker'.seq = worker.seq /\ worker'.attempted = worker.attempted
        /\ worker'.applied = worker.applied /\ worker'.remaining = worker.remaining
        /\ worker'.frame = worker.frame
        /\ \/ worker'.pc = "handling"
           \/ worker'.pc = "answering" /\ worker'.outcome = "not_applied"
    <2>1. CASE Protocol!Handled("not_applied")
      BY <2>1
      DEF Protocol!Handled, SessionInv, SessionTypes, WorkerType, Protocol!Outcomes
    <2>2. CASE worker.tries < Attempts /\ worker' = [worker EXCEPT !.tries = @ + 1]
      <3>1. worker.tries \in 0..Attempts /\ worker.tries + 1 \in 0..Attempts
        BY <2>2
        DEF SessionInv, SessionTypes, WorkerType, Protocol!ProtocolAssumption
      <3>2. QED BY <1>1, <2>2, <3>1 DEF SessionInv, SessionTypes, WorkerType
    <2>3. QED BY <2>1, <2>2 DEF Protocol!HandlerDeclines
  <1>3. SessionTypes'
    BY <1>1, <1>2 DEF SessionInv, SessionTypes, ClientType
  <1>4. Sends' = Sends /\ Replied' = Replied
    BY <1>1 DEF Sends, Replied
  <1>5. InHand'
    BY <1>1, <1>2, <1>4
    DEF SessionInv, InHand, InHandler, Protocol!InOrder, Protocol!Mode
  <1>6. Spent'
    BY <1>1, <1>2, <1>4 DEF SessionInv, Spent, Protocol!Mode
  <1>7. AnsweredTrue' /\ Told'
    BY <1>1, <1>2, <1>4
    DEF SessionInv, AnsweredTrue, Told, SentBefore, Rested, InHandler
  <1>8. OrderOnDisk'
    BY <1>1, <1>2
    DEF SessionInv, OrderOnDisk, Protocol!DependenciesOnDisk, Protocol!Mode
  <1>9. QED
    BY <1>1, <1>3, <1>5, <1>6, <1>7, <1>8, WorkerWorks

\* The effect of the operation in hand, in the order of the plan: forward it
\* has what it needs, backward nothing on disk needs it.
LEMMA EffectOrdered ==
  ASSUME SessionInv, worker.pc = "handling", Protocol!Performed(worker.frame.op)
  PROVE  /\ Protocol!DependenciesOnDisk'
         /\ Protocol!Mode(client.session) = "forward" => done \subseteq done'
         /\ Protocol!Mode(client.session) = "rollback" => done' \subseteq done
  <1> DEFINE b == worker.frame.op
  <1>1. b[2] = Protocol!Mode(client.session) /\ Protocol!InOrder(b)
    BY DEF SessionInv, InHand, InHandler
  <1>2. CASE Protocol!Mode(client.session) = "forward"
    <2>1. done' = done \cup {b[1]}
      BY <1>1, <1>2 DEF Protocol!Performed
    <2>2. Deps[b[1]] \subseteq done
      BY <1>1, <1>2 DEF Protocol!InOrder, SessionInv, OrderOnDisk
    <2>3. QED
      BY <1>2, <2>1, <2>2 DEF SessionInv, OrderOnDisk, Protocol!DependenciesOnDisk
  <1>3. CASE Protocol!Mode(client.session) = "rollback"
    <2>1. done' = done \ {b[1]}
      BY <1>1, <1>3 DEF Protocol!Performed
    <2>2. \A d \in done : b[1] \notin Deps[d]
      BY <1>1, <1>3 DEF Protocol!InOrder, SessionInv, OrderOnDisk, SessionFrames
    <2>3. QED
      BY <1>3, <2>1, <2>2 DEF SessionInv, OrderOnDisk, Protocol!DependenciesOnDisk
  <1>4. QED BY <1>2, <1>3 DEF Protocol!Mode

\* The primitive is tried once: it has its effect now, or never.
LEMMA Mutates ==
  ASSUME SessionInv, Protocol!HandlerMutates
  PROVE  SessionInv'
  <1> DEFINE b == worker.frame.op
  <1>1. /\ worker.pc = "handling"
        /\ UNCHANGED <<now, client, requests, replies, results>>
    BY DEF Protocol!HandlerMutates
  <1>2. PICK answer \in {"success", "recovery"} : Protocol!Handled(answer)
    BY DEF Protocol!HandlerMutates
  <1>3. \/ Protocol!Performed(b)
        \/ answer = "recovery" /\ UNCHANGED <<done, count>>
    <2>1. CASE Protocol!Performed(b)
      BY <2>1
    <2>2. CASE Protocol!Handled("recovery") /\ UNCHANGED <<done, count>>
      <3>1. worker'.outcome = "recovery" /\ worker'.outcome = answer
        BY <1>2, <2>2 DEF Protocol!Handled, SessionInv, SessionTypes, WorkerType
      <3>2. QED BY <2>2, <3>1
    <2>3. QED BY <2>1, <2>2 DEF Protocol!HandlerMutates
  <1>4. /\ WorkerType' /\ worker'.pc = "answering"
        /\ worker'.session = worker.session
        /\ worker'.seq = worker.seq /\ worker'.attempted = worker.attempted
        /\ worker'.applied = worker.applied /\ worker'.remaining = worker.remaining
        /\ worker'.frame = worker.frame /\ worker'.outcome = answer
    BY <1>2
    DEF Protocol!Handled, SessionInv, SessionTypes, WorkerType, Protocol!Outcomes
  <1>5. /\ worker.frame \in Sends /\ b \in worker.attempted
        /\ b \in Protocol!Bindings
        /\ b[2] = Protocol!Mode(client.session) /\ Protocol!InOrder(b)
        /\ count[b] = 0
        /\ b[1] \in Ops
    BY <1>1
    DEF SessionInv, InHand, InHandler, SessionTypes, WorkerType, Protocol!Bindings
  <1>6. /\ count' \in [Protocol!Bindings -> Nat]
        /\ \A c \in Protocol!Bindings : c # b => count'[c] = count[c]
        /\ \A c \in Protocol!Bindings : count'[c] > 0 => count[c] > 0 \/ c = b
        /\ answer = "success" => count'[b] = 1
        /\ done' \subseteq Ops
        /\ answer = "success" => (b[1] \in done' <=> b[2] = "forward")
    <2>1. CASE Protocol!Performed(b)
      <3>1. count' = [count EXCEPT ![b] = 1] /\ count \in [Protocol!Bindings -> Nat]
              /\ 1 \in Nat
        BY <1>5, <2>1 DEF Protocol!Performed, SessionInv, SessionTypes
      <3>2. /\ done' \subseteq Ops
            /\ b[1] \in done' <=> b[2] = "forward"
        BY <1>5, <2>1 DEF Protocol!Performed, SessionInv, SessionTypes
      <3>3. QED BY <1>5, <3>1, <3>2
    <2>2. CASE answer = "recovery" /\ UNCHANGED <<done, count>>
      BY <2>2 DEF SessionInv, SessionTypes
    <2>3. QED BY <1>3, <2>1, <2>2
  <1>7. /\ Protocol!DependenciesOnDisk'
        /\ Protocol!Mode(client.session) = "forward" => done \subseteq done'
        /\ Protocol!Mode(client.session) = "rollback" => done' \subseteq done
    <2>1. CASE Protocol!Performed(b)
      BY <1>1, <2>1, EffectOrdered
    <2>2. CASE UNCHANGED <<done, count>>
      BY <2>2 DEF SessionInv, OrderOnDisk, Protocol!DependenciesOnDisk
    <2>3. QED BY <1>3, <2>1, <2>2
  <1>8. SessionTypes'
    BY <1>1, <1>4, <1>6 DEF SessionInv, SessionTypes, ClientType
  <1>9. Sends' = Sends /\ Replied' = Replied
    BY <1>1 DEF Sends, Replied
  <1>10. InHand'
    BY <1>1, <1>4, <1>5, <1>6, <1>9
    DEF InHand, InHandler, Protocol!InOrder, Protocol!Mode
  <1>11. Spent'
    BY <1>1, <1>4, <1>5, <1>6, <1>9 DEF SessionInv, Spent, Protocol!Mode
  <1>12. AnsweredTrue' /\ Told'
    <2>1. \A r \in Replied : r.op \in Protocol!Bindings
      BY DEF Replied, SessionInv, SessionTypes, OpenedFrame, ResponseFrame
    <2>2. \A c \in Protocol!Bindings : Rested(c) => c # b /\ Rested(c)'
      BY <1>1, <1>4 DEF Rested, InHandler
    <2>3. AnsweredTrue'
      BY <1>1, <1>4, <1>6, <1>9, <2>1, <2>2 DEF SessionInv, AnsweredTrue, SentBefore
    <2>4. Told'
      BY <1>1, <1>4, <1>6, <2>2 DEF SessionInv, Told
    <2>5. QED BY <2>3, <2>4
  <1>13. OrderOnDisk'
    BY <1>1, <1>4, <1>7 DEF SessionInv, OrderOnDisk, Protocol!Mode
  <1>14. QED
    BY <1>1, <1>4, <1>8, <1>10, <1>11, <1>12, <1>13, WorkerWorks

\* The answer is sent, and the worker's lists follow what it says.
LEMMA Responds ==
  ASSUME SessionInv, Protocol!ProtocolAssumption, Protocol!SendResponse
  PROVE  SessionInv'
  <1> DEFINE b == worker.frame.op
             ok == worker.outcome = "success"
             r == Protocol!Reply(b, worker.outcome)
  <1>1. /\ worker.pc = "answering"
        /\ UNCHANGED <<now, client, requests, done, count, results>>
    BY DEF Protocol!SendResponse
  <1>2. CASE ~Protocol!CanSign(Protocol!Opened.expires)
    BY <1>1, <1>2, WorkerExits DEF Protocol!SendResponse, FramesKept
  <1>3. CASE Protocol!CanSign(Protocol!Opened.expires)
    <2>1. /\ replies' = replies \cup {r}
          /\ worker' = [worker EXCEPT
               !.pc = IF worker.outcome = "recovery" THEN "exited" ELSE "serving",
               !.seq = @ + 1, !.frame = Protocol!NoFrame, !.tries = 0,
               !.outcome = "none",
               !.applied = IF ok /\ b[2] = "forward" THEN @ \cup {b[1]} ELSE @,
               !.remaining = IF ok /\ b[2] = "rollback" THEN @ \ {b[1]} ELSE @]
      BY <1>3 DEF Protocol!SendResponse
    <2>2. /\ worker.frame \in Sends /\ b \in worker.attempted
          /\ b \in Protocol!Bindings
          /\ b[1] \in Ops /\ b[2] = Protocol!Mode(client.session)
          /\ worker.outcome \in {"success", "not_applied", "recovery"}
          /\ ok => count[b] = 1 /\ (b[1] \in done <=> b[2] = "forward")
          /\ worker.outcome = "not_applied" => count[b] = 0
      BY <1>1
      DEF SessionInv, InHand, InHandler, SessionTypes, WorkerType, Protocol!Bindings
    <2>3. /\ r \in ResponseFrame /\ r.kind = "response"
          /\ r.session = client.session
          /\ r.op = b /\ r.seq = worker.seq /\ r.outcome = worker.outcome
      BY <1>1, <2>2, ReplyType DEF Protocol!Outcomes
    <2> HIDE DEF r
    <2>4. /\ worker.seq \in Nat /\ worker.seq + 1 \in Nat /\ 0 \in 0..Attempts
          /\ worker.applied \subseteq Ops /\ worker.remaining \subseteq Ops
      BY DEF SessionInv, SessionTypes, WorkerType, Protocol!ProtocolAssumption
    <2>5. /\ WorkerType' /\ worker'.session = worker.session
          /\ worker'.pc =
               IF worker.outcome = "recovery" THEN "exited" ELSE "serving"
          /\ worker'.seq = worker.seq + 1 /\ worker'.attempted = worker.attempted
          /\ worker'.applied = IF ok /\ b[2] = "forward"
                               THEN worker.applied \cup {b[1]}
                               ELSE worker.applied
          /\ worker'.remaining = IF ok /\ b[2] = "rollback"
                                 THEN worker.remaining \ {b[1]}
                                 ELSE worker.remaining
      BY ZenonT(40), <2>1, <2>2, <2>4 DEF SessionInv, SessionTypes, WorkerType
    <2>6. SessionTypes'
      BY <1>1, <2>1, <2>3, <2>5 DEF SessionInv, SessionTypes, ClientType
    <2>7. Sends' = Sends /\ Replied' = Replied \cup {r}
      BY <1>1, <2>1, <2>3 DEF Sends, Replied
    <2>8. InHand'
      BY <2>5 DEF InHand, InHandler
    <2>9. Spent'
      <3>1. \A f \in Sends : f.seq \in Nat
        BY DEF Sends, SessionInv, SessionTypes, OpenFrame, RequestFrame
      <3>2. QED
        BY <1>1, <2>4, <2>5, <2>7, <3>1 DEF SessionInv, Spent, Protocol!Mode
    <2>10. \A c \in Protocol!Bindings : Rested(c) \/ c = b => Rested(c)'
      BY <2>2, <2>5 DEF Rested, InHandler
    <2>11. \A q \in Replied : q.op \in Protocol!Bindings /\ q.outcome # "refused"
      BY <1>1
      DEF Replied, SessionInv, AnsweredTrue, SessionTypes, OpenedFrame,
          ResponseFrame
    <2>12. AnsweredTrue'
      BY <1>1, <2>2, <2>3, <2>7, <2>10, <2>11 DEF SessionInv, AnsweredTrue
    <2>13. Told'
      BY <1>1, <2>10 DEF SessionInv, Told
    <2>14. OrderOnDisk'
      BY <1>1, <2>2, <2>5
      DEF SessionInv, OrderOnDisk, Protocol!DependenciesOnDisk, Protocol!Mode
    <2>15. QED
      BY <1>1, <2>1, <2>3, <2>6, <2>8, <2>9, <2>12, <2>13, <2>14, WorkerWorks
  <1>4. QED BY <1>2, <1>3

-----------------------------------------------------------------------------
(* The session: the theorems                                               *)

LEMMA SessionInit ==
  ASSUME Protocol!ProtocolAssumption, Protocol!Init
  PROVE  SessionInv
  <1>1. SessionTypes
    BY DEF Protocol!ProtocolAssumption, Protocol!Init, SessionTypes, ClientType,
           WorkerType, Protocol!NoClient, Protocol!NoWorker
  <1>2. Handshakes = {} /\ Sends = {} /\ Replied = {}
    BY DEF Protocol!Init, Handshakes, Sends, Replied
  <1>3. SessionFrames /\ Numbered
    BY <1>2
    DEF Protocol!Init, SessionFrames, Numbered, Protocol!NoClient, Protocol!NoWorker
  <1>4. InHand /\ Spent /\ AnsweredTrue /\ Told
    BY <1>2
    DEF Protocol!Init, InHand, Spent, AnsweredTrue, Told, InHandler,
        Protocol!NoWorker
  <1>5. OrderOnDisk
    BY DEF Protocol!Init, OrderOnDisk, Protocol!DependenciesOnDisk, Protocol!Mode,
           Protocol!NoClient
  <1>6. QED BY <1>1, <1>3, <1>4, <1>5 DEF SessionInv

LEMMA SessionStep ==
  ASSUME Protocol!ProtocolAssumption, SessionInv, [Protocol!Next]_(Protocol!vars)
  PROVE  SessionInv'
  <1>1. ASSUME Protocol!Tick PROVE SessionInv'
    BY <1>1, ClockTicks DEF Protocol!ProtocolAssumption
  <1>2. ASSUME Protocol!SessionOpened PROVE SessionInv'
    <2>1. PICK next \in {"ready",
                         "poisoned"} : client' = [client EXCEPT !.pc = next]
      BY <1>2 DEF Protocol!SessionOpened
    <2>2. QED BY <1>2, <2>1, ClientMoves DEF Protocol!SessionOpened, FramesKept
  <1>3. ASSUME Protocol!ReceiveFails \/ Protocol!CloseSession
                 \/ Protocol!Reaped PROVE SessionInv'
    BY <1>3, ClientMoves
    DEF Protocol!ReceiveFails, Protocol!CloseSession, Protocol!Reaped, FramesKept
  <1>4. ASSUME Protocol!WorkerCrashes \/ Protocol!WorkerStops PROVE SessionInv'
    BY <1>4, WorkerExits
    DEF Protocol!WorkerCrashes, Protocol!WorkerStops, FramesKept
  <1>5. CASE UNCHANGED Protocol!vars
    <2>1. UNCHANGED <<client, worker, requests, replies, done, count, results>>
            /\ now' = now
      BY <1>5 DEF Protocol!vars
    <2>2. Handshakes' = Handshakes /\ Sends' = Sends /\ Replied' = Replied
      BY <2>1 DEF Handshakes, Sends, Replied
    <2>3. SessionTypes' /\ SessionFrames' /\ Numbered'
      BY <2>1, <2>2
      DEF SessionInv, SessionTypes, ClientType, WorkerType, SessionFrames, Numbered
    <2>4. Told'
      BY <2>1 DEF SessionInv, Told, Rested, InHandler
    <2>5. QED BY <2>1, <2>2, <2>3, <2>4, ClientWorks
  <1>6. QED
    BY <1>1, <1>2, <1>3, <1>4, <1>5, SessionOpens, Prepares, Dispatches, Receives,
       Accepts, Takes, Declines, Mutates, Responds
       DEF Protocol!Next, Protocol!ClientStep, Protocol!WorkerStep

LEMMA SessionHolds == Protocol!ProtocolAssumption /\ Protocol!Spec => []SessionInv
  <1> DEFINE Inv == Protocol!ProtocolAssumption /\ SessionInv
  <1>1. Protocol!ProtocolAssumption /\ Protocol!Init => Inv
    BY SessionInit
  <1>2. Inv /\ [Protocol!Next]_(Protocol!vars) => Inv'
    BY SessionStep DEF Protocol!ProtocolAssumption
  <1>3. QED BY <1>1, <1>2, PTL DEF Protocol!Spec

\* What the runs check of the protocol follows from the invariant.
LEMMA SessionTells ==
  ASSUME SessionInv
  PROVE  Protocol!TypeOK /\ Protocol!AnswersAreTrue /\ Protocol!AuthorizedOnly
           /\ Protocol!DependenciesOnDisk
  <1>1. Protocol!TypeOK
    BY DEF SessionInv, SessionTypes, ClientType, WorkerType, Protocol!TypeOK
  <1>2. Protocol!AnswersAreTrue
    BY DEF SessionInv, Told, Protocol!AnswersAreTrue
  <1>3. Protocol!AuthorizedOnly
    BY DEF SessionInv, Spent, Protocol!AuthorizedOnly
  <1>4. Protocol!DependenciesOnDisk
    BY DEF SessionInv, OrderOnDisk
  <1>5. QED BY <1>1, <1>2, <1>3, <1>4

\* What the coordinator is told is true for the rest of the session: success
\* means performed exactly once, not applied and refused never, whatever the
\* wire repeats, delays or mixes up and however often the handler retries
\* (serve_session, dispatch_prepared).
THEOREM SessionAnswers ==
  Protocol!ProtocolAssumption /\ Protocol!Spec => []Protocol!AnswersAreTrue
  BY SessionTells, SessionHolds, PTL

\* Only what the session authorises is performed (SessionAuthorization): forward
\* in the session that applies, backward in those that roll back.
THEOREM SessionAuthorized ==
  Protocol!ProtocolAssumption /\ Protocol!Spec => []Protocol!AuthorizedOnly
  BY SessionTells, SessionHolds, PTL

\* After any number of sessions, whatever crashed in between, an operation is
\* on disk only with everything it depends on.
THEOREM SessionOrder ==
  Protocol!ProtocolAssumption /\ Protocol!Spec => []Protocol!DependenciesOnDisk
  BY SessionTells, SessionHolds, PTL

-----------------------------------------------------------------------------
(* The recovery journal                                                    *)

\* A cut write never leaves a whole record without its newline: with such a cut
\* the code loses acknowledged events (read_encrypted_events takes the record,
\* append writes the next one on the same line).
Tearing == "bare" \notin Cuts

LEMMA JournalCardinality == ASSUME NEW S PROVE Journal!Cardinality(S) = Cardinality(S)
  BY DEF Journal!Cardinality, Cardinality

\* One execution runs at a time, and only on an open and unlocked journal.
OneRunner ==
  \A x \in Executions : journalPc[x] # "idle" =>
    active = {x} /\ journalJournal = "open" /\ ~locked

\* The heads of an open and unlocked journal are what a reader gets, and the
\* database is ahead by the event that is being written.
JournalsInStep ==
  journalJournal = "open" /\ ~locked =>
    /\ Journal!Readable(file)
    /\ \A x \in Executions :
         /\ heads[x] = Cardinality(Journal!Read(file, x))
         /\ events[x] = IF journalPc[x] \in {"compare", "append"} THEN heads[x] + 1 ELSE heads[x]

\* What was acknowledged is readable in the part of the file that no power
\* loss takes away.
AckedIsDurable ==
  \A x \in Executions : acked[x] <= Cardinality(Journal!Read(file, x) \cap 1..synced)

JournalInv == Journal!TypeOK /\ OneRunner /\ JournalsInStep /\ AckedIsDurable

-----------------------------------------------------------------------------
(* What a reader of the journal gets of a file that grows or shrinks       *)

LEMMA CutOrWhole ==
  ASSUME Tearing, Journal!JournalAssumption
  PROVE  \A p \in Journal!Pieces : p.cut \in {"whole", "torn"} /\ p.event \in Journal!Events
  BY DEF Tearing, Journal!JournalAssumption, Journal!Pieces

\* A reader gets finitely many events.
LEMMA ReadFinite ==
  ASSUME NEW f \in Seq(Journal!Pieces), NEW x
  PROVE  /\ Journal!Read(f, x) \subseteq 1..Len(f) /\ IsFiniteSet(Journal!Read(f, x))
         /\ Cardinality(Journal!Read(f, x)) \in Nat
         /\ \A n : /\ IsFiniteSet(Journal!Read(f, x) \cap 1..n)
                   /\ Cardinality(Journal!Read(f, x) \cap 1..n) \in Nat
                   /\ Cardinality(Journal!Read(f, x) \cap 1..n) <= Cardinality(Journal!Read(f, x))
  <1>1. Journal!Read(f, x) \subseteq 1..Len(f) /\ IsFiniteSet(1..Len(f))
    BY FS_Interval DEF Journal!Read
  <1>2. IsFiniteSet(Journal!Read(f, x))
    BY <1>1, FS_Subset
  <1>3. ASSUME NEW n
        PROVE  /\ IsFiniteSet(Journal!Read(f, x) \cap 1..n)
               /\ Cardinality(Journal!Read(f, x) \cap 1..n) <= Cardinality(Journal!Read(f, x))
    <2>1. Journal!Read(f, x) \cap 1..n \in SUBSET Journal!Read(f, x)
      OBVIOUS
    <2>2. QED BY <1>2, <2>1, FS_Subset
  <1>4. QED BY <1>1, <1>2, <1>3, FS_CardinalityType

\* Two files that agree up to n read the same up to n: whether a line is a
\* record depends on it and the line before it, when no record can be without
\* its newline.
LEMMA ReadPrefix ==
  ASSUME Tearing, Journal!JournalAssumption, NEW f \in Seq(Journal!Pieces),
         NEW g \in Seq(Journal!Pieces),
         NEW n \in Nat, n <= Len(f), n <= Len(g), \A i \in 1..n : g[i] = f[i], NEW x
  PROVE  Journal!Read(g, x) \cap 1..n = Journal!Read(f, x) \cap 1..n
  <1>1. ASSUME NEW i \in 1..n PROVE Journal!IsRecord(g, i) <=> Journal!IsRecord(f, i)
    <2>1. i \in 1..Len(f) /\ f[i] \in Journal!Pieces /\ f[i].cut # "bare" /\ g[i] = f[i]
      BY CutOrWhole
    <2>2. i > 1 => g[i - 1] = f[i - 1]
      OBVIOUS
    <2>3. QED BY <2>1, <2>2 DEF Journal!IsRecord
  <1>2. \A i \in 1..n : i \in 1..Len(f) /\ i \in 1..Len(g) /\ g[i] = f[i]
    OBVIOUS
  <1>3. QED BY <1>1, <1>2 DEF Journal!Read

\* A whole line after a readable file adds one event of its execution; a part
\* of a line adds none.
LEMMA ReadAppend ==
  ASSUME Tearing, Journal!JournalAssumption, NEW f \in Seq(Journal!Pieces), NEW p \in Journal!Pieces
  PROVE  LET g == Append(f, p) IN
         /\ g \in Seq(Journal!Pieces) /\ Len(g) = Len(f) + 1
         /\ \A x, n : n \in 0..Len(f) => Journal!Read(g, x) \cap 1..n = Journal!Read(f, x) \cap 1..n
         /\ Journal!Readable(f) /\ p.cut = "whole" =>
              /\ Journal!Readable(g)
              /\ \A x \in Executions : Cardinality(Journal!Read(g, x)) =
                   Cardinality(Journal!Read(f, x)) + (IF p.event.exec = x THEN 1 ELSE 0)
  <1> DEFINE g == Append(f, p)
             L == Len(f)
  <1>1. /\ g \in Seq(Journal!Pieces) /\ Len(g) = L + 1 /\ L \in Nat
        /\ g[L + 1] = p /\ \A i \in 1..L : g[i] = f[i]
    OBVIOUS
  <1>2. ASSUME NEW x, NEW n \in 0..L PROVE Journal!Read(g, x) \cap 1..n = Journal!Read(f,
               x) \cap 1..n
    <2>1. n \in Nat /\ n <= L /\ n <= Len(g) /\ \A i \in 1..n : g[i] = f[i]
      BY <1>1
    <2> HIDE DEF g
    <2>2. QED BY <1>1, <2>1, ReadPrefix
  <1>3. ASSUME Journal!Readable(f), p.cut = "whole"
        PROVE  /\ Journal!Readable(g)
               /\ \A x \in Executions : Cardinality(Journal!Read(g, x)) =
                    Cardinality(Journal!Read(f, x)) + (IF p.event.exec = x THEN 1 ELSE 0)
    <2>1. \A i \in 1..L : f[i].cut = "whole"
      BY <1>3, CutOrWhole DEF Journal!Readable, Journal!IsRecord
    <2>2. \A i \in 1..(L + 1) : g[i].cut = "whole"
      BY <1>1, <1>3, <2>1
    <2>3. \A i \in 1..(L + 1) : Journal!IsRecord(g, i)
      BY <2>2 DEF Journal!IsRecord
    <2>4. ASSUME NEW x \in Executions
          PROVE  Cardinality(Journal!Read(g, x)) =
                   Cardinality(Journal!Read(f, x)) + (IF p.event.exec = x THEN 1 ELSE 0)
      <3>1. Journal!Read(f, x) = {i \in 1..L : f[i].event.exec = x}
        BY <1>3 DEF Journal!Read, Journal!Readable
      <3>2. Journal!Read(g, x) = {i \in 1..(L + 1) : g[i].event.exec = x}
        BY <1>1, <2>3 DEF Journal!Read
      <3>3. /\ p.event.exec = x => Journal!Read(g, x) = Journal!Read(f, x) \cup {L + 1}
            /\ p.event.exec # x => Journal!Read(g, x) = Journal!Read(f, x)
        BY <1>1, <3>1, <3>2
      <3>4. L + 1 \notin Journal!Read(f, x) /\ IsFiniteSet(Journal!Read(f, x))
            /\ Cardinality(Journal!Read(f, x)) \in Nat
        BY <1>1, ReadFinite
      <3>5. Cardinality(Journal!Read(f, x) \cup {L + 1}) = Cardinality(Journal!Read(f, x)) + 1
        BY <3>4, FS_AddElement
      <3>6. CASE p.event.exec = x
        BY <3>3, <3>5, <3>6
      <3>7. CASE p.event.exec # x
        BY <3>3, <3>4, <3>7
      <3>8. QED BY <3>6, <3>7
    <2>5. QED BY <1>1, <2>3, <2>4 DEF Journal!Readable
  <1>4. QED BY <1>1, <1>2, <1>3

\* A file that keeps its first lines keeps what they say.
LEMMA StaysReadable ==
  ASSUME Tearing, Journal!JournalAssumption, JournalInv, file' \in Seq(Journal!Pieces),
         NEW n \in Nat, synced <= n, n <= Len(file'), synced' = n,
         \A i \in 1..synced : file'[i] = file[i], UNCHANGED acked
  PROVE  AckedIsDurable'
  <1>1. file \in Seq(Journal!Pieces) /\ synced \in Nat /\ synced <= Len(file)
    BY DEF JournalInv, Journal!TypeOK
  <1>2. ASSUME NEW x \in Executions
        PROVE  acked[x] <= Cardinality(Journal!Read(file', x) \cap 1..n)
    <2>1. Journal!Read(file', x) \cap 1..synced = Journal!Read(file, x) \cap 1..synced
      BY <1>1, ReadPrefix
    <2>2. Journal!Read(file, x) \cap 1..synced \in SUBSET (Journal!Read(file', x) \cap 1..n)
      BY <1>1, <2>1
    <2>3. IsFiniteSet(Journal!Read(file', x) \cap 1..n)
      BY ReadFinite
    <2>4. Cardinality(Journal!Read(file, x) \cap 1..synced)
            <= Cardinality(Journal!Read(file', x) \cap 1..n)
      BY <2>2, <2>3, FS_Subset
    <2>5. /\ Cardinality(Journal!Read(file, x) \cap 1..synced) \in Nat
          /\ Cardinality(Journal!Read(file', x) \cap 1..n) \in Nat
      BY <1>1, ReadFinite
    <2>6. acked[x] \in Nat /\ acked[x] <= Cardinality(Journal!Read(file, x) \cap 1..synced)
      BY DEF JournalInv, Journal!TypeOK, AckedIsDurable
    <2>7. QED BY <2>4, <2>5, <2>6
  <1>3. QED BY <1>2 DEF AckedIsDurable

-----------------------------------------------------------------------------
(* The steps of the journal                                                *)

LEMMA JournalOpens == ASSUME JournalInv, Journal!Open PROVE JournalInv'
  <1>1. Journal!TypeOK'
    <2>1. \A x \in Executions : Cardinality(Journal!Read(file, x)) \in Nat
      BY ReadFinite DEF JournalInv, Journal!TypeOK
    <2>2. QED BY <2>1, JournalCardinality DEF JournalInv, Journal!TypeOK, Journal!Open
  <1>2. OneRunner'
    BY DEF JournalInv, OneRunner, Journal!Open
  <1>3. JournalsInStep'
    <2>1. \A x \in Executions : journalPc[x] = "idle"
      BY DEF JournalInv, OneRunner, Journal!Open
    <2>2. ASSUME journalJournal' = "open", ~locked'
          PROVE  /\ Journal!Readable(file) /\ \A x \in Executions : Journal!Matches(x)
                 /\ heads' = [x \in Executions |-> Cardinality(Journal!Read(file, x))]
      BY <2>2, JournalCardinality DEF Journal!Open
    <2>3. QED
      BY <2>1, <2>2, JournalCardinality DEF JournalsInStep, Journal!Open, Journal!Matches
  <1>4. AckedIsDurable'
    BY DEF JournalInv, AckedIsDurable, Journal!Open
  <1>5. QED BY <1>1, <1>2, <1>3, <1>4 DEF JournalInv

LEMMA JournalBegins == ASSUME JournalInv, NEW x \in Executions, Journal!Begin(x) PROVE JournalInv'
  <1>1. Journal!TypeOK'
    BY DEF JournalInv, Journal!TypeOK, Journal!Begin
  <1>2. \A y \in Executions : y # x => journalPc[y] = "idle"
    BY DEF JournalInv, OneRunner, Journal!Begin
  <1>3. OneRunner'
    BY <1>2 DEF JournalInv, OneRunner, Journal!Begin, Journal!TypeOK
  <1>4. JournalsInStep'
    BY DEF JournalInv, JournalsInStep, Journal!Begin, Journal!TypeOK
  <1>5. AckedIsDurable'
    BY DEF JournalInv, AckedIsDurable, Journal!Begin
  <1>6. QED BY <1>1, <1>3, <1>4, <1>5 DEF JournalInv

\* The steps of a running thread that leave the file alone.
LEMMA JournalThreads ==
  ASSUME Journal!JournalAssumption, JournalInv, NEW x \in Executions,
         Journal!Commit(x) \/ Journal!Finish(x) \/ Journal!Compare(x) \/ Journal!FlushFails(x)
  PROVE  JournalInv'
  <1>1. journalPc[x] # "idle" /\ journalJournal = "open" /\ ~locked /\ active = {x}
        /\ \A y \in Executions : y # x => journalPc[y] = "idle"
    BY DEF JournalInv, OneRunner, Journal!Commit, Journal!Finish, Journal!Compare,
           Journal!FlushFails
  <1>2. UNCHANGED <<file, synced, journalJournal, heads, acked>>
    BY DEF Journal!Commit, Journal!Finish, Journal!Compare, Journal!FlushFails
  <1>3. AckedIsDurable'
    BY <1>2 DEF JournalInv, AckedIsDurable
  <1>4. CASE Journal!Commit(x)
    <2>1. events[x] \in 0..MaxEvents /\ events[x] + 1 \in 0..MaxEvents
      BY <1>4 DEF Journal!Commit, JournalInv, Journal!TypeOK, Journal!JournalAssumption
    <2>2. Journal!TypeOK' /\ OneRunner'
      BY <1>1, <1>4, <2>1 DEF Journal!Commit, JournalInv, Journal!TypeOK, OneRunner
    <2>3. JournalsInStep'
      BY <1>1, <1>4, <2>1 DEF Journal!Commit, JournalInv, Journal!TypeOK, JournalsInStep
    <2>4. QED BY <1>3, <2>2, <2>3 DEF JournalInv
  <1>5. CASE Journal!Finish(x)
    <2>1. Journal!TypeOK' /\ OneRunner'
      BY <1>1, <1>5 DEF Journal!Finish, JournalInv, Journal!TypeOK, OneRunner
    <2>2. JournalsInStep'
      BY <1>1, <1>5 DEF Journal!Finish, JournalInv, Journal!TypeOK, JournalsInStep
    <2>3. QED BY <1>3, <2>1, <2>2 DEF JournalInv
  <1>6. CASE Journal!Compare(x)
    <2>1. Journal!TypeOK' /\ OneRunner'
      BY <1>1, <1>6 DEF Journal!Compare, JournalInv, Journal!TypeOK, OneRunner
    <2>2. /\ heads[x] = Cardinality(Journal!Read(file, x)) /\ heads[x] \in Nat
          /\ events[x] = heads[x] + 1
      BY <1>1, <1>6 DEF Journal!Compare, JournalInv, Journal!TypeOK, JournalsInStep
    <2>3. events[x] - Cardinality(Journal!Read(file, x)) = 1
      BY <2>2
    <2>4. \/ locked'
          \/ journalPc' = [journalPc EXCEPT ![x] = "append"] /\ UNCHANGED <<locked, events>>
      BY <1>6, <2>3, JournalCardinality DEF Journal!Compare
    <2>5. JournalsInStep'
      <3>1. CASE locked'
        BY <3>1 DEF JournalsInStep
      <3>2. CASE journalPc' = [journalPc EXCEPT ![x] = "append"] /\ UNCHANGED <<locked, events>>
        <4>1. ASSUME NEW y \in Executions
              PROVE  journalPc'[y] \in {"compare", "append"}
                       <=> journalPc[y] \in {"compare", "append"}
          BY <1>6, <3>2 DEF Journal!Compare, JournalInv, Journal!TypeOK
        <4>2. QED BY <1>1, <1>2, <3>2, <4>1 DEF JournalInv, JournalsInStep
      <3>3. QED BY <2>4, <3>1, <3>2
    <2>6. QED BY <1>3, <2>1, <2>5 DEF JournalInv
  <1>7. CASE Journal!FlushFails(x)
    <2>1. Journal!TypeOK' /\ OneRunner'
      BY <1>1, <1>7 DEF Journal!FlushFails, JournalInv, Journal!TypeOK, OneRunner
    <2>2. JournalsInStep'
      BY <1>7 DEF Journal!FlushFails, JournalsInStep
    <2>3. QED BY <1>3, <2>1, <2>2 DEF JournalInv
  <1>8. QED BY <1>4, <1>5, <1>6, <1>7

\* The event in hand is the next one of its chain.
LEMMA JournalAppends ==
  ASSUME Tearing, Journal!JournalAssumption, JournalInv, NEW x \in Executions,
         Journal!AppendEvent(x) \/ Journal!AppendFails(x)
  PROVE  JournalInv'
  <1>1. /\ journalPc[x] = "append" /\ journalJournal = "open" /\ ~locked /\ active = {x}
        /\ \A y \in Executions : y # x => journalPc[y] = "idle"
    BY DEF JournalInv, OneRunner, Journal!AppendEvent, Journal!AppendFails
  <1>2. /\ events[x] = heads[x] + 1 /\ heads[x] \in Nat /\ Journal!Readable(file)
        /\ \A y \in Executions : heads[y] = Cardinality(Journal!Read(file, y))
    BY <1>1 DEF JournalInv, JournalsInStep, Journal!TypeOK
  <1>3. Journal!Event(x) \in Journal!Events /\ Journal!Event(x).exec = x
    BY <1>2 DEF Journal!Event, Journal!Events
  <1>4. \A cut \in Cuts \cup {"whole"} :
          /\ [event |-> Journal!Event(x), cut |-> cut] \in Journal!Pieces
          /\ [event |-> Journal!Event(x), cut |-> cut].event.exec = x
          /\ [event |-> Journal!Event(x), cut |-> cut].cut = cut
    BY <1>3 DEF Journal!Pieces
  <1>5. file \in Seq(Journal!Pieces) /\ synced \in Nat /\ synced <= Len(file) /\ Len(file) \in Nat
    BY DEF JournalInv, Journal!TypeOK
  <1>6. ASSUME NEW cut \in Cuts \cup {"whole"}, file' = Journal!Written(x, cut),
               UNCHANGED <<synced, acked>>
        PROVE  file' \in Seq(Journal!Pieces) /\ synced' \in 0..Len(file') /\ AckedIsDurable'
    <2>1. /\ file' \in Seq(Journal!Pieces) /\ Len(file') = Len(file) + 1
          /\ \A i \in 1..Len(file) : file'[i] = file[i]
      BY <1>4, <1>5, <1>6 DEF Journal!Written
    <2>2. /\ synced <= Len(file') /\ synced' = synced
          /\ \A i \in 1..synced : file'[i] = file[i]
      BY <1>5, <1>6, <2>1
    <2>3. AckedIsDurable'
      BY <1>5, <1>6, <2>1, <2>2, StaysReadable
    <2>4. QED BY <1>5, <2>1, <2>2, <2>3
  <1>7. CASE Journal!AppendEvent(x)
    <2>1. /\ file' = Journal!Written(x, "whole") /\ heads' = [heads EXCEPT ![x] = @ + 1]
          /\ journalPc' = [journalPc EXCEPT ![x] = "flush"]
          /\ UNCHANGED <<synced, journalJournal, locked, events, active, acked, stops>>
      BY <1>7 DEF Journal!AppendEvent
    <2>2. file' \in Seq(Journal!Pieces) /\ synced' \in 0..Len(file') /\ AckedIsDurable'
      BY <1>6, <2>1
    <2>3. heads' \in [Executions -> Nat]
      BY <1>2, <2>1 DEF JournalInv, Journal!TypeOK
    <2>4. Journal!TypeOK'
      BY <2>1, <2>2, <2>3 DEF JournalInv, Journal!TypeOK
    <2>5. OneRunner'
      BY <1>1, <2>1 DEF JournalInv, OneRunner, Journal!TypeOK
    <2>6. /\ Journal!Readable(file')
          /\ \A y \in Executions : Cardinality(Journal!Read(file', y)) =
               Cardinality(Journal!Read(file, y)) + (IF x = y THEN 1 ELSE 0)
      BY <1>2, <1>4, <1>5, <2>1, ReadAppend DEF Journal!Written
    <2>7. ASSUME NEW y \in Executions
          PROVE  /\ heads'[y] = Cardinality(Journal!Read(file', y))
                 /\ events'[y] = heads'[y] /\ journalPc'[y] \notin {"compare", "append"}
      <3>1. CASE y = x
        BY <1>2, <2>1, <2>6, <3>1 DEF JournalInv, Journal!TypeOK
      <3>2. CASE y # x
        <4>1. heads'[y] = heads[y] /\ heads[y] \in Nat /\ journalPc'[y] = "idle"
          BY <1>1, <2>1, <3>2 DEF JournalInv, Journal!TypeOK
        <4>2. events[y] = heads[y]
          BY <1>1, <3>2 DEF JournalInv, JournalsInStep
        <4>3. QED BY <1>2, <2>1, <2>6, <3>2, <4>1, <4>2
      <3>3. QED BY <3>1, <3>2
    <2>8. JournalsInStep'
      BY <2>6, <2>7 DEF JournalsInStep
    <2>9. QED BY <2>2, <2>4, <2>5, <2>8 DEF JournalInv
  <1>8. CASE Journal!AppendFails(x)
    <2>1. /\ journalPc' = [journalPc EXCEPT ![x] = "idle"] /\ locked' = TRUE
          /\ UNCHANGED <<synced, journalJournal, heads, events, active, acked, stops>>
          /\ file' = file \/ \E cut \in Cuts : file' = Journal!Written(x, cut)
      BY <1>8 DEF Journal!AppendFails
    <2>2. file' \in Seq(Journal!Pieces) /\ synced' \in 0..Len(file') /\ AckedIsDurable'
      <3>1. CASE file' = file
        BY <1>5, <2>1, <3>1 DEF JournalInv, AckedIsDurable
      <3>2. CASE \E cut \in Cuts : file' = Journal!Written(x, cut)
        BY <1>6, <2>1, <3>2
      <3>3. QED BY <2>1, <3>1, <3>2
    <2>3. Journal!TypeOK' /\ OneRunner' /\ JournalsInStep'
      BY <1>1, <2>1, <2>2 DEF JournalInv, Journal!TypeOK, OneRunner, JournalsInStep
    <2>4. QED BY <2>2, <2>3 DEF JournalInv
  <1>9. QED BY <1>7, <1>8

\* What the flush makes durable is all the database has.
LEMMA JournalFlushes ==
  ASSUME Tearing, Journal!JournalAssumption, JournalInv, NEW x \in Executions, Journal!Flush(x)
  PROVE  JournalInv'
  <1>1. /\ journalPc[x] = "flush" /\ journalJournal = "open" /\ ~locked /\ active = {x}
        /\ \A y \in Executions : y # x => journalPc[y] = "idle"
    BY DEF JournalInv, OneRunner, Journal!Flush
  <1>2. file \in Seq(Journal!Pieces) /\ Len(file) \in Nat /\ synced \in 0..Len(file)
    BY DEF JournalInv, Journal!TypeOK
  <1>3. Journal!TypeOK' /\ OneRunner'
    BY <1>1, <1>2 DEF JournalInv, Journal!TypeOK, OneRunner, Journal!Flush
  <1>4. JournalsInStep'
    BY <1>1 DEF JournalInv, JournalsInStep, Journal!Flush, Journal!TypeOK
  <1>5. ASSUME NEW y \in Executions
        PROVE  acked'[y] <= Cardinality(Journal!Read(file, y) \cap 1..Len(file))
    <2>1. Journal!Read(file, y) \cap 1..Len(file) = Journal!Read(file, y)
      BY <1>2, ReadFinite
    <2>2. CASE y = x
      <3>1. acked'[y] = events[x] /\ events[x] = Cardinality(Journal!Read(file, x))
        BY <1>1, <2>2 DEF Journal!Flush, JournalInv, Journal!TypeOK, JournalsInStep
      <3>2. Cardinality(Journal!Read(file, y)) \in Nat
        BY <1>2, ReadFinite
      <3>3. acked'[y] <= Cardinality(Journal!Read(file, y))
        BY <2>2, <3>1, <3>2
      <3>4. QED BY <2>1, <3>3
    <2>3. CASE y # x
      <3>1. acked'[y] = acked[y] /\ acked[y] \in Nat
            /\ acked[y] <= Cardinality(Journal!Read(file, y) \cap 1..synced)
        BY <2>3 DEF Journal!Flush, JournalInv, Journal!TypeOK, AckedIsDurable
      <3>2. /\ Cardinality(Journal!Read(file, y) \cap 1..synced)
                 <= Cardinality(Journal!Read(file, y))
            /\ Cardinality(Journal!Read(file, y) \cap 1..synced) \in Nat
            /\ Cardinality(Journal!Read(file, y)) \in Nat
        BY <1>2, ReadFinite
      <3>3. acked'[y] <= Cardinality(Journal!Read(file, y))
        <4> HIDE DEF Journal!Read
        <4>1. QED BY <3>1, <3>2
      <3>4. QED BY <2>1, <3>3
    <2>4. QED BY <2>2, <2>3
  <1>6. AckedIsDurable'
    BY <1>5 DEF AckedIsDurable, Journal!Flush
  <1>7. QED BY <1>3, <1>4, <1>6 DEF JournalInv

\* A stop empties the memory, and a power loss cuts only what was not synced.
LEMMA JournalStops ==
  ASSUME Tearing, Journal!JournalAssumption, JournalInv, Journal!Crash \/ Journal!PowerLoss
  PROVE  JournalInv'
  <1>1. /\ journalJournal' = "closed" /\ locked' = FALSE
        /\ journalPc' = [x \in Executions |-> "idle"] /\ heads' = [x \in Executions |-> 0]
        /\ stops' \in 0..MaxStops /\ UNCHANGED <<events, active, acked>>
    BY DEF Journal!Crash, Journal!PowerLoss, Journal!Restart, JournalInv, Journal!TypeOK,
           Journal!JournalAssumption
  <1>2. file \in Seq(Journal!Pieces) /\ Len(file) \in Nat /\ synced \in 0..Len(file)
    BY DEF JournalInv, Journal!TypeOK
  <1>3. OneRunner' /\ JournalsInStep'
    BY <1>1 DEF OneRunner, JournalsInStep
  <1>4. file' \in Seq(Journal!Pieces) /\ synced' \in 0..Len(file') /\ AckedIsDurable'
    <2>1. CASE Journal!Crash
      BY <1>1, <1>2, <2>1 DEF Journal!Crash, JournalInv, AckedIsDurable
    <2>2. CASE Journal!PowerLoss
      <3>1. PICK n \in synced..Len(file) :
              /\ \/ file' = SubSeq(file, 1, n)
                 \/ /\ n > synced
                    /\ \E cut \in Cuts : file[n].cut = "whole"
                         /\ file' = [SubSeq(file, 1, n) EXCEPT ![n].cut = cut]
              /\ synced' = n
        BY <2>2 DEF Journal!PowerLoss
      <3> DEFINE kept == SubSeq(file, 1, n)
      <3>2. /\ n \in Nat /\ synced <= n /\ n <= Len(file)
            /\ kept \in Seq(Journal!Pieces) /\ Len(kept) = n /\ kept \in [1..n -> Journal!Pieces]
            /\ \A i \in 1..n : kept[i] = file[i]
        <4>1. /\ n \in Nat /\ synced <= n /\ n <= Len(file)
              /\ \A i \in 1..n : file[i] \in Journal!Pieces
          BY <1>2, <3>1
        <4>2. /\ kept \in Seq(Journal!Pieces)
              /\ Len(kept) = IF 1 <= n THEN n - 1 + 1 ELSE 0
              /\ \A i \in 1..(n - 1 + 1) : kept[i] = file[1 + i - 1]
          BY <4>1, SubSeqProperties
        <4> HIDE DEF kept
        <4>3. Len(kept) = n
          BY <4>1, <4>2
        <4>4. \A i \in 1..n : kept[i] = file[i]
          BY <4>1, <4>2
        <4>5. kept \in [1..n -> Journal!Pieces]
          BY <4>2, <4>3
        <4>6. QED BY <4>1, <4>2, <4>3, <4>4, <4>5
      <3> HIDE DEF kept
      <3>3. file' \in [1..n -> Journal!Pieces] /\ \A i \in 1..synced : file'[i] = file[i]
        <4>1. CASE file' = kept
          BY <1>2, <3>2, <4>1
        <4>2. ASSUME n > synced, NEW cut \in Cuts, file' = [kept EXCEPT ![n].cut = cut]
              PROVE  file' \in [1..n -> Journal!Pieces] /\ \A i \in 1..synced : file'[i] = file[i]
          <5>1. n \in 1..n /\ kept[n] \in Journal!Pieces
            BY <1>2, <3>2, <4>2
          <5>2. [kept[n] EXCEPT !.cut = cut] \in Journal!Pieces
            BY <4>2, <5>1 DEF Journal!Pieces
          <5>3. file' = [kept EXCEPT ![n] = [kept[n] EXCEPT !.cut = cut]]
            BY <4>2
          <5>4. QED BY <1>2, <3>2, <4>2, <5>1, <5>2, <5>3
        <4>3. QED BY <3>1, <4>1, <4>2 DEF kept
      <3>4. file' \in Seq(Journal!Pieces) /\ Len(file') = n
        BY <3>2, <3>3, IsASeq
      <3>5. AckedIsDurable'
        BY <1>1, <3>1, <3>2, <3>3, <3>4, StaysReadable
      <3>6. QED BY <3>1, <3>2, <3>4, <3>5
    <2>3. QED BY <2>1, <2>2
  <1>5. Journal!TypeOK'
    BY <1>1, <1>4 DEF JournalInv, Journal!TypeOK
  <1>6. QED BY <1>3, <1>4, <1>5 DEF JournalInv

-----------------------------------------------------------------------------
(* What holds of the journal                                               *)

LEMMA JournalInit == ASSUME Journal!JournalAssumption, Journal!Init PROVE JournalInv
  <1>1. Journal!TypeOK
    <2>1. file \in Seq(Journal!Pieces) /\ Len(file) = 0 /\ synced \in 0..Len(file)
      BY DEF Journal!Init
    <2>2. 0 \in Nat /\ 0 \in 0..MaxEvents /\ 0 \in 0..MaxStops
      BY DEF Journal!JournalAssumption
    <2>3. QED BY <2>1, <2>2 DEF Journal!Init, Journal!TypeOK
  <1>2. OneRunner /\ JournalsInStep
    BY DEF Journal!Init, OneRunner, JournalsInStep
  <1>3. AckedIsDurable
    <2>1. ASSUME NEW x \in Executions PROVE 0 <= Cardinality(Journal!Read(file, x) \cap 1..synced)
      <3>1. Cardinality(Journal!Read(file, x) \cap 1..synced) \in Nat
        BY <1>1, ReadFinite DEF Journal!TypeOK
      <3>2. QED BY <3>1
    <2>2. QED BY <2>1 DEF Journal!Init, AckedIsDurable
  <1>4. QED BY <1>1, <1>2, <1>3 DEF JournalInv

LEMMA JournalStep ==
  ASSUME Tearing, Journal!JournalAssumption, JournalInv, [Journal!Next]_(Journal!vars)
  PROVE  JournalInv'
  <1>1. CASE UNCHANGED Journal!vars
    BY <1>1 DEF Journal!vars, JournalInv, Journal!TypeOK, OneRunner, JournalsInStep, AckedIsDurable
  <1>2. CASE Journal!Next
    BY <1>2, JournalOpens, JournalBegins, JournalThreads, JournalAppends, JournalFlushes,
        JournalStops
    DEF Journal!Next
  <1>3. QED BY <1>1, <1>2

LEMMA JournalHolds == Journal!JournalAssumption /\ Tearing /\ Journal!Spec => []JournalInv
  <1> DEFINE Inv == Journal!JournalAssumption /\ Tearing /\ JournalInv
  <1>1. Journal!JournalAssumption /\ Tearing /\ Journal!Init => Inv
    BY JournalInit
  <1>2. Inv /\ [Journal!Next]_(Journal!vars) => Inv'
    BY JournalStep DEF Journal!JournalAssumption, Tearing
  <1>3. QED BY <1>1, <1>2, PTL DEF Journal!Spec

\* What the runs check of the journal follows from the invariant.
LEMMA JournalTells ==
  ASSUME JournalInv PROVE Journal!TypeOK /\ Journal!AckedIsReadable /\ Journal!UnlockedInStep
  <1>1. Journal!AckedIsReadable
    <2>1. ASSUME NEW x \in Executions PROVE acked[x] <= Cardinality(Journal!Read(file, x))
      <3>1. acked[x] \in Nat /\ acked[x] <= Cardinality(Journal!Read(file, x) \cap 1..synced)
        BY SMTT(20), <2>1 DEF JournalInv, Journal!TypeOK, AckedIsDurable
      <3>2. /\ Cardinality(Journal!Read(file, x) \cap 1..synced)
                 <= Cardinality(Journal!Read(file, x))
            /\ Cardinality(Journal!Read(file, x) \cap 1..synced) \in Nat
            /\ Cardinality(Journal!Read(file, x)) \in Nat
        BY <2>1, ReadFinite DEF JournalInv, Journal!TypeOK
      <3>3. QED BY <3>1, <3>2
    <2>2. QED BY <2>1, JournalCardinality DEF Journal!AckedIsReadable
  <1>2. Journal!UnlockedInStep
    BY JournalCardinality
    DEF JournalInv, Journal!TypeOK, JournalsInStep, Journal!UnlockedInStep, Journal!Matches
  <1>3. QED BY <1>1, <1>2 DEF JournalInv

\* Every acknowledged event can be read back for ever: after any failed write,
\* crash or power loss the reader gets at least what persist_event returned
\* for (FileJournal::append, flush and sync_all, read_encrypted_events).
THEOREM AckedForEver == Journal!JournalAssumption /\ Tearing /\ Journal!Spec =>
  []Journal!AckedIsReadable
  BY JournalTells, JournalHolds, PTL

\* While mutations are accepted, the two journals differ by the event in hand
\* at most (synchronize_external_journal, the constructor's checks).
THEOREM InStepWhenUnlocked ==
  Journal!JournalAssumption /\ Tearing /\ Journal!Spec => []Journal!UnlockedInStep
  BY JournalTells, JournalHolds, PTL

-----------------------------------------------------------------------------
(* The parts together                                                      *)

\* The invariant of the part that a behaviour is about.
MovingInv ==
  /\ part = "protocol" => SessionInv
  /\ part = "rename" => RenameInv
  /\ part = "journal" => JournalInv
  /\ part = "transfer" => TransferInv

LEMMA Journalling == Tearing /\ Journal!JournalAssumption
  BY PartsAssumption DEF Tearing

LEMMA MovingInit == ASSUME MCInit PROVE MovingInv
  <1>1. CASE part = "planning"
    BY <1>1 DEF MovingInv
  <1>2. CASE part = "protocol" /\ Protocol!Init
    BY <1>2, PartsAssumption, SessionInit DEF MovingInv
  <1>3. CASE part = "rename" /\ Init
    BY <1>3, RenameInit DEF MovingInv
  <1>4. CASE part = "journal" /\ Journal!Init
    BY <1>4, Journalling, JournalInit DEF MovingInv
  <1>5. CASE part = "transfer" /\ Transfer!Init
    BY <1>5, PartsAssumption, TransferInit DEF MovingInv
  <1>6. QED BY <1>1, <1>2, <1>3, <1>4, <1>5 DEF MCInit

\* A step of the whole is one of the part that runs, or stutters.
LEMMA PartSteps ==
  ASSUME [MCNext]_all
  PROVE  /\ part' = part
         /\ part = "protocol" => [Protocol!Next]_(Protocol!vars)
         /\ part = "rename" => [Next]_vars
         /\ part = "journal" => [Journal!Next]_(Journal!vars)
         /\ part = "transfer" => [Transfer!Next]_(Transfer!vars)
  <1>1. CASE MCNext
    BY <1>1 DEF MCNext
  <1>2. CASE UNCHANGED all
    <2>1. UNCHANGED <<part, vars, sessionVars, journalVars, transferVars>>
      BY <1>2 DEF all
    <2>2. UNCHANGED Protocol!vars
      BY <2>1 DEF sessionVars, Protocol!vars
    <2>3. UNCHANGED Journal!vars
      BY <2>1 DEF journalVars, Journal!vars
    <2>4. UNCHANGED Transfer!vars
      BY <2>1 DEF transferVars, Transfer!vars
    <2>5. QED BY <2>1, <2>2, <2>3, <2>4
  <1>3. QED BY <1>1, <1>2

LEMMA MovingStep == ASSUME MovingInv, [MCNext]_all PROVE MovingInv'
  <1>1. part = "protocol" => SessionInv'
    BY PartSteps, PartsAssumption, SessionStep DEF MovingInv
  <1>2. part = "rename" => RenameInv'
    BY PartSteps, RenameStep DEF MovingInv
  <1>3. part = "journal" => JournalInv'
    BY PartSteps, Journalling, JournalStep DEF MovingInv
  <1>4. part = "transfer" => TransferInv'
    BY PartSteps, PartsAssumption, TransferStep DEF MovingInv
  <1>5. QED BY <1>1, <1>2, <1>3, <1>4, PartSteps DEF MovingInv

LEMMA MovingHolds == MCSpec => []MovingInv
  <1>1. MCInit => MovingInv
    BY MovingInit
  <1>2. MovingInv /\ [MCNext]_all => MovingInv'
    BY MovingStep
  <1>3. QED BY <1>1, <1>2, PTL DEF MCSpec

\* What the coordinator is told is so on disk, of every plan, session, call,
\* journal and transfer: an answer of the worker is about its own operation
\* (serve_session, dispatch_prepared), a declined call changed nothing
\* (mutation_error), an acknowledged event can be read (persist_event), and a
\* transfer's answer is true and lost no file
\* (CrossVolumeTransferService::execute).
THEOREM AnswersHold == MCSpec => []AnswersAreTrue
  <1>1. MovingInv => AnswersAreTrue
    <2> SUFFICES ASSUME MovingInv PROVE AnswersAreTrue
      OBVIOUS
    <2>1. part = "protocol" => Protocol!TypeOK /\ Protocol!AnswersAreTrue
      BY SessionTells DEF MovingInv
    <2>2. part = "rename" => TypeOK /\ DeclinedIsUntouched
      BY DEF MovingInv, RenameInv, Touching, DeclinedIsUntouched
    <2>3. part = "journal" =>
            Journal!TypeOK /\ Journal!AckedIsReadable /\ Journal!UnlockedInStep
      BY JournalTells DEF MovingInv
    <2>4. part = "transfer" =>
            Transfer!TypeOK /\ Transfer!NothingIsLost /\ Transfer!AnswerIsTrue
      BY TransferTells DEF MovingInv
    <2>5. QED
      BY <2>1, <2>2, <2>3, <2>4
      DEF AnswersAreTrue, SessionAnswersAreTrue, AckedIsReadable, UnlockedInStep,
          TransferAnswerIsTrue, TransferLosesNothing
  <1>2. QED BY <1>1, MovingHolds, PTL

\* Nothing runs that was not permitted, whatever the order of the messages and
\* whatever another process exchanges between two system calls: an operation
\* only in its session and after what it depends on (SessionAuthorization,
\* serve_session), a rename on Windows of the approved file only
\* (rename_same_volume_no_replace, by the handle it holds).
THEOREM OnlyApprovedHolds == MCSpec => []OnlyApprovedIsDone
  <1>1. MovingInv => OnlyApprovedIsDone
    <2> SUFFICES ASSUME MovingInv PROVE OnlyApprovedIsDone
      OBVIOUS
    <2>1. part = "protocol" =>
            Protocol!DependenciesOnDisk /\ Protocol!AuthorizedOnly
      BY SessionTells DEF MovingInv
    <2>2. part = "rename" => OnlyApprovedIsMoved
      BY DEF MovingInv, RenameInv, Touching, OnlyApprovedIsMoved
    <2>3. QED
      BY <2>1, <2>2 DEF OnlyApprovedIsDone, DependenciesOnDisk, AuthorizedOnly
  <1>2. QED BY <1>1, MovingHolds, PTL

\* No step of a call or of a transfer replaces or loses a file, leaves the root
\* of the plan, reports another file than the approved one as moved, or changes
\* the disk without its intent in the journal.
THEOREM NothingLostHolds == MCSpec => NothingIsLost
  <1>1. ASSUME MovingInv, [MCNext]_all
        PROVE  /\ [part = "rename" => AppliedIsApprovedStep
                     /\ ObjectsSurviveStep /\ OutsideIsUntouchedStep]_all
               /\ [part = "transfer" => Transfer!EveryMoveIsAnnouncedStep]_all
               /\ [part = "transfer" => Transfer!PublishedIsApprovedStep]_all
    <2>1. CASE UNCHANGED all
      BY <2>1
    <2>2. CASE MCNext
      <3>1. part = "rename" =>
              AppliedIsApprovedStep /\ ObjectsSurviveStep /\ OutsideIsUntouchedStep
        BY <1>1, <2>2, Survives, StaysInside, AppliedApproved DEF MCNext, MovingInv
      <3>2. part = "transfer" =>
              Transfer!EveryMoveIsAnnouncedStep /\ Transfer!PublishedIsApprovedStep
        BY <1>1, PartSteps, PartsAssumption, TransferAnnounces DEF MovingInv
      <3>3. QED BY <3>1, <3>2
    <2>3. QED BY <1>1, <2>1, <2>2
  <1>2. QED
    BY <1>1, MovingHolds, PTL
    DEF MCSpec, NothingIsLost, EveryMoveIsAnnounced, PublishedIsApproved
=============================================================================

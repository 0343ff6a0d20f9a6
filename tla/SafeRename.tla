----------------------------- MODULE SafeRename -----------------------------
(***************************************************************************)
(* The native file operations of the platform adapters, system call by     *)
(* system call, beside another process that works in the same folders:     *)
(* rename_same_volume_no_replace, create_directory_no_replace and          *)
(* remove_directory_if_empty of the macOS and the Windows adapter, called  *)
(* by the handlers of the operation executor with their checks before and  *)
(* after.                                                                  *)
(*                                                                         *)
(* One name is at stake in each directory: entry[d] is what it stands for  *)
(* in directory d.  The source is that name in the directory the path      *)
(* "src" leads to, the destination that name in the one "dst" leads to.    *)
(* A directory other than a parent is a folder.  The system calls are      *)
(* external: an open that does not follow links, a rename that refuses an  *)
(* existing name, a directory removal that refuses a folder with contents. *)
(***************************************************************************)
EXTENDS Integers, FiniteSets

CONSTANTS
  Operations,     \* the operations asked for: "rename", "mkdir", "rmdir"
  Approved,       \* the file the plan approved
  Foreign,        \* another file
  Created,        \* the folder this execution created
  Stranger,       \* a folder someone else made
  SourceDir,      \* the directory of the source when the plan was made
  TargetDir,      \* the directory of the destination
  OtherDir,       \* a third directory inside the root
  Outside,        \* a directory outside the root, reached only by a link
  None,
  MaxAttempts,    \* attempts of the handler (3 in the code)
  Misreports,     \* what the system may call a rename that it has performed
  MaxChanges      \* bound on the steps of the other process

Files == {Approved, Foreign}
Folders == {Created, Stranger}
Inside == {SourceDir, TargetDir, OtherDir}
Dirs == Inside \cup {Outside}
Paths == {"src", "dst"}
Contents == {"approved", "edited"}
Platforms == {"macos", "windows"}

\* What is assumed of the parameters: the objects and the directories differ.
ASSUME RenameAssumption ==
  /\ Operations \subseteq {"rename", "mkdir", "rmdir"}
  /\ MaxAttempts \in Nat \ {0} /\ MaxChanges \in Nat
  /\ Misreports \subseteq {"io", "sharing"}
  /\ Approved # Foreign /\ Created # Stranger
  /\ Files \cap Folders = {} /\ None \notin Files \cup Folders \cup Dirs
  /\ Outside \notin Inside /\ SourceDir # TargetDir /\ "link" \notin Dirs

VARIABLES
  platform,   \* "macos" or "windows": whose adapter was built
  dirAt,      \* the directory each path leads to, None when it is gone
  linked,     \* the paths that are a link to their directory
  entry,      \* what the name stands for in each directory
  content,    \* content of each file
  stamp,      \* whether a file still has the approved modification time
  filled,     \* the folders that are not empty
  op,         \* the operation asked for
  step,       \* the next system call of the handler
  held,       \* the descriptors or handles it holds
  attempt,
  result,     \* "none", "applied", "declined" (proven not applied), "recovery"
  touched,    \* the objects the handler moved, made or removed (history)
  changes     \* steps of the other process so far

disk == <<dirAt, linked, entry, content, stamp, filled>>
vars == <<platform, disk, op, step, held, attempt, result, touched, changes>>

NothingHeld == [sp |-> None, dp |-> None, object |-> None]

(***************************************************************************)
(* What the system calls see.                                              *)
(***************************************************************************)
\* The name through a path, following links in its directories.
At(p) == IF dirAt[p] = None THEN None ELSE entry[dirAt[p]]

LinkCount(f) == Cardinality({d \in Dirs : entry[d] = f})

\* The parent's identity read through the path: a link has its own.
ParentKey(p) == IF p \in linked THEN "link" ELSE dirAt[p]

\* The handle on the source file shares reading only, the one a fingerprint
\* opens shares everything; a directory with an open file in it cannot be
\* renamed.
Locked(object) ==
  platform = "windows" /\ step # "reprint" /\ object # None /\ held.object = object

TypeOK ==
  /\ platform \in Platforms
  /\ dirAt \in [Paths -> Dirs \cup {None}]
  /\ linked \subseteq Paths
  /\ entry \in [Dirs -> Files \cup Folders \cup {None}]
  /\ content \in [Files -> Contents]
  /\ stamp \in [Files -> BOOLEAN]
  /\ filled \subseteq Folders
  /\ op \in Operations
  /\ step \in {"precheck", "fingerprint", "sourceParent", "destinationParent",
               "open", "verify", "hash", "recheck", "destination", "rename",
               "postSource", "postDestination", "postIdentity", "checkSource",
               "reopen", "reprint", "parent", "make", "madeCheck", "leaf",
               "empty", "remove", "removedCheck", "done"}
  /\ held \in [sp : Dirs \cup {None}, dp : Dirs \cup {None},
               object : Files \cup Folders \cup {None}]
  /\ attempt \in 1..MaxAttempts
  /\ result \in {"none", "applied", "declined", "recovery"}
  /\ touched \subseteq Files \cup Folders
  /\ changes \in 0..MaxChanges

Init ==
  /\ platform \in Platforms
  /\ dirAt = [p \in Paths |-> IF p = "src" THEN SourceDir ELSE TargetDir]
  /\ linked = {}
  /\ op \in Operations
  /\ entry = [d \in Dirs |->
       CASE d = SourceDir /\ op = "rename" -> Approved
         [] d = TargetDir /\ op = "rmdir" -> Created
         [] OTHER -> None]
  /\ content = [f \in Files |-> "approved"]
  /\ stamp = [f \in Files |-> f = Approved]
  /\ filled = {}
  /\ step = "precheck"
  /\ held = NothingHeld
  /\ attempt = 1
  /\ result = "none"
  /\ touched = {}
  /\ changes = 0

(***************************************************************************)
(* The handler's control: go on, answer, or try again.                     *)
(***************************************************************************)
GoTo(s) == step' = s /\ UNCHANGED <<attempt, result>>

Answer(r) == /\ step' = "done"
             /\ result' = r
             /\ held' = NothingHeld
             /\ UNCHANGED attempt

Still == UNCHANGED <<platform, disk, op, touched, changes>>

\* As it would be if an I/O error were taken for a proof.
OutcomeTrustsIo(class) == IF class = "ambiguous" THEN "recovery" ELSE "declined"

\* mutation_error of the executor: an I/O error or an ambiguous outcome asks
\* for recovery, every other class is a proof that nothing was done.
Outcome(class) == IF class \in {"io", "ambiguous"} THEN "recovery" ELSE "declined"

Fail(class) == Answer(Outcome(class))

\* retry_transient_before_mutation: a sharing or lock violation starts the
\* attempt again, every other error and the last attempt's is the answer.
Refused(class) ==
  \/ /\ class = "sharing" /\ attempt < MaxAttempts
     /\ attempt' = attempt + 1
     /\ step' = "precheck"
     /\ held' = NothingHeld
     /\ UNCHANGED result
  \/ (class # "sharing" \/ attempt = MaxAttempts) /\ Fail(class)

Busy ==
  /\ step \in {"fingerprint", "open", "rename"}
  /\ Still
  /\ Refused("sharing")

\* Any query may fail with an I/O error; after the mutation it is ambiguous,
\* and in the inspection before a directory operation it is a refusal.
Breaks ==
  /\ step # "done"
  /\ Fail(CASE step \in {"postSource", "postDestination", "postIdentity"} -> "ambiguous"
            [] step = "precheck" /\ op # "rename" -> "inspection"
            [] OTHER -> "io")
  /\ Still

(***************************************************************************)
(* The parent chain is opened component by component without following     *)
(* links; the descriptor then stays with the directory wherever it goes.   *)
(***************************************************************************)
ChainClass(p) == CASE dirAt[p] = None -> "missing"
                   [] p \in linked -> "reparse"
                   [] OTHER -> "ok"

\* As it would be without the no-follow flag.
ChainFollows(p) == IF dirAt[p] = None THEN "missing" ELSE "ok"

OpenChain(p) == ChainClass(p)

SourceParent ==
  /\ step = "sourceParent"
  /\ Still
  /\ \/ /\ OpenChain("src") = "ok"
        /\ held' = [held EXCEPT !.sp = dirAt["src"]]
        /\ GoTo("destinationParent")
     \/ OpenChain("src") # "ok" /\ Fail(OpenChain("src"))

DestinationParent ==
  /\ step = "destinationParent"
  /\ Still
  /\ \/ /\ OpenChain("dst") = "ok"
        /\ held' = [held EXCEPT !.dp = dirAt["dst"]]
        /\ GoTo("open")
     \/ OpenChain("dst") # "ok" /\ Fail(OpenChain("dst"))

(***************************************************************************)
(* rename: the handler's checks, the adapter's checks, the call, the       *)
(* adapter's checks, the handler's checks.                                 *)
(***************************************************************************)
\* validate_destination_absent before each attempt.
Precheck ==
  /\ op = "rename" /\ step = "precheck"
  /\ Still
  /\ \/ /\ ChainClass("dst") = "ok" /\ At("dst") = None
        /\ GoTo("fingerprint") /\ UNCHANGED held
     \/ ChainClass("dst") # "ok" /\ Fail(ChainClass("dst"))
     \/ ChainClass("dst") = "ok" /\ At("dst") # None /\ Fail("exists")

\* expected_matches: the approved object, single link, size, time and digest.
Expected(f) ==
  /\ f = Approved
  /\ LinkCount(f) = 1
  /\ stamp[f]
  /\ content[f] = "approved"

\* As it would be if the digest were not compared.
ExpectedWithoutDigest(f) == f = Approved /\ LinkCount(f) = 1 /\ stamp[f]

ExpectedMatches(f) == Expected(f)

\* fingerprint_streaming of the source path: on macOS only the last component
\* is opened without following a link, and a missing file is a plain I/O error.
Fingerprint ==
  /\ step = "fingerprint"
  /\ Still
  /\ \/ /\ At("src") \in Files
        /\ platform = "windows" => "src" \notin linked
        /\ \/ /\ ExpectedMatches(At("src")) /\ ParentKey("src") = SourceDir
              /\ GoTo("sourceParent") /\ UNCHANGED held
           \/ /\ ~(ExpectedMatches(At("src")) /\ ParentKey("src") = SourceDir)
              /\ Fail("precondition")
     \/ At("src") = None /\ Fail(IF platform = "macos" THEN "io" ELSE "missing")
     \/ At("src") \in Folders /\ Fail("unsupported")
     \/ platform = "windows" /\ "src" \in linked /\ Fail("reparse")

OpenSource ==
  /\ step = "open"
  /\ Still
  /\ \/ /\ entry[held.sp] \in Files
        /\ held' = [held EXCEPT !.object = entry[held.sp]]
        /\ GoTo(IF platform = "windows" THEN "destination" ELSE "verify")
     \/ entry[held.sp] = None /\ Fail("missing")
     \/ entry[held.sp] \in Folders /\ Fail("precondition")

\* As it would be if the place were compared and not the object.
PlaceHolds ==
  /\ LinkCount(held.object) = 1
  /\ (IF platform = "macos" THEN ParentKey("src") ELSE held.sp) = SourceDir

\* exact_identity_matches, size and time of the open file.  macOS reads the
\* parent through the path, Windows from the handle it holds.
IdentityHolds ==
  /\ held.object = Approved
  /\ LinkCount(Approved) = 1
  /\ stamp[Approved]
  /\ (IF platform = "macos" THEN ParentKey("src") ELSE held.sp) = SourceDir

Verify(here, next) ==
  /\ step = here
  /\ Still
  /\ \/ IdentityHolds /\ GoTo(next) /\ UNCHANGED held
     \/ /\ ~IdentityHolds
        /\ Fail(IF platform = "macos" /\ dirAt["src"] = None
                THEN "io" ELSE "precondition")

Hash ==
  /\ step = "hash"
  /\ Still
  /\ \/ content[held.object] = "approved" /\ GoTo("recheck") /\ UNCHANGED held
     \/ content[held.object] # "approved" /\ Fail("precondition")

\* The absence of the destination: on macOS after the last recheck, on Windows
\* before the hash, where it is only advisory.
DestinationAbsent ==
  /\ step = "destination"
  /\ Still
  /\ \/ /\ entry[held.dp] = None
        /\ GoTo(IF platform = "windows" THEN "verify" ELSE "rename")
        /\ UNCHANGED held
     \/ entry[held.dp] # None /\ Fail("exists")

\* macOS renames what the name stands for now, Windows the open file.
Renamed == IF platform = "macos" THEN entry[held.sp] ELSE held.object

\* renameatx_np with RENAME_EXCL, NtSetInformationFile without ReplaceIfExists.
MayRename == entry[held.dp] = None

\* As it would be with a call that replaces.
MayReplace == TRUE

NoReplace == MayRename

Rename ==
  /\ step = "rename"
  /\ \/ /\ Renamed # None /\ NoReplace
        /\ entry' = [entry EXCEPT ![held.sp] = None, ![held.dp] = Renamed]
        /\ touched' = touched \cup {Renamed}
        /\ GoTo("postSource")
        /\ UNCHANGED <<platform, dirAt, linked, content, stamp, filled, held, op, changes>>
     \/ Renamed = None /\ Fail("missing") /\ Still
     \/ Renamed # None /\ ~NoReplace /\ Fail("exists") /\ Still

\* The system performs the rename and reports an error of the call.
RenameMisreported ==
  /\ step = "rename" /\ Renamed # None /\ NoReplace
  /\ entry' = [entry EXCEPT ![held.sp] = None, ![held.dp] = Renamed]
  /\ touched' = touched \cup {Renamed}
  /\ \E class \in Misreports : Refused(class)
  /\ UNCHANGED <<platform, dirAt, linked, content, stamp, filled, op, changes>>

\* As it would be if the errors after the call were classified like the ones
\* before it.
Unclassified(class) == "exists"

AfterCall(class) == class

PostSource ==
  /\ step = "postSource"
  /\ Still
  /\ \/ entry[held.sp] = None /\ GoTo("postDestination") /\ UNCHANGED held
     \/ entry[held.sp] # None /\ Fail(AfterCall("ambiguous"))

PostDestination ==
  /\ step = "postDestination"
  /\ Still
  /\ \/ entry[held.dp] = held.object /\ GoTo("postIdentity") /\ UNCHANGED held
     \/ entry[held.dp] # held.object /\ Fail(AfterCall("ambiguous"))

\* The single link of the object; macOS also needs the destination's parent to
\* exist at its path, of which it takes the identity without comparing it.
PostIdentity ==
  /\ step = "postIdentity"
  /\ Still
  /\ LET proved == /\ LinkCount(held.object) = 1
                   /\ platform = "macos" => dirAt["dst"] # None
     IN \/ proved /\ GoTo("checkSource") /\ held' = NothingHeld
        \/ ~proved /\ Fail(AfterCall("ambiguous"))

\* The handler then looks for itself, by path.
CheckSource ==
  /\ step = "checkSource"
  /\ Still
  /\ LET absent == ChainClass("src") = "ok" /\ At("src") = None
     IN \/ absent /\ GoTo("reopen") /\ UNCHANGED held
        \/ ~absent /\ Answer("recovery")

Reopen ==
  /\ step = "reopen"
  /\ Still
  /\ LET opens == /\ At("dst") \in Files
                  /\ platform = "windows" => "dst" \notin linked
     IN \/ /\ opens
           /\ held' = [held EXCEPT !.object = At("dst")]
           /\ GoTo("reprint")
        \/ ~opens /\ Answer("recovery")

Reprint ==
  /\ step = "reprint"
  /\ Still
  /\ \/ ExpectedMatches(held.object) /\ Answer("applied")
     \/ ~ExpectedMatches(held.object) /\ Answer("recovery")

(***************************************************************************)
(* create_directory and remove_directory: the handler looks by path, the   *)
(* adapter opens the parent, acts on the name and looks again.             *)
(***************************************************************************)
\* Before: nothing at the path, or an empty folder that is not a link.
DirectoryPrecheck ==
  /\ op \in {"mkdir", "rmdir"} /\ step = "precheck"
  /\ Still
  /\ LET admissible == IF op = "mkdir" THEN At("dst") = None
                       ELSE At("dst") \in Folders \ filled
     IN \/ admissible /\ GoTo("parent") /\ UNCHANGED held
        \/ ~admissible /\ Answer("declined")

DirectoryParent ==
  /\ step = "parent"
  /\ Still
  /\ \/ /\ OpenChain("dst") = "ok"
        /\ held' = [held EXCEPT !.dp = dirAt["dst"]]
        /\ GoTo(IF op = "mkdir" THEN "make" ELSE "leaf")
     \/ OpenChain("dst") # "ok" /\ Fail(OpenChain("dst"))

Make ==
  /\ step = "make"
  /\ \/ /\ entry[held.dp] = None
        /\ entry' = [entry EXCEPT ![held.dp] = Created]
        /\ touched' = touched \cup {Created}
        /\ GoTo("madeCheck")
        /\ UNCHANGED <<platform, dirAt, linked, content, stamp, filled, held, op, changes>>
     \/ entry[held.dp] # None /\ Fail("exists") /\ Still

\* The adapter's look at the new name and then the handler's at the path.
MadeCheck ==
  /\ step = "madeCheck"
  /\ Still
  /\ Answer(IF entry[held.dp] \in Folders /\ At("dst") \in Folders
            THEN "applied" ELSE Outcome(AfterCall("ambiguous")))

LeafFolder ==
  /\ step = "leaf"
  /\ Still
  /\ \/ /\ entry[held.dp] \in Folders
        /\ held' = [held EXCEPT !.object = entry[held.dp]]
        /\ GoTo(IF platform = "windows" THEN "remove" ELSE "empty")
     \/ entry[held.dp] = None /\ Fail("missing")
     \/ entry[held.dp] \in Files /\ Fail("precondition")

\* Only macOS reads the folder before removing its name.
EmptyFolder ==
  /\ step = "empty"
  /\ Still
  /\ \/ held.object \notin filled /\ GoTo("remove") /\ UNCHANGED held
     \/ held.object \in filled /\ Fail("precondition")

\* unlinkat removes what the name stands for now, the disposition of the
\* Windows handle the open folder; both refuse a folder with contents.
Removed == IF platform = "macos" THEN entry[held.dp] ELSE held.object

Removable(object) == object \in Folders \ filled

Remove ==
  /\ step = "remove"
  /\ \/ /\ Removable(Removed)
        /\ entry' = [d \in Dirs |-> IF entry[d] = Removed THEN None ELSE entry[d]]
        /\ touched' = touched \cup {Removed}
        /\ GoTo("removedCheck")
        /\ UNCHANGED <<platform, dirAt, linked, content, stamp, filled, held, op, changes>>
     \/ ~Removable(Removed) /\ Fail("precondition") /\ Still

RemovedCheck ==
  /\ step = "removedCheck"
  /\ Still
  /\ Answer(IF /\ platform = "macos" => entry[held.dp] = None
               /\ At("dst") = None
            THEN "applied" ELSE Outcome(AfterCall("ambiguous")))

HandlerStep ==
  \/ Precheck \/ Fingerprint \/ SourceParent \/ DestinationParent \/ OpenSource
  \/ Verify("verify", "hash") \/ Hash
  \/ Verify("recheck", IF platform = "windows" THEN "rename" ELSE "destination")
  \/ DestinationAbsent \/ Rename \/ RenameMisreported
  \/ PostSource \/ PostDestination \/ PostIdentity
  \/ CheckSource \/ Reopen \/ Reprint
  \/ DirectoryPrecheck \/ DirectoryParent \/ Make \/ MadeCheck
  \/ LeafFolder \/ EmptyFolder \/ Remove \/ RemovedCheck

(***************************************************************************)
(* The other process, until the answer is given.                           *)
(***************************************************************************)
Other == /\ result = "none"
         /\ changes < MaxChanges
         /\ changes' = changes + 1
         /\ UNCHANGED <<platform, op, step, held, attempt, result, touched>>

\* A file or folder that is nowhere appears under a free name.
Appear(object, d) ==
  /\ LinkCount(object) = 0 /\ object \in {Foreign, Stranger}
  /\ entry[d] = None
  /\ entry' = [entry EXCEPT ![d] = object]
  /\ UNCHANGED <<dirAt, linked, content, stamp, filled>>

\* rename of another process: it replaces a file.
MoveAway(from, to) ==
  /\ from # to /\ entry[from] # None /\ ~Locked(entry[from])
  /\ entry[to] \in {None, Foreign}
  /\ entry' = [entry EXCEPT ![from] = None, ![to] = entry[from]]
  /\ UNCHANGED <<dirAt, linked, content, stamp, filled>>

HardLink(from, to) ==
  /\ entry[from] \in Files /\ entry[to] = None
  /\ entry' = [entry EXCEPT ![to] = entry[from]]
  /\ UNCHANGED <<dirAt, linked, content, stamp, filled>>

\* A write, which may leave or restore the modification time.
Write(f) ==
  /\ ~Locked(f)
  /\ \E c \in Contents, s \in {stamp[f], FALSE} :
       /\ content' = [content EXCEPT ![f] = c]
       /\ stamp' = [stamp EXCEPT ![f] = s]
  /\ UNCHANGED <<dirAt, linked, entry, filled>>

Fill(folder) ==
  /\ LinkCount(folder) > 0 /\ folder \notin filled
  /\ filled' = filled \cup {folder}
  /\ UNCHANGED <<dirAt, linked, entry, content, stamp>>

\* The directory of a path is moved away, and the path is left empty, given to
\* another directory of the root, or made a link.
Redirect(p) ==
  /\ dirAt[p] # None => \/ p \in linked
                        \/ ~Locked(entry[dirAt[p]])
  /\ \/ /\ dirAt' = [dirAt EXCEPT ![p] = None]
        /\ linked' = linked \ {p}
     \/ \E d \in Inside : /\ \A q \in Paths \ {p} : dirAt[q] # d \/ q \in linked
                          /\ dirAt' = [dirAt EXCEPT ![p] = d]
                          /\ linked' = linked \ {p}
     \/ \E d \in Dirs : /\ dirAt' = [dirAt EXCEPT ![p] = d]
                        /\ linked' = linked \cup {p}
  /\ UNCHANGED <<entry, content, stamp, filled>>

OtherStep ==
  /\ Other
  /\ \/ \E object \in {Foreign, Stranger}, d \in Dirs : Appear(object, d)
     \/ \E from, to \in Dirs : MoveAway(from, to)
     \/ \E from, to \in Dirs : HardLink(from, to)
     \/ \E f \in Files : Write(f)
     \/ \E folder \in Folders : Fill(folder)
     \/ \E p \in Paths : Redirect(p)

Answered == result # "none" /\ UNCHANGED vars

Next == HandlerStep \/ Busy \/ Breaks \/ OtherStep \/ Answered

Spec == Init /\ [][Next]_vars

(***************************************************************************)
(* Properties.                                                             *)
(***************************************************************************)
\* An operation answered as proven not applied has moved, made and removed
\* nothing, in any of its attempts and whatever the other process did between
\* the system calls: the journal marks it aborted on that answer
\* (mutation_error and the adapters' AmbiguousMutationOutcome).
DeclinedIsUntouched == result = "declined" => touched = {}

AppliedIsApprovedStep ==
  op = "rename" /\ result = "none" /\ result' = "applied" =>
       touched # {} /\ Expected(Approved)

\* When a move is answered as applied, something was moved and the approved
\* file has the approved content, time and single link after the move, although
\* the checks before the call were made one by one while another process could
\* write, link and rename: a write between the last hash and the rename, which
\* the adapter's own checks after the call do not see, is not reported as a
\* success.
AppliedIsApproved == [][AppliedIsApprovedStep]_vars

ObjectsSurviveStep ==
  changes' = changes =>
       \A object \in Files \cup Folders :
          LinkCount(object) > 0 /\ LinkCount(object)' = 0 =>
            object \in Folders \ filled

\* No step of a handler makes an object disappear from the disk, except an
\* empty folder it removes: a file that appears at the destination between the
\* absence check and the call, or in a folder between the emptiness check and
\* the removal, survives.
ObjectsSurvive == [][ObjectsSurviveStep]_vars

OutsideIsUntouchedStep == changes' = changes => entry'[Outside] = entry[Outside]

\* A directory outside the root, which only a link leads to, is never changed
\* by a handler: a parent replaced by a link after the plan was made does not
\* redirect the operation.
OutsideIsUntouched == [][OutsideIsUntouchedStep]_vars

\* Only the approved file is ever moved, whatever takes its name meanwhile: on
\* Windows the rename is made on the open, verified file.  On macOS it is made
\* on the name, and there the code does not keep it: see the README.
OnlyApprovedIsMoved ==
  platform = "windows" /\ op = "rename" => touched \subseteq {Approved}

\* A folder removed by a rollback is the one the execution created.
\* The code does not keep it: see the README.
RemovedWasCreated == op = "rmdir" => touched \subseteq {Created}
=============================================================================

------------------------ MODULE CrossVolumeTransfer -------------------------
(***************************************************************************)
(* CrossVolumeTransferService::execute: a file goes to another volume by a *)
(* verified copy, a rename of the source into a recovery vault, and a      *)
(* rename of the copy onto the destination, each announced in the journal. *)
(* Another process works on the same paths, every call may fail, and the   *)
(* program may stop between any two steps.                                 *)
(*                                                                         *)
(* The gate of the service is closed in every build                        *)
(* (metadata_preservation_audited is false); with Enabled = TRUE the model *)
(* is that of the code behind it.                                          *)
(*                                                                         *)
(* A path is a name of the disk; a plan gives a path to each of its four   *)
(* roles.  A file is its identity and its content.                         *)
(***************************************************************************)
EXTENDS Integers, Sequences, SequencesExt

CONSTANTS
  Enabled,      \* whether the gate of the service is open
  None,
  MaxChanges    \* bound on the steps of the other process

Paths == {"s", "v", "t", "d"}
DirOf(p) == CASE p = "s" -> "A" [] p = "v" -> "B" [] OTHER -> "D"
Dirs == {"A", "B", "D"}
Volumes == {"v1", "v2", "usb"}
Fixed == {"v1", "v2"}         \* local, not removable, NTFS
Roles == {"source", "destination", "vault", "temporary"}

File(id, content) == [id |-> id, content |-> content]
Original == File("original", "approved")
Files ==
  [id : {"original", "copy", "other"}, content : {"approved", "edited", "torn", "foreign"}]

\* What is assumed of the parameters.
TransferAssumption ==
  /\ None \notin Files \cup {"disabled", "mismatch", "exists", "changed", "volume"}
  /\ Enabled \in BOOLEAN /\ MaxChanges \in Nat

VARIABLES
  plan,       \* the path of each role
  approval,   \* the plan the user approved: this one or another
  volume,     \* the volume of each directory
  at,         \* the file at each path
  journal,    \* the events on the journal
  pc,         \* the next step of execute
  print,      \* the last fingerprint taken
  outcome,    \* what execute answered
  alive,      \* the files nobody but the service could have lost (history)
  touched,    \* the paths the other process changed (history)
  changes

vars == <<plan, approval, volume, at, journal, pc, print, outcome, alive, touched,
          changes>>

\* CrossVolumeTransferDraft::seal
Seal(p) ==
  /\ p["source"] # p["destination"]
  /\ p["source"] # p["vault"]
  /\ p["destination"] # p["vault"]
  /\ DirOf(p["destination"]) = DirOf(p["temporary"])

\* validate_volumes
ValidateVolumes ==
  LET v(role) == volume[DirOf(plan[role])]
  IN /\ {v("source"), v("vault"), v("destination")} \subseteq Fixed
     /\ v("source") = v("vault")
     /\ v("source") # v("destination")

Init ==
  /\ plan \in {p \in [Roles -> Paths] : p["source"] = "s" /\ Seal(p)}
  /\ approval \in {"this", "another"}
  /\ volume \in [Dirs -> Volumes]
  /\ at = [p \in Paths |-> IF p = "s" THEN Original ELSE None]
  /\ journal = <<>> /\ pc = "check" /\ print = None /\ outcome = "none"
  /\ alive = {"original"} /\ touched = {} /\ changes = 0

(***************************************************************************)
(* The other process, and the operating system.                            *)
(***************************************************************************)
Meddle(p, file) ==
  /\ changes < MaxChanges
  /\ changes' = changes + 1
  /\ at' = [at EXCEPT ![p] = file]
  /\ touched' = touched \cup {p}
  /\ UNCHANGED <<plan, approval, volume, journal, pc, print, outcome>>

Put(p) ==
  /\ at[p] = None /\ "other" \notin alive
  /\ Meddle(p, File("other", "foreign"))
  /\ alive' = alive \cup {"other"}

Edit(p) ==
  /\ at[p] # None
  /\ Meddle(p, [at[p] EXCEPT !.content = "edited"])
  /\ UNCHANGED alive

Take(p) ==
  /\ at[p] # None
  /\ Meddle(p, None)
  /\ alive' = alive \ {at[p].id}

(***************************************************************************)
(* The steps of execute.                                                   *)
(***************************************************************************)
Constant == UNCHANGED <<plan, approval, volume, touched, changes>>

Goto(next) == pc' = next /\ UNCHANGED outcome

End(answer) == pc' = "ended" /\ outcome' = answer

Refuse(answer) == End(answer) /\ UNCHANGED <<at, journal, print, alive>>

\* The gate, the approval, the paths that must be free, the source and the volumes.
Refusal ==
  CASE ~Enabled -> "disabled"
    [] approval # "this" -> "mismatch"
    [] \E r \in {"destination", "temporary", "vault"} : at[plan[r]] # None -> "exists"
    [] at[plan["source"]] # Original -> "changed"
    [] ~ValidateVolumes -> "volume"
    [] OTHER -> None

Check ==
  /\ pc = "check"
  /\ Constant
  /\ \/ Refusal # None /\ Refuse(Refusal)
     \/ Refusal = None /\ Goto("approve") /\ UNCHANGED <<at, journal, print, alive>>

\* As it would be if an error of the journal were passed over.
AppendAnyway(event, next) ==
  /\ Constant
  /\ Goto(next)
  /\ journal' \in {journal, Append(journal, event)}
  /\ UNCHANGED <<at, print, alive>>

\* append_event: append and flush.  A failure may leave the event there.
AppendEvent(event, next) ==
  /\ Constant
  /\ \/ journal' = Append(journal, event) /\ Goto(next)
     \/ journal' \in {journal, Append(journal, event)} /\ End("journal")
  /\ UNCHANGED <<at, print, alive>>

Journalled ==
  \/ pc = "approve" /\ AppendEvent("approved", "intent_copy")
  \/ pc = "intent_copy" /\ AppendEvent("intent_copy", "read")
  \/ pc = "copied" /\ AppendEvent("applied_copy", "intent_vault")
  \/ pc = "intent_vault" /\ AppendEvent("intent_vault", "vault")
  \/ pc = "vaulted" /\ AppendEvent("applied_vault", "intent_publish")
  \/ pc = "intent_publish" /\ AppendEvent("intent_publish", "fingerprint")
  \/ pc = "published" /\ AppendEvent("applied_publish", "finish")
  \/ pc = "finish" /\ AppendEvent("finished", "answer")

\* copy_verified: the whole source is read,
ReadSource ==
  /\ pc = "read"
  /\ Constant
  /\ \/ /\ at[plan["source"]] # None /\ at[plan["source"]].content = "approved"
        /\ Goto("create")
     \/ End("changed")
  /\ UNCHANGED <<at, journal, print, alive>>

\* As it would be with create and truncate instead of create_new.
MayCreateOver(p) == TRUE

MayCreate(p) == at[p] = None

\* the temporary file is created, never opened, and may be left unfinished,
CreateTemporary ==
  /\ pc = "create"
  /\ Constant
  /\ \/ /\ MayCreate(plan["temporary"])
        /\ \/ /\ at' = [at EXCEPT ![plan["temporary"]] = File("copy", "approved")]
              /\ Goto("reread")
           \/ /\ at' = [at EXCEPT ![plan["temporary"]] = File("copy", "torn")]
              /\ End("io")
        /\ alive' = alive \cup {"copy"}
     \/ End("io") /\ UNCHANGED <<at, alive>>
  /\ UNCHANGED <<journal, print>>

\* and read again.
RereadTemporary ==
  /\ pc = "reread"
  /\ Constant
  /\ \/ /\ at[plan["temporary"]] # None /\ at[plan["temporary"]].content = "approved"
        /\ Goto("copied")
     \/ End("unverified")
  /\ UNCHANGED <<at, journal, print, alive>>

\* rename_same_volume_no_replace: only the expected file, only onto a free name.
MayRename(from, to, expected) == at[from] = expected /\ at[to] = None

Moved(from, to) == at' = [at EXCEPT ![to] = at[from], ![from] = None]

\* It may fail whatever the disk is like, also when the file has moved.
RenameNoReplace(from, to, expected, ok, failed) ==
  \/ MayRename(from, to, expected) /\ Moved(from, to) /\ (ok \/ failed)
  \/ UNCHANGED at /\ failed

VaultSource ==
  /\ pc = "vault"
  /\ Constant
  /\ RenameNoReplace(plan["source"], plan["vault"], Original,
                     Goto("vaulted"), End("platform"))
  /\ UNCHANGED <<journal, print, alive>>

\* As it would be if the copy were not compared again.
AnyCopy(file) == TRUE

VerifiedCopy(file) == file.content = "approved"

FingerprintTemporary ==
  /\ pc = "fingerprint"
  /\ Constant
  /\ \/ /\ at[plan["temporary"]] # None
        /\ print' = at[plan["temporary"]]
        /\ IF VerifiedCopy(print') THEN Goto("publish") ELSE End("unverified")
     \/ End("platform") /\ UNCHANGED print
  /\ UNCHANGED <<at, journal, alive>>

Publish ==
  /\ pc = "publish"
  /\ Constant
  /\ RenameNoReplace(plan["temporary"], plan["destination"], print,
                     Goto("published"), Goto("inspect_vault"))
  /\ UNCHANGED <<journal, print, alive>>

\* The publication failed: whatever is in the vault goes back.
InspectVault ==
  /\ pc = "inspect_vault"
  /\ Constant
  /\ \/ at[plan["vault"]] # None /\ print' = at[plan["vault"]] /\ Goto("restore")
     \/ End("platform") /\ UNCHANGED print
  /\ UNCHANGED <<at, journal, alive>>

\* As it would be if the answer did not depend on the rename.
AlwaysRestored == End("restored")

NotRestored == End("manual_review")

Restore ==
  /\ pc = "restore"
  /\ Constant
  /\ RenameNoReplace(plan["vault"], plan["source"], print, End("restored"), NotRestored)
  /\ UNCHANGED <<journal, print, alive>>

\* The receipt.
Answer ==
  /\ pc = "answer"
  /\ Constant
  /\ End("receipt")
  /\ UNCHANGED <<at, journal, print, alive>>

\* The program stops.
Crash ==
  /\ pc # "ended"
  /\ Constant
  /\ Refuse("crashed")

Execute ==
  \/ Check \/ Journalled \/ ReadSource \/ CreateTemporary \/ RereadTemporary
  \/ VaultSource \/ FingerprintTemporary \/ Publish \/ InspectVault \/ Restore \/ Answer

Other == \E p \in Paths : Put(p) \/ Edit(p) \/ Take(p)

Next == Execute \/ Crash \/ Other

Spec == Init /\ [][Next]_vars

(***************************************************************************)
(* Properties.                                                             *)
(***************************************************************************)
TypeOK ==
  /\ plan \in [Roles -> Paths] /\ volume \in [Dirs -> Volumes]
  /\ at \in [Paths -> Files \cup {None}]
  /\ outcome \in {"none", "disabled", "mismatch", "exists", "changed", "volume", "journal",
                  "io", "unverified", "platform", "restored", "manual_review", "receipt", "crashed"}
  /\ (pc = "ended") = (outcome # "none")
  /\ changes \in 0..MaxChanges

\* Whatever the service answers, fails at or is stopped at, every file the other
\* process has not itself removed is still under one of the names: no rename
\* and no copy of execute puts a file in the place of another.
NothingIsLost == \A id \in alive : \E p \in Paths : at[p] # None /\ at[p].id = id

EveryMoveIsAnnouncedStep ==
  (at' # at /\ changes' = changes) =>
       /\ journal # <<>>
       /\ Last(journal) = CASE pc = "create" -> "intent_copy"
                            [] pc = "vault" -> "intent_vault"
                            [] OTHER -> "intent_publish"

\* Each change execute makes to the disk follows the intent of that change as
\* the last event of the journal, so that a crash after it is explained
\* (append_intent before copy_verified and before each rename).  Only the way
\* back from a failed publication has no intent of its own.
EveryMoveIsAnnounced == [][EveryMoveIsAnnouncedStep]_vars

PublishedIsApprovedStep ==
  (pc = "publish" /\ at' # at /\ changes' = changes) =>
       /\ at'[plan["destination"]].content = "approved"
       /\ at[plan["vault"]] = Original \/ plan["vault"] \in touched

\* The file that appears at the destination has the approved content, and the
\* approved original is in the vault by then, unless the other process has been
\* there: neither an edit of the copy after its verification nor one of the
\* source before the vault gets through.
PublishedIsApproved == [][PublishedIsApprovedStep]_vars

\* What the answer says of the disk is true unless the other process has been
\* there: a receipt means the approved content at the destination and the
\* original in the vault; "restored" the file of the vault back at the source; a
\* refusal before the journal was opened that nothing was done.
AnswerIsTrue ==
  /\ outcome = "receipt" =>
       /\ at[plan["destination"]] = File("copy", "approved")
            \/ {plan["destination"], plan["temporary"]} \cap touched # {}
       /\ at[plan["vault"]] = Original \/ plan["vault"] \in touched
  /\ outcome = "restored" =>
       \/ at[plan["source"]] = Original
       \/ {plan["source"], plan["vault"]} \cap touched # {}
  /\ outcome \in {"disabled", "mismatch", "exists", "volume"} => journal = <<>> /\ "copy" \notin alive
=============================================================================

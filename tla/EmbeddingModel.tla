--------------------------- MODULE EmbeddingModel ---------------------------
(***************************************************************************)
(* The local embedding model: its directory with the status file, the      *)
(* staging and the backup directory, the session in memory, and the        *)
(* commands that verify, install, load and remove it.                      *)
(*                                                                         *)
(* An asset in a directory is good (size and digest of the manifest) or    *)
(* bad.  The commands run in threads of their own and share the disk       *)
(* without a lock; only the session is behind a mutex, which ensure_loaded *)
(* holds while it loads.  Hashing the assets and saving the status that    *)
(* follows are two steps.  Removing or renaming a directory is one step.   *)
(***************************************************************************)
EXTENDS Integers, FiniteSets

CONSTANTS
    Assets,       \* manifest.assets
    EnvSources,   \* what SUPREMACY_LOCAL_EMBEDDING_MODEL_DIR may hold, {} when unset
    Installers,   \* threads that run the activate or retry command
    Removers,     \* threads that run the remove command
    Embedders,    \* threads that run embed_batch
    MaxCommands,  \* bound: commands and embeddings started
    MaxCrashes,   \* bound: crashes
    OneCommand,   \* the search view stays open: its buttons wait (modelBusy)
    Bad           \* downloads may arrive with the right size and wrong bytes

VARIABLES
    dir,        \* the model directory
    staging,    \* <model>.download
    backup,     \* <model>.bak
    loaded,     \* the session in memory
    lock,       \* the thread that holds the session's mutex
    cancel,     \* model_install_cancel
    thread,     \* what each thread is doing
    commands, crashes,
    gone        \* history: the last command that ended was a removal and
                \* no installation has begun since

vars == <<dir, staging, backup, loaded, lock, cancel, thread, commands,
          crashes, gone>>

Threads == Installers \cup Removers \cup Embedders
Nobody == "nobody"
Absent == [exists |-> FALSE, good |-> {}, bad |-> {}, status |-> "none"]
Fresh == [Absent EXCEPT !.exists = TRUE]
Idle == [pc |-> "idle", todo |-> {}, seen |-> "none", end |-> "none"]

\* get_status: a directory without a status file reads as not installed.
Status == IF dir.status = "none" THEN "not_installed" ELSE dir.status
Available == Status = "ready"

\* save_state creates the directory when it is missing.
Saved(d, status) == [d EXCEPT !.exists = TRUE, !.status = status]

VerifyBySize(d) ==
    IF d.good \cup d.bad # Assets THEN "not_installed" ELSE "ready"

\* verify: the status it is about to save.
Verify(d) ==
    IF d.good \cup d.bad # Assets THEN "not_installed"
    ELSE IF d.bad # {} THEN "corrupt"
    ELSE "ready"

Goto(t, pc) == thread' = [thread EXCEPT ![t].pc = pc]
End(t, how) == thread' = [thread EXCEPT ![t] = [Idle EXCEPT !.end = how]]

Init ==
    /\ dir \in {Absent} \cup
              {Saved([Fresh EXCEPT !.good = g, !.bad = b],
                     Verify([good |-> g, bad |-> b])) :
                  <<g, b>> \in {x \in (SUBSET Assets) \X (SUBSET Assets) :
                                  x[1] \cap x[2] = {}}}
    /\ staging = Absent
    /\ backup = Absent
    /\ loaded = FALSE
    /\ lock = Nobody
    /\ cancel = FALSE
    /\ thread = [t \in Threads |-> Idle]
    /\ commands = 0
    /\ crashes = 0
    /\ gone = FALSE

Begin ==
    /\ commands < MaxCommands
    /\ commands' = commands + 1

\* A button of the view is enabled again when its command has ended, or when
\* the view was left and opened again.
ButtonEnabled ==
    OneCommand => \A t \in Installers \cup Removers : thread[t].pc = "idle"

-----------------------------------------------------------------------------
(* activate_local_embedding_model and retry_local_embedding_model *)

StartInstall(t) ==
    /\ thread[t].pc = "idle"
    /\ ButtonEnabled
    /\ Begin
    /\ cancel' = FALSE
    /\ gone' = FALSE
    /\ \/ UNCHANGED loaded                       \* activate
       \/ lock = Nobody /\ loaded' = FALSE        \* retry unloads first
    /\ thread' = [thread EXCEPT ![t] = [Idle EXCEPT !.pc = "verify"]]
    /\ UNCHANGED <<dir, staging, backup, lock, crashes>>

CancelInstall ==
    /\ ~cancel
    /\ cancel' = TRUE
    /\ UNCHANGED <<dir, staging, backup, loaded, lock, thread, commands, crashes,
                   gone>>

\* verify reads the assets, then saves what it saw.
Hash(t) ==
    /\ thread[t].pc \in {"verify", "recheck", "final", "ensure"}
    /\ thread' = [thread EXCEPT ![t].seen = Verify(dir),
                      ![t].pc = CASE @ = "verify" -> "verified"
                                  [] @ = "recheck" -> "rechecked"
                                  [] @ = "final" -> "finished"
                                  [] @ = "ensure" -> "ensured"]
    /\ UNCHANGED <<dir, staging, backup, loaded, lock, cancel, commands, crashes,
                   gone>>

VerifyInstalled(t) ==
    /\ thread[t].pc = "verified"
    /\ dir' = Saved(dir, thread[t].seen)
    /\ IF thread[t].seen = "ready" THEN End(t, "ok") ELSE Goto(t, "env")
    /\ UNCHANGED <<staging, backup, loaded, lock, cancel, commands, crashes,
                   gone>>

\* activate_from_env unloads, and copies the assets over those in place; a
\* missing one ends the copy with the status saved.
RegisterFromEnv(t) ==
    /\ thread[t].pc = "env"
    /\ lock = Nobody
    /\ loaded' = FALSE
    /\ \E source \in EnvSources :
        LET copied == [dir EXCEPT !.exists = TRUE, !.good = @ \cup source,
                                  !.bad = @ \ source]
        IN \/ /\ source = {}
              /\ Goto(t, "begin")
              /\ UNCHANGED dir
           \/ /\ source = Assets
              /\ Goto(t, "recheck")
              /\ dir' = copied
           \/ /\ source \notin {{}, Assets}
              /\ Goto(t, "begin")
              /\ dir' = Saved(copied, "not_installed")
    /\ UNCHANGED <<staging, backup, lock, cancel, commands, crashes, gone>>

RegisterVerified(t) ==
    /\ thread[t].pc = "rechecked"
    /\ dir' = Saved(dir, thread[t].seen)
    /\ IF thread[t].seen = "corrupt" THEN Goto(t, "begin") ELSE End(t, "ok")
    /\ UNCHANGED <<staging, backup, loaded, lock, cancel, commands, crashes,
                   gone>>

-----------------------------------------------------------------------------
(* install_from_pinned_network *)

BeginInstall(t) ==
    /\ thread[t].pc = "begin"
    /\ lock = Nobody
    /\ loaded' = FALSE
    /\ \/ /\ staging' = Fresh
          /\ thread' = [thread EXCEPT ![t].pc = "mark", ![t].todo = Assets]
       \/ /\ End(t, "failed")          \* no room on the disk
          /\ UNCHANGED staging
    /\ UNCHANGED <<dir, backup, lock, cancel, commands, crashes, gone>>

MarkDownloading(t) ==
    /\ thread[t].pc = "mark"
    /\ dir' = Saved(dir, "downloading")
    /\ Goto(t, "asset")
    /\ UNCHANGED <<staging, backup, loaded, lock, cancel, commands, crashes,
                   gone>>

AbortInstall(t) ==
    /\ thread[t].pc = "asset"
    /\ cancel
    /\ staging' = Absent
    /\ dir' = Saved(dir, "not_installed")
    /\ End(t, "cancelled")
    /\ UNCHANGED <<backup, loaded, lock, cancel, commands, crashes, gone>>

StartFetch(t) ==
    /\ thread[t].pc = "asset"
    /\ ~cancel
    /\ thread[t].todo # {}
    /\ Goto(t, "fetch")
    /\ UNCHANGED <<dir, staging, backup, loaded, lock, cancel, commands, crashes,
                   gone>>

\* fetch_to_file and verify_asset_file: the asset arrives, or arrives with
\* the wrong bytes, or the transfer fails or sees the cancellation.
Fetch(t) ==
    /\ thread[t].pc = "fetch"
    /\ \E a \in thread[t].todo :
        \/ /\ staging' = [staging EXCEPT !.exists = TRUE, !.good = @ \cup {a},
                                         !.bad = @ \ {a}]
           /\ thread' = [thread EXCEPT ![t].pc = "asset", ![t].todo = @ \ {a}]
        \/ /\ Bad
           /\ staging' = [staging EXCEPT !.exists = TRUE, !.bad = @ \cup {a},
                                         !.good = @ \ {a}]
           /\ End(t, "failed")
        \/ /\ ~cancel
           /\ End(t, "failed")
           /\ UNCHANGED staging
        \/ /\ cancel
           /\ End(t, "cancelled")
           /\ UNCHANGED staging
    /\ UNCHANGED <<dir, backup, loaded, lock, cancel, commands, crashes, gone>>

MarkInstalling(t) ==
    /\ thread[t].pc = "asset"
    /\ ~cancel
    /\ thread[t].todo = {}
    /\ dir' = Saved(dir, "installing")
    /\ Goto(t, "backup")
    /\ UNCHANGED <<staging, backup, loaded, lock, cancel, commands, crashes,
                   gone>>

BackUp(t) ==
    /\ thread[t].pc = "backup"
    /\ backup' = IF dir.exists THEN dir ELSE Absent
    /\ dir' = Absent
    /\ Goto(t, "promote")
    /\ UNCHANGED <<staging, loaded, lock, cancel, commands, crashes, gone>>

\* The rename of the staging directory fails when it has gone or when another
\* thread has created the model directory again; the backup then goes back
\* if the place is free.
Promote(t) ==
    /\ thread[t].pc = "promote"
    /\ IF staging.exists /\ ~dir.exists
       THEN /\ dir' = staging
            /\ staging' = Absent
            /\ backup' = backup
            /\ Goto(t, "drop")
       ELSE /\ dir' = IF ~dir.exists THEN backup ELSE dir
            /\ backup' = IF ~dir.exists THEN Absent ELSE backup
            /\ staging' = staging
            /\ End(t, "failed")
    /\ UNCHANGED <<loaded, lock, cancel, commands, crashes, gone>>

DropBackup(t) ==
    /\ thread[t].pc = "drop"
    /\ backup' = Absent
    /\ Goto(t, "final")
    /\ UNCHANGED <<dir, staging, loaded, lock, cancel, commands, crashes, gone>>

FinishInstall(t) ==
    /\ thread[t].pc = "finished"
    /\ dir' = IF thread[t].seen = "corrupt" THEN Saved(Absent, "corrupt")
              ELSE Saved(dir, thread[t].seen)
    /\ End(t, IF thread[t].seen = "corrupt" THEN "failed" ELSE "ok")
    /\ UNCHANGED <<staging, backup, loaded, lock, cancel, commands, crashes,
                   gone>>

-----------------------------------------------------------------------------
(* remove_local_embedding_model *)

StartRemove(t) ==
    /\ thread[t].pc = "idle"
    /\ ButtonEnabled
    /\ Begin
    /\ lock = Nobody
    /\ loaded' = FALSE
    /\ thread' = [thread EXCEPT ![t] = [Idle EXCEPT !.pc = "delete"]]
    /\ UNCHANGED <<dir, staging, backup, lock, cancel, crashes, gone>>

DeleteModel(t) ==
    /\ thread[t].pc = "delete"
    /\ dir' = Absent
    /\ Goto(t, "deleted")
    /\ UNCHANGED <<staging, backup, loaded, lock, cancel, commands, crashes,
                   gone>>

FinishRemove(t) ==
    /\ thread[t].pc = "deleted"
    /\ dir' = Saved(dir, "not_installed")
    /\ gone' = \A i \in Installers : thread[i].pc = "idle"
    /\ End(t, "ok")
    /\ UNCHANGED <<staging, backup, loaded, lock, cancel, commands, crashes>>

-----------------------------------------------------------------------------
(* embed_batch and ensure_loaded *)

StartEmbed(t) ==
    /\ thread[t].pc = "idle"
    /\ Available
    /\ Begin
    /\ thread' = [thread EXCEPT ![t] = [Idle EXCEPT !.pc = "ensure"]]
    /\ UNCHANGED <<dir, staging, backup, loaded, lock, cancel, crashes, gone>>

Ensured(t) ==
    /\ thread[t].pc = "ensured"
    /\ dir' = Saved(dir, thread[t].seen)
    /\ IF thread[t].seen = "ready" THEN Goto(t, "lock") ELSE End(t, "failed")
    /\ UNCHANGED <<staging, backup, loaded, lock, cancel, commands, crashes,
                   gone>>

LockSession(t) ==
    /\ thread[t].pc = "lock"
    /\ lock = Nobody
    /\ IF loaded
       THEN /\ End(t, "ok")
            /\ UNCHANGED <<dir, lock>>
       ELSE /\ lock' = t
            /\ dir' = Saved(dir, "loading")
            /\ Goto(t, "load")
    /\ UNCHANGED <<staging, backup, loaded, cancel, commands, crashes, gone>>

\* load_model_inner reads the files as they are now.
LoadSession(t) ==
    /\ thread[t].pc = "load"
    /\ IF dir.good = Assets
       THEN loaded' = TRUE /\ Goto(t, "loaded")
       ELSE loaded' = loaded /\ Goto(t, "unloadable")
    /\ UNCHANGED <<dir, staging, backup, lock, cancel, commands, crashes, gone>>

MarkLoaded(t) ==
    /\ thread[t].pc \in {"loaded", "unloadable"}
    /\ dir' = Saved(dir, IF thread[t].pc = "loaded" THEN "ready" ELSE "failed")
    /\ lock' = Nobody
    /\ End(t, IF thread[t].pc = "loaded" THEN "ok" ELSE "failed")
    /\ UNCHANGED <<staging, backup, loaded, cancel, commands, crashes, gone>>

-----------------------------------------------------------------------------
\* The program stops and starts again: startup verifies the assets before
\* any command can run.
Crash ==
    /\ crashes < MaxCrashes
    /\ crashes' = crashes + 1
    /\ dir' = Saved(dir, Verify(dir))
    /\ loaded' = FALSE
    /\ lock' = Nobody
    /\ cancel' = FALSE
    /\ thread' = [t \in Threads |-> Idle]
    /\ UNCHANGED <<staging, backup, commands, gone>>

InstallerStep(t) ==
    \/ VerifyInstalled(t) \/ RegisterFromEnv(t) \/ RegisterVerified(t)
    \/ BeginInstall(t) \/ MarkDownloading(t) \/ AbortInstall(t)
    \/ StartFetch(t) \/ Fetch(t) \/ MarkInstalling(t) \/ BackUp(t)
    \/ Promote(t) \/ DropBackup(t) \/ FinishInstall(t)

RemoverStep(t) == DeleteModel(t) \/ FinishRemove(t)

EmbedderStep(t) ==
    Ensured(t) \/ LockSession(t) \/ LoadSession(t) \/ MarkLoaded(t)

Next ==
    \/ \E t \in Installers : StartInstall(t) \/ InstallerStep(t)
    \/ \E t \in Removers : StartRemove(t) \/ RemoverStep(t)
    \/ \E t \in Embedders : StartEmbed(t) \/ EmbedderStep(t)
    \/ \E t \in Threads : Hash(t)
    \/ CancelInstall \/ Crash

Spec == Init /\ [][Next]_vars

\* A command that has begun runs on: transfers have a global timeout of
\* 120 s and the session's mutex is released by its holder.
FairSpec ==
    /\ Spec
    /\ \A t \in Threads : WF_vars(Hash(t))
    /\ \A t \in Installers : WF_vars(InstallerStep(t))
    /\ \A t \in Removers : WF_vars(RemoverStep(t))
    /\ \A t \in Embedders : WF_vars(EmbedderStep(t))

(***************************************************************************)
(* Properties                                                              *)
(***************************************************************************)

Statuses == {"none", "not_installed", "downloading", "installing", "ready",
             "loading", "corrupt", "failed"}
TypeOK ==
    /\ \A d \in {dir, staging, backup} :
        /\ d.exists \in BOOLEAN
        /\ d.good \subseteq Assets /\ d.bad \subseteq Assets
        /\ d.good \cap d.bad = {}
        /\ d.status \in Statuses
        /\ ~d.exists => d = Absent
    /\ lock \in Embedders \cup {Nobody}
    /\ \A t \in Threads : thread[t].todo \subseteq Assets

\* A model that is offered for embedding has every asset of the manifest with
\* its digest, whatever arrives from the network, wherever an installation
\* is cancelled or stops, and while a session is being loaded.
ReadyIsWhole == Status = "ready" => dir.good = Assets

WholeIsKeptStep ==
    dir.good = Assets =>
        dir'.good = Assets \/ \E t \in Removers : thread[t].pc = "delete" /\ DeleteModel(t)

\* A model that is whole stays so until the user removes it: a failed,
\* cancelled or crashed installation never costs a good model (staging first,
\* verification before promotion).
WholeIsKept == [][WholeIsKeptStep]_vars

\* A loading status is left again: the load ends, or startup verifies.
LoadingEnds == (Status = "loading") ~> (Status # "loading")

\* Every started command ends, although a cancel, a failing transfer or
\* another thread's load may meet it anywhere.
CommandsEnd ==
    \A t \in Threads :
        (thread[t].pc # "idle") ~> (thread[t].pc = "idle")

\* install_cancels_cleanly_without_marking_ready: after a cancelled
\* installation the staging directory is gone and the status says so.
\* The code does not keep it: see the README.
CancelIsClean ==
    (\E t \in Installers : thread[t].end = "cancelled")
        /\ (\A t \in Installers : thread[t].pc = "idle")
        => ~staging.exists /\ Status # "downloading"

\* After a removal and before another installation the model is not offered.
\* With an embedding beside the removal the code does not keep it: see the
\* README.
RemovalHolds == gone => ~Available /\ ~loaded
=============================================================================

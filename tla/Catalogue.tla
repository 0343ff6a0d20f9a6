------------------------------ MODULE Catalogue ------------------------------
(***************************************************************************)
(* The catalogue of one root and the scans that fill it                    *)
(* (crates/catalog, crates/application/src/scanner.rs, the scan functions  *)
(* of crates/persistence): the full scan with its hashing phase, the       *)
(* metadata scan that persists in batches, and the targeted scan of the    *)
(* monitoring cycle.  Files are created, written, moved and removed while  *)
(* the scans run.  Every function of Database holds the one connection, so *)
(* it is one step here; what is read from the disk before is not.          *)
(***************************************************************************)
EXTENDS Naturals, Sequences, FiniteSets

CONSTANTS
    Paths, Inodes, Contents,
    Size,           \* the byte size of a content
    Big,            \* the contents over the hashing budget
    Hidden,         \* the paths scans leave out
    BadLabel,       \* the names no display label can be made of
    Kinds,          \* the scans that are started
    BatchSize,      \* files of a batch of a consumer scan
    MaxChanges,     \* bound: changes of the disk
    MaxScans,       \* bound: scans begun
    None

\* What is assumed of the parameters.
CatalogueAssumption ==
    /\ Size \in [Contents -> Nat] /\ Big \subseteq Contents
    /\ Hidden \subseteq Paths /\ BadLabel \subseteq Paths
    /\ Kinds \subseteq {"full", "consumer", "targeted"} /\ BatchSize \in Nat \ {0}
    /\ MaxChanges \in Nat /\ MaxScans \in Nat /\ None \notin Paths \cup Inodes

VARIABLES
    disk,     \* the inode at each path
    obj,      \* content and modification time of each inode
    clock,    \* changes so far; a change is stamped with it
    was,      \* the content each inode had at each stamp
    cat,      \* files, identities, open locations with their latest version
    groups,   \* the duplicate groups
    rows,     \* the status of each scan begun
    proc      \* what the user's scan and the monitoring cycle are doing

vars == <<disk, obj, clock, was, cat, groups, rows, proc>>
User == "user"
Watch == "watch"
Procs == {User, Watch}
Idle == [pc |-> "idle", kind |-> None, id |-> 0, todo |-> {}, seen |-> <<>>, hash |-> {},
         job |-> None, sample |-> None, stop |-> FALSE, quiet |-> TRUE]

Init ==
    /\ \E s \in SUBSET Paths, f \in [Paths -> Inodes], c \in [Inodes -> Contents] :
          /\ \A p, q \in s : f[p] = f[q] => p = q
          /\ disk = [p \in Paths |-> IF p \in s THEN f[p] ELSE None]
          /\ obj = [i \in Inodes |-> [content |-> c[i], mtime |-> 0]]
          /\ was = {<<i, 0, c[i]>> : i \in Inodes}
    /\ clock = 0 /\ groups = {} /\ rows = <<>>
    /\ cat = [ids |-> {}, homes |-> {}, files |-> 0, versions |-> 0]
    /\ proc = [x \in Procs |-> Idle]

(* --------------------------- the disk changes ---------------------------- *)
OnDisk == {disk[p] : p \in Paths} \ {None}

Disturbed(p0) == [x \in Procs |-> [p0[x] EXCEPT !.quiet = FALSE]]

Changes ==
    /\ clock < MaxChanges
    /\ clock' = clock + 1
    /\ proc' = Disturbed(proc)
    /\ UNCHANGED <<cat, groups, rows>>

(* A file is written in place, or created with an inode that is free again. *)
Stamp(i, c) ==
    /\ obj' = [obj EXCEPT ![i] = [content |-> c, mtime |-> clock + 1]]
    /\ was' = was \cup {<<i, clock + 1, c>>}

Write(p, c) == Changes /\ disk[p] # None /\ Stamp(disk[p], c) /\ UNCHANGED disk

Create(p, i, c) ==
    /\ Changes /\ disk[p] = None /\ i \notin OnDisk
    /\ disk' = [disk EXCEPT ![p] = i]
    /\ Stamp(i, c)

Delete(p) ==
    /\ Changes /\ disk[p] # None
    /\ disk' = [disk EXCEPT ![p] = None]
    /\ UNCHANGED <<obj, was>>

Move(p, q) ==
    /\ Changes /\ disk[p] # None /\ disk[q] = None
    /\ disk' = [disk EXCEPT ![p] = None, ![q] = disk[p]]
    /\ UNCHANGED <<obj, was>>

(* ----------------------- the catalogue's transactions -------------------- *)
Entry(p) == [path |-> p, inode |-> disk[p], size |-> Size[obj[disk[p]].content],
             mtime |-> obj[disk[p]].mtime, digest |-> None]

FileOfAnew(c, o) == c.files + 1

FileOf(c, o) == IF \E r \in c.ids : r.inode = o.inode
                THEN (CHOOSE r \in c.ids : r.inode = o.inode).file ELSE c.files + 1

(* The other location of the file and the other file of the location. *)
Displaced(c, f, p) == {h \in c.homes : (h.file = f) # (h.path = p)}

(* A version is added for every observation, whatever was known before. *)
Persisted(c, o) ==
    LET f == FileOf(c, o)
        v == [id |-> c.versions + 1, inode |-> o.inode, size |-> o.size,
              mtime |-> o.mtime, digest |-> o.digest]
    IN [ids |-> c.ids \cup {[inode |-> o.inode, file |-> f]},
        files |-> IF f > c.files THEN f ELSE c.files,
        versions |-> c.versions + 1,
        homes |-> {h \in c.homes \ Displaced(c, f, o.path) : h.path # o.path \/ h.file # f}
                     \cup {[file |-> f, path |-> o.path, version |-> v]}]

(* The observations of a scan, one after the other. *)
PersistAll(c, s) ==
    LET after[n \in 0 .. Len(s)] == IF n = 0 THEN c ELSE Persisted(after[n - 1], s[n])
    IN after[Len(s)]

(* The groups are rebuilt from the latest version of every open location. *)
GroupsOf(c) ==
    {g \in {[digest |-> d,
             members |-> {[file |-> h.file, version |-> h.version.id] :
                             h \in {x \in c.homes : x.version.digest = d}}] :
             d \in {h.version.digest : h \in c.homes} \ {None}} :
        Cardinality(g.members) >= 2}

(* The group of a missing file loses it and goes with the second last one.  *)
WithoutFile(gs, f) ==
    {g \in {[g0 EXCEPT !.members = {m \in @ : m.file # f}] : g0 \in gs} :
        Cardinality(g.members) >= 2}

MarkMissing(p) ==
    LET gone == {h \in cat.homes : h.path = p} IN
    IF gone = {} THEN UNCHANGED <<cat, groups>>
    ELSE LET f == (CHOOSE h \in gone : TRUE).file IN
         /\ cat' = [cat EXCEPT !.homes = @ \ gone,
                               !.ids = {r \in @ : r.file # f
                                          \/ \E h \in cat.homes \ gone : h.file = f}]
         /\ groups' = WithoutFile(groups, f)

(* -------------------------------- scans ---------------------------------- *)
Started(x, kind, todo, job, sample) ==
    /\ proc[x].pc = "idle" /\ Len(rows) < MaxScans
    /\ rows' = Append(rows, "running")
    /\ proc' = [proc EXCEPT ![x] = [Idle EXCEPT
                  !.pc = "inspect", !.kind = kind, !.id = Len(rows) + 1, !.todo = todo,
                  !.job = job, !.sample = sample]]

(* scan_workspace and scan_workspace_consumer; the command's registry lets   *)
(* one of them run.                                                          *)
BeginScan(kind) ==
    /\ kind \in Kinds
    /\ Started(User, kind, Paths, None, None)
    /\ UNCHANGED <<disk, obj, clock, was, cat, groups>>

NoCandidates(c, size) == {}

(* Same-size files of the catalogue are read again together with the file    *)
(* that changed: it may be a duplicate of one of them.                       *)
Candidates(c, size) == {h.path : h \in {x \in c.homes : x.version.size = size}}

(* The files the catalogue has at the size they have on the disk; kept with  *)
(* the job for the property DuplicatesFound only.                            *)
Known == {h.path : h \in {x \in cat.homes : disk[x.path] # None
                             /\ x.version.size = Entry(x.path).size}}

(* A job that settled: the file is now at cur, it has left the path gone.    *)
Reconcile(cur, gone) ==
    /\ "targeted" \in Kinds
    /\ cur # None \/ gone # None
    /\ cur # None => disk[cur] # None /\ cur \notin Hidden
    /\ gone # None => disk[gone] = None
    /\ Started(Watch, "targeted",
               IF cur = None THEN {} ELSE {cur} \cup Candidates(cat, Entry(cur).size),
               [cur |-> cur, gone |-> gone, known |-> Known], IF cur = None THEN None ELSE Entry(cur))
    /\ UNCHANGED <<disk, obj, clock, was, cat, groups>>

Finished(x, status) ==
    /\ rows' = [rows EXCEPT ![proc[x].id] = status]
    /\ proc' = [proc EXCEPT ![x] = Idle]

(* One entry.  A consumer scan that cannot label a file gives up with an     *)
(* error and its row stays as it is; a full scan notes an issue.             *)
Inspect(x, p) ==
    LET s == proc[x] IN
    /\ s.pc = "inspect" /\ p \in s.todo /\ ~s.stop
    /\ s.kind = "consumer" => Len(s.seen) < BatchSize
    /\ IF disk[p] = None \/ p \in Hidden \/ (p \in BadLabel /\ s.kind # "consumer")
       THEN proc' = [proc EXCEPT ![x].todo = @ \ {p}]
       ELSE IF p \in BadLabel
       THEN proc' = [proc EXCEPT ![x] = Idle]
       ELSE proc' = [proc EXCEPT ![x].todo = @ \ {p}, ![x].seen = Append(@, Entry(p))]
    /\ UNCHANGED <<disk, obj, clock, was, cat, groups, rows>>

(* Files of a size that another file of the same scan has are hashed. *)
Candidate(s, k) == \E j \in DOMAIN s.seen \ {k} : s.seen[j].size = s.seen[k].size

StartHashing(x) ==
    LET s == proc[x] IN
    /\ s.pc = "inspect" /\ s.kind # "consumer" /\ (s.todo = {} \/ s.stop)
    /\ proc' = [proc EXCEPT ![x].pc = "hash",
                            ![x].hash = {k \in DOMAIN s.seen : Candidate(s, k)}]
    /\ UNCHANGED <<disk, obj, clock, was, cat, groups, rows>>

SameFileUnchecked(o, p) == disk[p] # None

(* The fingerprint counts only when it is of what was inspected. *)
SameFile(o, p) == disk[p] # None /\ [Entry(p) EXCEPT !.digest = o.digest] = o

Hash(x, k) ==
    LET s == proc[x]
        o == s.seen[k]
        d == IF SameFile(o, o.path) /\ obj[disk[o.path]].content \notin Big
             THEN obj[disk[o.path]].content ELSE None
    IN /\ s.pc = "hash" /\ k \in s.hash /\ ~s.stop
       /\ proc' = [proc EXCEPT ![x].hash = @ \ {k}, ![x].seen[k].digest = d]
       /\ UNCHANGED <<disk, obj, clock, was, cat, groups, rows>>

(* cancel_scan, cancellation of the monitoring cycle *)
Cancel(x) ==
    /\ proc[x].pc \in {"inspect", "hash"} /\ ~proc[x].stop
    /\ proc' = [proc EXCEPT ![x].stop = TRUE]
    /\ UNCHANGED <<disk, obj, clock, was, cat, groups, rows>>

(* The file of the job changed after its last sample. *)
Drifted(s) == \E k \in DOMAIN s.seen :
    s.seen[k].path = s.job.cur /\ (\/ s.seen[k].size # s.sample.size
                                   \/ s.seen[k].mtime # s.sample.mtime)

Status(s) == IF s.stop THEN "cancelled" ELSE "completed"

(* complete_scan: observations, groups and status in one transaction. *)
Complete(x) ==
    LET s == proc[x] IN
    /\ s.pc = "hash" /\ (s.hash = {} \/ s.stop)
    /\ IF s.kind = "targeted" /\ Drifted(s)
       THEN Finished(x, "failed") /\ UNCHANGED <<cat, groups>>
       ELSE /\ cat' = PersistAll(cat, s.seen)
            /\ groups' = GroupsOf(cat')
            /\ IF s.kind = "targeted" /\ s.job.gone # None
               THEN /\ rows' = [rows EXCEPT ![s.id] = Status(s)]
                    /\ proc' = [proc EXCEPT ![x].pc = "retire"]
               ELSE Finished(x, Status(s))
    /\ UNCHANGED <<disk, obj, clock, was>>

(* Destinations were persisted first; a move whose destination was not seen  *)
(* is tried again.                                                           *)
Retire ==
    LET s == proc[Watch] IN
    /\ s.pc = "retire"
    /\ IF s.job.cur # None /\ \A k \in DOMAIN s.seen : s.seen[k].path # s.job.cur
       THEN UNCHANGED <<cat, groups>>
       ELSE MarkMissing(s.job.gone)
    /\ proc' = [proc EXCEPT ![Watch] = Idle]
    /\ UNCHANGED <<disk, obj, clock, was, rows>>

(* append_consumer_scan_batch: the scan goes on, the groups stay. *)
FlushBatch ==
    LET s == proc[User] IN
    /\ s.pc = "inspect" /\ s.kind = "consumer" /\ Len(s.seen) = BatchSize
    /\ cat' = PersistAll(cat, s.seen)
    /\ proc' = [proc EXCEPT ![User].seen = <<>>]
    /\ UNCHANGED <<disk, obj, clock, was, groups, rows>>

LastBatchDropped(s) == <<>>

(* finalize_consumer_scan, after the batch that is left. *)
LastBatch(s) == s.seen

FinalizeConsumer ==
    LET s == proc[User] IN
    /\ s.pc = "inspect" /\ s.kind = "consumer" /\ (s.todo = {} \/ s.stop)
    /\ cat' = PersistAll(cat, LastBatch(s))
    /\ Finished(User, Status(s))
    /\ UNCHANGED <<disk, obj, clock, was, groups>>

(* The volume cannot be read: full and targeted scans are marked failed, a   *)
(* consumer scan ends with the error alone.                                  *)
VolumeError(x) ==
    /\ proc[x].pc = "inspect" /\ proc[x].seen = <<>>
    /\ IF proc[x].kind = "consumer"
       THEN proc' = [proc EXCEPT ![x] = Idle] /\ UNCHANGED rows
       ELSE Finished(x, "failed")
    /\ UNCHANGED <<disk, obj, clock, was, cat, groups>>

ConsumerStep == FlushBatch \/ FinalizeConsumer

DiskStep ==
    \E p \in Paths :
       \/ \E c \in Contents : Write(p, c)
       \/ \E i \in Inodes, c \in Contents : Create(p, i, c)
       \/ Delete(p)
       \/ \E q \in Paths : Move(p, q)

Next ==
    \/ DiskStep
    \/ \E k \in {"full", "consumer"} : BeginScan(k)
    \/ \E c, g \in Paths \cup {None} : Reconcile(c, g)
    \/ \E x \in Procs, p \in Paths : Inspect(x, p)
    \/ \E x \in Procs : \E k \in DOMAIN proc[x].seen : Hash(x, k)
    \/ \E x \in Procs : StartHashing(x) \/ Cancel(x) \/ Complete(x) \/ VolumeError(x)
    \/ Retire \/ ConsumerStep

Spec == Init /\ [][Next]_vars

(* ------------------------------ properties ------------------------------- *)

(* Every variable has its type and the file of every location is known to    *)
(* the identities (persist_observation, mark_current_path_missing).          *)
TypeOK ==
    /\ disk \in [Paths -> Inodes \cup {None}] /\ clock \in 0 .. MaxChanges
    /\ \A r \in cat.ids : r.inode \in Inodes /\ r.file \in 1 .. cat.files
    /\ \A h \in cat.homes : h.path \in Paths /\ \E r \in cat.ids : r.file = h.file
    /\ \A n \in DOMAIN rows : rows[n] \in {"running", "completed", "cancelled", "failed"}
    /\ \A x \in Procs : proc[x].pc \in {"idle", "inspect", "hash", "retire"} /\ proc[x].todo \subseteq Paths

(* However scans overlap, a path has one file, a file one path and an inode  *)
(* one file in the catalogue.                                                *)
OneHome ==
    /\ \A g, h \in cat.homes : g # h => g.path # h.path /\ g.file # h.file
    /\ \A r, t \in cat.ids : r # t => r.inode # t.inode /\ r.file # t.file

(* The digest of a version is of the content the file had at the size and    *)
(* time the version states, although the file may be written or replaced     *)
(* between its inspection and its hashing.                                   *)
DigestIsOfVersion ==
    \A h \in cat.homes : h.version.digest # None =>
        /\ <<h.version.inode, h.version.mtime, h.version.digest>> \in was
        /\ h.version.size = Size[h.version.digest]

(* Members of a duplicate group are the latest versions of files that are in *)
(* the catalogue, with one digest, and at least two.                         *)
GroupsAreCurrent ==
    \A g \in groups :
        /\ Cardinality(g.members) >= 2
        /\ \A m \in g.members : \E h \in cat.homes :
              h.file = m.file /\ h.version.id = m.version /\ h.version.digest = g.digest

Grouped(p, q) == \E g \in groups' : \A r \in {p, q} : \E h \in cat'.homes, m \in g.members :
                    h.path = r /\ m.file = h.file

Visible(p) == disk[p] # None /\ p \notin Hidden \cup BadLabel
                /\ obj[disk[p]].content \notin Big

Same(p, q) == p # q /\ Visible(p) /\ Visible(q) /\ obj[disk[p]].content = obj[disk[q]].content

DuplicatesFoundStep ==
    \A x \in Procs : (Complete(x) /\ proc[x].quiet /\ ~proc[x].stop) =>
         \A p, q \in Paths : Same(p, q) =>
            \/ proc[x].kind = "targeted" /\ ~(proc[x].job.cur = p /\ q \in proc[x].job.known)
            \/ Grouped(p, q)

(* A scan that ends while the disk was quiet finds the duplicates: a full    *)
(* scan all of them, a targeted scan those of its file among the files the   *)
(* catalogue knows at their size.                                            *)
DuplicatesFound == [][DuplicatesFoundStep]_vars

MoveKeepsIdentityStep ==
    (Retire /\ proc[Watch].quiet) => \A r \in cat.ids \ cat'.ids :
          \A k \in DOMAIN proc[Watch].seen :
             proc[Watch].seen[k].path = proc[Watch].job.cur
                => r.inode # proc[Watch].seen[k].inode

(* A file that monitoring found again at the destination of its move, on a   *)
(* disk that is quiet since, keeps its identity when the source is marked    *)
(* missing (reconcile_prepared_jobs persists destinations first).            *)
MoveKeepsIdentity == [][MoveKeepsIdentityStep]_vars

DiscoversToTheEndStep ==
    (proc[User].kind = "consumer" /\ proc'[User].pc = "idle" /\ proc[User].quiet
          /\ ~proc[User].stop /\ ~VolumeError(User)) =>
         \A p \in Paths \ Hidden : disk[p] # None =>
            \E h \in cat'.homes : h.path = p /\ h.version.inode = disk[p]

(* A consumer scan that was not cancelled and could read the volume ends     *)
(* with every visible file of a quiet disk in the catalogue.                 *)
DiscoversToTheEnd == [][DiscoversToTheEndStep]_vars
==============================================================================

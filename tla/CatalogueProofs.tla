--------------------------- MODULE CatalogueProofs ---------------------------
(***************************************************************************)
(* Proofs about the catalogue of one root, for any paths, inodes, contents *)
(* and kinds of scans, however the scans overlap and the disk changes      *)
(* under them.  What the catalogue says rests on the observations: each is *)
(* of what the disk once was, and each is persisted alone.                 *)
(***************************************************************************)
EXTENDS Catalogue, TLAPS, FiniteSetTheorems, SequenceTheorems, WellFoundedInduction

-----------------------------------------------------------------------------
(* The inductive invariant *)

Digests == Contents \cup {None}
Versions == [id : Nat, inode : Inodes, size : Nat, mtime : Nat, digest : Digests]
Homes == [file : Nat, path : Paths, version : Versions]
Observations == [path : Paths, inode : Inodes, size : Nat, mtime : Nat, digest : Digests]
Members == [file : Nat, version : Nat]
Statuses == {"running", "completed", "cancelled", "failed"}
Jobs == [cur : Paths \cup {None}, gone : Paths \cup {None}, known : SUBSET Paths]
Scans == [pc : {"idle", "inspect", "hash", "retire"}, kind : Kinds \cup {None}, id : Nat,
          todo : SUBSET Paths, seen : Seq(Observations), hash : SUBSET Nat,
          job : Jobs \cup {None}, sample : Observations \cup {None},
          stop : BOOLEAN, quiet : BOOLEAN]

\* The digest of a version or an observation is of a content that the inode had
\* at the time it states.
OfContent(v, past) ==
  v.digest # None => <<v.inode, v.mtime, v.digest>> \in past /\ v.size = Size[v.digest]

\* Identities and locations are one to one, and a location's file has one.
Sound(c, past) ==
  /\ c \in [ids : SUBSET [inode : Inodes, file : Nat], homes : SUBSET Homes,
            files : Nat, versions : Nat]
  /\ \A r \in c.ids : r.file \in 1..c.files
  /\ \A r, t \in c.ids : r # t => r.inode # t.inode /\ r.file # t.file
  /\ \A h \in c.homes : \E r \in c.ids : r.file = h.file
  /\ \A g, h \in c.homes : g # h => g.path # h.path /\ g.file # h.file
  /\ \A h \in c.homes : OfContent(h.version, past)

\* What the disk is now belongs to what it was.
Remembered ==
  /\ disk \in [Paths -> Inodes \cup {None}] /\ clock \in 0..MaxChanges
  /\ obj \in [Inodes -> [content : Contents, mtime : Nat]]
  /\ \A i \in Inodes : <<i, obj[i].mtime, obj[i].content>> \in was

\* What a scan has seen was so.
Truthful(s, past) ==
  /\ s \in Scans /\ (s.pc # "idle" => s.kind \in Kinds)
  /\ \A k \in DOMAIN s.seen : OfContent(s.seen[k], past)

ScansHold ==
  /\ proc \in [Procs -> Scans] /\ \A x \in Procs : Truthful(proc[x], was)
  /\ rows \in Seq(Statuses)

\* Consumer scans persist without rebuilding the groups.
GroupsHold ==
  /\ groups \subseteq [digest : Contents, members : SUBSET Members]
  /\ "consumer" \notin Kinds => GroupsAreCurrent

IInv == Remembered /\ Sound(cat, was) /\ ScansHold /\ GroupsHold

-----------------------------------------------------------------------------
(* The observations of a scan, persisted one after the other *)

LEMMA Least ==
  ASSUME NEW T \in SUBSET Nat, T # {}
  PROVE  \E m \in T : \A n \in T : m <= n
  <1> DEFINE R == {ss \in Nat \X Nat : ss[1] < ss[2]}
  <1>1. IsWellFoundedOn(R, Nat)
    BY NatLessThanWellFounded DEF OpToRel
  <1>2. PICK m \in T : \A n \in T : ~ (<<n, m>> \in R)
    <2> HIDE DEF R
    <2> QED BY <1>1, WFMin
  <1>3. ASSUME NEW n \in T PROVE m <= n
    <2>1. <<n, m>> \in Nat \X Nat /\ <<n, m>> \notin R
      BY <1>2
    <2>2. ~ (n < m)
      BY <2>1
    <2> QED BY <2>2
  <1> QED BY <1>3

\* The file of an observation: the one its inode has, or a new one.
LEMMA FileKnown ==
  ASSUME NEW past, NEW c, Sound(c, past), NEW o \in Observations
  PROVE  LET f == FileOf(c, o)
             new == [inode |-> o.inode, file |-> f]
         IN /\ f \in Nat \ {0}
            /\ new \in c.ids \/ (f = c.files + 1 /\ \A r \in c.ids : r.inode # o.inode)
  <1> DEFINE f == FileOf(c, o)
             r0 == CHOOSE r \in c.ids : r.inode = o.inode
  <1>1. CASE \E r \in c.ids : r.inode = o.inode
    <2>1. r0 \in c.ids /\ r0.inode = o.inode
      BY <1>1
    <2>2. f = r0.file
      BY <1>1 DEF FileOf
    <2>3. r0 \in [inode : Inodes, file : Nat] /\ r0.file \in 1..c.files
      BY <2>1 DEF Sound
    <2>4. r0 = [inode |-> o.inode, file |-> f]
      BY <2>1, <2>2, <2>3
    <2> QED BY <2>1, <2>2, <2>3, <2>4 DEF Sound
  <1>2. CASE \A r \in c.ids : r.inode # o.inode
    <2>1. f = c.files + 1
      BY <1>2 DEF FileOf
    <2> QED BY <1>2, <2>1 DEF Sound
  <1> QED BY <1>1, <1>2

LEMMA PersistedSound ==
  ASSUME NEW past, NEW c, Sound(c, past), NEW o \in Observations, OfContent(o, past)
  PROVE  Sound(Persisted(c, o), past)
  <1> DEFINE f == FileOf(c, o)
             v == [id |-> c.versions + 1, inode |-> o.inode, size |-> o.size,
                   mtime |-> o.mtime, digest |-> o.digest]
             id == [inode |-> o.inode, file |-> f]
             home == [file |-> f, path |-> o.path, version |-> v]
             kept == {h \in c.homes : h.path # o.path /\ h.file # f}
             most == IF f > c.files THEN f ELSE c.files
             d == Persisted(c, o)
  <1>1. d = [ids |-> c.ids \cup {id}, files |-> most, versions |-> c.versions + 1,
             homes |-> kept \cup {home}]
    <2>1. {h \in c.homes \ Displaced(c, f, o.path) : h.path # o.path \/ h.file # f} = kept
      BY DEF Displaced
    <2> QED BY <2>1 DEF Persisted
  <1>2. /\ f \in Nat \ {0}
        /\ id \in c.ids \/ (f = c.files + 1 /\ \A r \in c.ids : r.inode # o.inode)
    BY FileKnown
  <1>3. /\ o.inode \in Inodes /\ o.path \in Paths
        /\ v \in Versions
    BY DEF Observations, Versions, Sound
  <1> HIDE DEF f, v
  <1>4. /\ c.ids \subseteq [inode : Inodes, file : Nat] /\ c.homes \subseteq Homes
        /\ c.files \in Nat /\ c.versions \in Nat
        /\ \A r \in c.ids : r.file \in 1..c.files
    BY DEF Sound
  <1>5. id \in [inode : Inodes, file : Nat] /\ home \in Homes
    BY <1>2, <1>3 DEF Homes
  <1>6. most \in Nat /\ most >= c.files /\ most >= f
    BY <1>2, <1>4
  <1>7. /\ d.ids = c.ids \cup {id} /\ d.files = most /\ d.homes = kept \cup {home}
        /\ d \in [ids : SUBSET [inode : Inodes, file : Nat], homes : SUBSET Homes,
                  files : Nat, versions : Nat]
    BY <1>1, <1>4, <1>5, <1>6
  <1> HIDE DEF d
  <1>8. \A r \in d.ids : r.file \in 1..d.files
    BY <1>2, <1>4, <1>6, <1>7
  <1>9. \A r, t \in d.ids : r # t => r.inode # t.inode /\ r.file # t.file
    <2>1. \A r, t \in c.ids : r # t => r.inode # t.inode /\ r.file # t.file
      BY DEF Sound
    <2>2. CASE id \in c.ids
      BY <2>1, <2>2, <1>7
    <2>3. CASE f = c.files + 1 /\ \A r \in c.ids : r.inode # o.inode
      <3>1. \A r \in c.ids : r.inode # id.inode /\ r.file # id.file
        BY <2>3, <1>4
      <3> QED BY <2>1, <3>1, <1>7
    <2> QED BY <2>2, <2>3, <1>2
  <1>10. \A h \in d.homes : \E r \in d.ids : r.file = h.file
    <2>1. \A h \in c.homes : \E r \in c.ids : r.file = h.file
      BY DEF Sound
    <2>2. ASSUME NEW h \in kept PROVE \E r \in d.ids : r.file = h.file
      <3>1. PICK r \in c.ids : r.file = h.file
        BY <2>1
      <3> QED BY <3>1, <1>7
    <2>3. id \in d.ids /\ id.file = home.file
      BY <1>7
    <2> QED BY <2>2, <2>3, <1>7
  <1>11. \A g, h \in d.homes : g # h => g.path # h.path /\ g.file # h.file
    <2>1. \A g, h \in c.homes : g # h => g.path # h.path /\ g.file # h.file
      BY DEF Sound
    <2> QED BY <2>1, <1>7
  <1>12. \A h \in d.homes : OfContent(h.version, past)
    <2>1. \A h \in c.homes : OfContent(h.version, past)
      BY DEF Sound
    <2>2. OfContent(home.version, past)
      BY DEF OfContent, v
    <2> QED BY <2>1, <2>2, <1>7
  <1>13. Sound(d, past)
    BY <1>7, <1>8, <1>9, <1>10, <1>11, <1>12 DEF Sound
  <1> QED BY <1>13 DEF d

\* What one observation keeps, all of them keep: by the least number of
\* observations for which it is not so.
LEMMA PersistAllSound ==
  ASSUME NEW past, NEW c, Sound(c, past), NEW s \in Seq(Observations),
         \A k \in DOMAIN s : OfContent(s[k], past)
  PROVE  Sound(PersistAll(c, s), past)
  <1> DEFINE Step(g, n) == IF n = 0 THEN c ELSE Persisted(g[n - 1], s[n])
             After(g, b) == g = [n \in 0..b |-> Step(g, n)]
             L == Len(s)
  <1>0. L \in Nat /\ DOMAIN s = 1..L
    OBVIOUS
  <1>1. \E g : After(g, L)
    <2> DEFINE Bad == {n \in 0..L : ~ \E g : After(g, n)}
    <2> SUFFICES ASSUME Bad # {} PROVE FALSE
      BY <1>0
    <2>1. Bad \in SUBSET Nat
      BY <1>0
    <2> HIDE DEF Bad
    <2>2. PICK m \in Bad : \A n \in Bad : m <= n
      BY <2>1, Least
    <2>3. m \in 0..L /\ ~ \E g : After(g, m)
      BY <2>2 DEF Bad
    <2>4. m # 0
      <3> SUFFICES ASSUME m = 0 PROVE FALSE
        OBVIOUS
      <3> DEFINE g0 == [n \in 0..m |-> c]
                 k == [n \in 0..m |-> Step(g0, n)]
      <3>1. \A n \in 0..m : g0[n] = k[n]
        OBVIOUS
      <3>2. After(g0, m)
        BY <3>1
      <3> QED BY <2>3, <3>2
    <2>5. m - 1 \in 0..L /\ m - 1 \notin Bad
      BY <1>0, <2>2, <2>3, <2>4
    <2>6. PICK g : After(g, m - 1)
      BY <2>5 DEF Bad
    <2> DEFINE h == [n \in 0..m |-> IF n < m THEN g[n] ELSE Step(g, m)]
    <2>7. ASSUME NEW n \in 0..m PROVE h[n] = Step(h, n)
      <3>1. n = 0 => h[n] = c
        <4>0. 0 \in 0..(m - 1)
          BY <2>3, <2>4, <1>0
        <4>1. g[0] = Step(g, 0)
          BY <4>0, <2>6
        <4> QED BY <4>1, <2>3, <2>4, <1>0
      <3>2. n # 0 /\ n < m => h[n] = Persisted(g[n - 1], s[n]) /\ h[n - 1] = g[n - 1]
        <4> SUFFICES ASSUME n # 0, n < m
                     PROVE  h[n] = Persisted(g[n - 1], s[n]) /\ h[n - 1] = g[n - 1]
          OBVIOUS
        <4>1. n \in 0..(m - 1) /\ n - 1 \in 0..m /\ n - 1 < m
          BY <2>3, <1>0
        <4>2. g[n] = Step(g, n)
          BY <4>1, <2>6
        <4> QED BY <4>1, <4>2
      <3>3. n = m => h[n] = Persisted(g[n - 1], s[n]) /\ h[n - 1] = g[n - 1]
        BY <2>3, <2>4, <1>0
      <3> QED BY <3>1, <3>2, <3>3, <2>3, <1>0
    <2>8. After(h, m)
      <3> DEFINE k == [n \in 0..m |-> Step(h, n)]
      <3>1. \A n \in 0..m : h[n] = k[n]
        BY <2>7
      <3> QED BY <3>1
    <2> QED BY <2>3, <2>8
  <1> DEFINE after == CHOOSE g : After(g, L)
  <1>2. After(after, L) /\ PersistAll(c, s) = after[L]
    <2>1. After(after, L)
      BY <1>1
    <2>2. PersistAll(c, s) =
            (CHOOSE g : g = [n \in 0..Len(s) |->
                               IF n = 0 THEN c ELSE Persisted(g[n - 1], s[n])])[Len(s)]
      BY DEF PersistAll
    <2> QED BY <2>1, <2>2
  <1> HIDE DEF after
  <1>3. \A n \in 0..L : after[n] = Step(after, n)
    BY <1>2
  <1>4. \A n \in 0..L : Sound(after[n], past)
    <2> DEFINE Bad == {n \in 0..L : ~ Sound(after[n], past)}
    <2> SUFFICES ASSUME Bad # {} PROVE FALSE
      OBVIOUS
    <2>1. Bad \in SUBSET Nat
      BY <1>0
    <2> HIDE DEF Bad
    <2>2. PICK m \in Bad : \A n \in Bad : m <= n
      BY <2>1, Least
    <2>3. m \in 0..L /\ ~ Sound(after[m], past)
      BY <2>2 DEF Bad
    <2>4. m # 0
      BY <2>3, <1>3
    <2>5. m - 1 \in 0..L /\ m - 1 \notin Bad /\ m \in 1..L
      BY <1>0, <2>2, <2>3, <2>4
    <2>6. Sound(after[m - 1], past)
      BY <2>5 DEF Bad
    <2>7. s[m] \in Observations /\ OfContent(s[m], past)
      BY <1>0, <2>5
    <2>8. after[m] = Persisted(after[m - 1], s[m])
      BY <2>3, <2>4, <1>3
    <2> QED BY <2>3, <2>6, <2>7, <2>8, PersistedSound
  <1> QED BY <1>0, <1>2, <1>4

-----------------------------------------------------------------------------
(* The duplicate groups *)

\* Groups rebuilt from a catalogue are of its latest versions.
LEMMA GroupsRebuilt ==
  ASSUME NEW past, Sound(cat', past), groups' = GroupsOf(cat')
  PROVE  /\ groups' \subseteq [digest : Contents, members : SUBSET Members]
         /\ GroupsAreCurrent'
  <1>1. cat'.homes \subseteq Homes
    BY DEF Sound
  <1>2. ASSUME NEW g \in groups'
        PROVE  /\ g \in [digest : Contents, members : SUBSET Members]
               /\ Cardinality(g.members) >= 2
               /\ \A m \in g.members : \E h \in cat'.homes :
                     h.file = m.file /\ h.version.id = m.version /\ h.version.digest = g.digest
    <2> DEFINE Of(d) == {[file |-> h.file, version |-> h.version.id] :
                           h \in {x \in cat'.homes : x.version.digest = d}}
    <2>1. /\ Cardinality(g.members) >= 2
          /\ g \in {[digest |-> d, members |-> Of(d)] :
                      d \in {h.version.digest : h \in cat'.homes} \ {None}}
      BY DEF GroupsOf
    <2>2. PICK d \in {h.version.digest : h \in cat'.homes} \ {None} :
             g = [digest |-> d, members |-> Of(d)]
      BY <2>1
    <2>3. d \in Contents
      BY <1>1, <2>2 DEF Homes, Versions, Digests
    <2>4. ASSUME NEW m \in Of(d)
          PROVE  m \in Members /\ \E h \in cat'.homes :
                    h.file = m.file /\ h.version.id = m.version /\ h.version.digest = d
      <3>1. PICK h \in cat'.homes :
               h.version.digest = d /\ m = [file |-> h.file, version |-> h.version.id]
        OBVIOUS
      <3>2. h.file \in Nat /\ h.version.id \in Nat
        BY <1>1 DEF Homes, Versions
      <3> QED BY <3>1, <3>2 DEF Members
    <2>5. Of(d) \in SUBSET Members
      BY <2>4
    <2> HIDE DEF Of
    <2>6. g.members = Of(d) /\ g.digest = d
      BY <2>2
    <2>7. g \in [digest : Contents, members : SUBSET Members]
      BY <2>2, <2>3, <2>5
    <2> QED BY <2>1, <2>4, <2>6, <2>7
  <1> QED BY <1>2 DEF GroupsAreCurrent

\* A location that is marked missing leaves the catalogue sound, and its file
\* leaves the groups.
LEMMA MissingSound ==
  ASSUME NEW past, Sound(cat, past), NEW p, MarkMissing(p)
  PROVE  Sound(cat', past)
  <1> DEFINE gone == {h \in cat.homes : h.path = p}
             f == (CHOOSE h \in gone : TRUE).file
  <1>1. CASE gone = {}
    <2>1. cat' = cat
      BY <1>1 DEF MarkMissing
    <2> QED BY <2>1
  <1>2. CASE gone # {}
    <2>1. cat' = [cat EXCEPT !.homes = @ \ gone,
                             !.ids = {r \in @ : r.file # f
                                        \/ \E h \in cat.homes \ gone : h.file = f}]
      BY <1>2 DEF MarkMissing
    <2>2. /\ cat \in [ids : SUBSET [inode : Inodes, file : Nat], homes : SUBSET Homes,
                      files : Nat, versions : Nat]
      BY DEF Sound
    <2> DEFINE left == {r \in cat.ids : r.file # f \/ \E h \in cat.homes \ gone : h.file = f}
    <2>3. cat' = [ids |-> left, homes |-> cat.homes \ gone, files |-> cat.files,
                  versions |-> cat.versions]
      BY <2>1, <2>2
    <2>4. left \subseteq cat.ids /\ cat.homes \ gone \subseteq cat.homes
      OBVIOUS
    <2>5. ASSUME NEW h \in cat.homes \ gone PROVE \E r \in left : r.file = h.file
      <3>1. PICK r \in cat.ids : r.file = h.file
        BY DEF Sound
      <3> QED BY <3>1
    <2> HIDE DEF left, gone, f
    <2>6. /\ cat'.ids = left /\ cat'.homes = cat.homes \ gone /\ cat'.files = cat.files
          /\ cat' \in [ids : SUBSET [inode : Inodes, file : Nat], homes : SUBSET Homes,
                       files : Nat, versions : Nat]
      BY <2>2, <2>3, <2>4
    <2>7. \A r \in cat'.ids : r.file \in 1..cat'.files
      BY <2>4, <2>6 DEF Sound
    <2>8. \A r, t \in cat'.ids : r # t => r.inode # t.inode /\ r.file # t.file
      BY <2>4, <2>6 DEF Sound
    <2>9. \A g, h \in cat'.homes : g # h => g.path # h.path /\ g.file # h.file
      BY <2>4, <2>6 DEF Sound
    <2>10. \A h \in cat'.homes : OfContent(h.version, past)
      BY <2>4, <2>6 DEF Sound
    <2>11. \A h \in cat'.homes : \E r \in cat'.ids : r.file = h.file
      BY <2>5, <2>6
    <2> QED BY <2>6, <2>7, <2>8, <2>9, <2>10, <2>11 DEF Sound
  <1> QED BY <1>1, <1>2

LEMMA MissingGroups ==
  ASSUME NEW past, Sound(cat, past), NEW p, MarkMissing(p), GroupsHold
  PROVE  GroupsHold'
  <1> DEFINE gone == {h \in cat.homes : h.path = p}
             f == (CHOOSE h \in gone : TRUE).file
  <1>1. CASE gone = {}
    <2>1. cat' = cat /\ groups' = groups
      BY <1>1 DEF MarkMissing
    <2> QED BY <2>1 DEF GroupsHold, GroupsAreCurrent
  <1>2. CASE gone # {}
    <2>1. groups' = WithoutFile(groups, f)
      BY <1>2 DEF MarkMissing
    <2>2. cat'.homes = cat.homes \ gone
      BY <1>2 DEF MarkMissing, Sound
    <2>3. \A h \in gone : h.file = f
      <3>1. PICK h0 \in gone : f = h0.file
        BY <1>2
      <3> QED BY <3>1 DEF Sound
    <2>4. ASSUME NEW g \in groups'
          PROVE  \E g0 \in groups :
                   /\ g \in [digest : Contents, members : SUBSET Members]
                   /\ g.digest = g0.digest /\ Cardinality(g.members) >= 2
                   /\ g.members = {m \in g0.members : m.file # f}
      <3>1. /\ Cardinality(g.members) >= 2
            /\ g \in {[g0 EXCEPT !.members = {m \in @ : m.file # f}] : g0 \in groups}
        BY <2>1 DEF WithoutFile
      <3>2. PICK g0 \in groups : g = [g0 EXCEPT !.members = {m \in @ : m.file # f}]
        BY <3>1
      <3>3. g0 \in [digest : Contents, members : SUBSET Members]
        BY DEF GroupsHold
      <3> HIDE DEF f
      <3>4. {m \in g0.members : m.file # f} \in SUBSET Members
        BY <3>3
      <3>5. /\ g.digest = g0.digest /\ g.members = {m \in g0.members : m.file # f}
            /\ g = [digest |-> g0.digest, members |-> {m \in g0.members : m.file # f}]
        BY <3>2, <3>3
      <3> QED BY <3>1, <3>3, <3>4, <3>5
    <2>5. groups' \subseteq [digest : Contents, members : SUBSET Members]
      BY <2>4
    <2>6. ASSUME "consumer" \notin Kinds PROVE GroupsAreCurrent'
      <3>1. GroupsAreCurrent
        BY <2>6 DEF GroupsHold
      <3>2. ASSUME NEW g \in groups', NEW m \in g.members
            PROVE  \E h \in cat'.homes : h.file = m.file /\ h.version.id = m.version
                                         /\ h.version.digest = g.digest
        <4>1. PICK g0 \in groups : g.digest = g0.digest /\ m \in g0.members /\ m.file # f
          BY <2>4
        <4>2. PICK h \in cat.homes : h.file = m.file /\ h.version.id = m.version
                                     /\ h.version.digest = g0.digest
          BY <3>1, <4>1 DEF GroupsAreCurrent
        <4>3. h \notin gone
          BY <2>3, <4>1, <4>2
        <4> QED BY <2>2, <4>1, <4>2, <4>3
      <3> QED BY <2>4, <3>2 DEF GroupsAreCurrent
    <2> QED BY <2>5, <2>6 DEF GroupsHold
  <1> QED BY <1>1, <1>2

-----------------------------------------------------------------------------
(* The disk changes *)

\* What was true of the past stays true of a longer one.
LEMMA PastGrows ==
  ASSUME NEW past, NEW longer, past \subseteq longer
  PROVE  /\ \A c : Sound(c, past) => Sound(c, longer)
         /\ \A s : Truthful(s, past) => Truthful(s, longer)
  <1>1. \A v : OfContent(v, past) => OfContent(v, longer)
    BY DEF OfContent
  <1>2. ASSUME NEW c, Sound(c, past) PROVE Sound(c, longer)
    BY <1>1, <1>2 DEF Sound
  <1>3. ASSUME NEW s, Truthful(s, past) PROVE Truthful(s, longer)
    BY <1>1, <1>3 DEF Truthful
  <1> QED BY <1>2, <1>3

LEMMA Stamped ==
  ASSUME CatalogueAssumption, Remembered, NEW i \in Inodes, NEW c \in Contents, Stamp(i, c)
  PROVE  /\ obj' \in [Inodes -> [content : Contents, mtime : Nat]] /\ was \subseteq was'
         /\ \A j \in Inodes : <<j, obj'[j].mtime, obj'[j].content>> \in was'
  <1> DEFINE new == [content |-> c, mtime |-> clock + 1]
  <1>1. /\ obj' = [obj EXCEPT ![i] = new] /\ was' = was \cup {<<i, clock + 1, c>>}
        /\ obj \in [Inodes -> [content : Contents, mtime : Nat]] /\ clock + 1 \in Nat
    BY DEF Stamp, Remembered, CatalogueAssumption
  <1>2. new \in [content : Contents, mtime : Nat] /\ new.content = c /\ new.mtime = clock + 1
    BY <1>1
  <1> HIDE DEF new
  <1>3. obj'[i] = new /\ \A j \in Inodes \ {i} : obj'[j] = obj[j]
    BY <1>1
  <1>4. obj' \in [Inodes -> [content : Contents, mtime : Nat]]
    BY <1>1, <1>2
  <1>5. ASSUME NEW j \in Inodes PROVE <<j, obj'[j].mtime, obj'[j].content>> \in was'
    <2>1. CASE j = i
      BY <2>1, <1>1, <1>2, <1>3
    <2>2. CASE j # i
      BY <2>2, <1>1, <1>3 DEF Remembered
    <2> QED BY <2>1, <2>2
  <1> QED BY <1>1, <1>4, <1>5

\* A change of the disk is remembered and disturbs the scans, nothing else.
LEMMA DiskStepHolds ==
  ASSUME CatalogueAssumption, IInv, DiskStep PROVE IInv'
  <1> USE DEF IInv
  <1>1. /\ clock' = clock + 1 /\ clock < MaxChanges /\ proc' = Disturbed(proc)
        /\ UNCHANGED <<cat, groups, rows>>
    BY DEF DiskStep, Write, Create, Delete, Move, Changes
  <1>2. /\ disk' \in [Paths -> Inodes \cup {None}]
        /\ \/ UNCHANGED <<obj, was>>
           \/ \E i \in Inodes, c \in Contents : Stamp(i, c)
    <2>1. ASSUME NEW p \in Paths, NEW c \in Contents, Write(p, c)
          PROVE  disk' = disk /\ disk[p] \in Inodes /\ Stamp(disk[p], c)
      BY <2>1 DEF Write, Remembered
    <2>2. ASSUME NEW p \in Paths, NEW c \in Contents, NEW i \in Inodes, Create(p, i, c)
          PROVE  disk' = [disk EXCEPT ![p] = i] /\ Stamp(i, c)
      BY <2>2 DEF Create
    <2>3. ASSUME NEW p \in Paths, Delete(p)
          PROVE  disk' = [disk EXCEPT ![p] = None] /\ UNCHANGED <<obj, was>>
      BY <2>3 DEF Delete
    <2>4. ASSUME NEW p \in Paths, NEW q \in Paths, Move(p, q)
          PROVE  /\ disk' = [disk EXCEPT ![p] = None, ![q] = disk[p]]
                 /\ UNCHANGED <<obj, was>>
      BY <2>4 DEF Move
    <2> QED BY <2>1, <2>2, <2>3, <2>4 DEF DiskStep, Remembered
  <1>3. /\ obj' \in [Inodes -> [content : Contents, mtime : Nat]] /\ was \subseteq was'
        /\ \A j \in Inodes : <<j, obj'[j].mtime, obj'[j].content>> \in was'
    BY <1>2, Stamped DEF Remembered
  <1>4. Remembered'
    BY <1>1, <1>2, <1>3 DEF Remembered, CatalogueAssumption
  <1>5. Sound(cat', was')
    BY <1>1, <1>3, PastGrows
  <1>6. ScansHold'
    <2>1. ASSUME NEW x \in Procs PROVE Truthful(proc'[x], was') /\ proc'[x] \in Scans
      <3>1. proc'[x] = [proc[x] EXCEPT !.quiet = FALSE]
        BY <1>1 DEF Disturbed
      <3>2. Truthful(proc[x], was')
        BY <1>3, PastGrows DEF ScansHold
      <3>3. proc[x] \in Scans
        BY DEF ScansHold
      <3>4. /\ proc'[x].pc = proc[x].pc /\ proc'[x].kind = proc[x].kind
            /\ proc'[x].seen = proc[x].seen /\ proc'[x] \in Scans
        BY <3>1, <3>3 DEF Scans
      <3> QED BY <3>2, <3>4 DEF Truthful
    <2>2. proc' \in [Procs -> Scans]
      BY <2>1, <1>1 DEF Disturbed
    <2> QED BY <2>1, <2>2, <1>1 DEF ScansHold
  <1>7. GroupsHold'
    BY <1>1 DEF GroupsHold, GroupsAreCurrent
  <1> QED BY <1>4, <1>5, <1>6, <1>7

-----------------------------------------------------------------------------
(* The scans *)

LEMMA IdleTruthful == Truthful(Idle, was)
  <1>1. Idle \in Scans
    <2>1. <<>> \in Seq(Observations) /\ {} \in SUBSET Nat /\ {} \in SUBSET Paths
      OBVIOUS
    <2> QED BY <2>1 DEF Idle, Scans
  <1> QED BY <1>1 DEF Idle, Truthful

\* An entry says what the disk is.
LEMMA EntryTruthful ==
  ASSUME CatalogueAssumption, Remembered, NEW p \in Paths, disk[p] # None
  PROVE  Entry(p) \in Observations /\ OfContent(Entry(p), was)
  <1>1. disk[p] \in Inodes
    BY DEF Remembered
  <1>2. obj[disk[p]] \in [content : Contents, mtime : Nat]
    BY <1>1 DEF Remembered
  <1>3. Size[obj[disk[p]].content] \in Nat
    BY <1>2 DEF CatalogueAssumption
  <1> QED BY <1>1, <1>2, <1>3 DEF Entry, Observations, Digests, OfContent

\* A step of one scan: what it knows stays true.
LEMMA ScanMoves ==
  ASSUME ScansHold, NEW x \in Procs, NEW s, Truthful(s, was), proc' = [proc EXCEPT ![x] = s],
         was' = was, NEW n, NEW status \in Statuses,
         rows' \in {rows, [rows EXCEPT ![n] = status], Append(rows, status)}
  PROVE  ScansHold'
  <1>1. s \in Scans
    BY DEF Truthful
  <1>2. proc' \in [Procs -> Scans] /\ \A y \in Procs : Truthful(proc'[y], was')
    BY <1>1 DEF ScansHold
  <1>3. rows \in Seq(Statuses)
    BY DEF ScansHold
  <1>4. [rows EXCEPT ![n] = status] \in Seq(Statuses)
    <2>1. CASE n \in DOMAIN rows
      BY <1>3, <2>1, ExceptSeq
    <2>2. CASE n \notin DOMAIN rows
      <3> DEFINE same == [rows EXCEPT ![n] = status]
      <3>1. DOMAIN same = DOMAIN rows /\ \A k \in DOMAIN rows : same[k] = rows[k]
        BY <2>2
      <3>2. same = [k \in DOMAIN same |-> same[k]]
        OBVIOUS
      <3>3. rows = [k \in DOMAIN rows |-> rows[k]]
        BY <1>3
      <3> HIDE DEF same
      <3>4. same = rows
        BY <3>1, <3>2, <3>3
      <3> QED BY <1>3, <3>4 DEF same
    <2> QED BY <2>1, <2>2
  <1>5. Append(rows, status) \in Seq(Statuses)
    BY <1>3
  <1> QED BY <1>2, <1>3, <1>4, <1>5 DEF ScansHold

\* A step of a scan that leaves disk and catalogue alone.
LEMMA ScanStepHolds ==
  ASSUME IInv, ScansHold', UNCHANGED <<disk, obj, clock, was, cat, groups>>
  PROVE  IInv'
  BY DEF IInv, Remembered, GroupsHold, GroupsAreCurrent

LEMMA StartedHolds ==
  ASSUME IInv, NEW x \in Procs, NEW kind \in Kinds, NEW todo \in SUBSET Paths,
         NEW job \in Jobs \cup {None}, NEW sample \in Observations \cup {None},
         Started(x, kind, todo, job, sample), UNCHANGED <<disk, obj, clock, was, cat, groups>>
  PROVE  IInv'
  <1> DEFINE s == [Idle EXCEPT !.pc = "inspect", !.kind = kind, !.id = Len(rows) + 1,
                               !.todo = todo, !.job = job, !.sample = sample]
  <1>1. /\ rows' = Append(rows, "running") /\ proc' = [proc EXCEPT ![x] = s]
    BY DEF Started
  <1>2. Len(rows) + 1 \in Nat
    BY DEF IInv, ScansHold
  <1>3. Idle \in Scans /\ Idle.seen = <<>>
    BY IdleTruthful DEF Truthful, Idle
  <1>4. Truthful(s, was)
    <2>1. s \in Scans /\ s.pc = "inspect" /\ s.kind = kind /\ s.seen = Idle.seen
      BY <1>2, <1>3 DEF Scans
    <2>2. DOMAIN s.seen = {}
      BY <1>3, <2>1
    <2> HIDE DEF s
    <2> QED BY <2>1, <2>2 DEF Truthful
  <1> HIDE DEF s
  <1>5. ScansHold'
    BY <1>1, <1>4, ScanMoves DEF IInv, Statuses
  <1> QED BY <1>5, ScanStepHolds

LEMMA BeginScanHolds ==
  ASSUME IInv, NEW k \in {"full", "consumer"}, BeginScan(k) PROVE IInv'
  <1>1. User \in Procs /\ k \in Kinds /\ Started(User, k, Paths, None, None)
    BY DEF BeginScan, Procs
  <1>2. UNCHANGED <<disk, obj, clock, was, cat, groups>>
    BY DEF BeginScan
  <1> QED BY <1>1, <1>2, StartedHolds

LEMMA ReconcileHolds ==
  ASSUME CatalogueAssumption, IInv, NEW c \in Paths \cup {None}, NEW g \in Paths \cup {None},
         Reconcile(c, g)
  PROVE  IInv'
  <1> DEFINE todo == IF c = None THEN {} ELSE {c} \cup Candidates(cat, Entry(c).size)
             job == [cur |-> c, gone |-> g, known |-> Known]
             sample == IF c = None THEN None ELSE Entry(c)
  <1>1. /\ "targeted" \in Kinds /\ (c # None => disk[c] # None)
        /\ Started(Watch, "targeted", todo, job, sample)
        /\ UNCHANGED <<disk, obj, clock, was, cat, groups>>
    BY DEF Reconcile
  <1>2. cat.homes \subseteq Homes
    BY DEF IInv, Sound
  <1>3. todo \in SUBSET Paths /\ job \in Jobs
    <2>1. Known \in SUBSET Paths
      BY <1>2 DEF Known, Homes
    <2>2. Candidates(cat, Entry(c).size) \in SUBSET Paths
      BY <1>2 DEF Candidates, Homes
    <2> QED BY <2>1, <2>2 DEF Jobs
  <1>4. sample \in Observations \cup {None}
    <2>1. c # None => Entry(c) \in Observations
      BY <1>1, EntryTruthful DEF IInv
    <2> QED BY <2>1
  <1> HIDE DEF todo, job, sample
  <1>5. Watch \in Procs
    BY DEF Procs
  <1> QED BY <1>1, <1>3, <1>4, <1>5, StartedHolds

\* A scan that ends.
LEMMA FinishedHolds ==
  ASSUME ScansHold, NEW x \in Procs, NEW status \in Statuses, Finished(x, status), was' = was
  PROVE  ScansHold'
  <1>1. Truthful(Idle, was)
    BY IdleTruthful
  <1>2. proc' = [proc EXCEPT ![x] = Idle] /\ rows' = [rows EXCEPT ![proc[x].id] = status]
    BY DEF Finished
  <1> QED BY <1>1, <1>2, ScanMoves

LEMMA InspectHolds ==
  ASSUME CatalogueAssumption, IInv, NEW x \in Procs, NEW p \in Paths, Inspect(x, p)
  PROVE  IInv'
  <1> DEFINE s == proc[x]
             less == [s EXCEPT !.todo = @ \ {p}]
             more == [s EXCEPT !.todo = @ \ {p}, !.seen = Append(@, Entry(p))]
  <1>1. /\ s \in Scans /\ Truthful(s, was) /\ s.pc = "inspect"
        /\ UNCHANGED <<disk, obj, clock, was, cat, groups, rows>>
    BY DEF IInv, ScansHold, Inspect
  <1>2. \/ proc' = [proc EXCEPT ![x] = less] \/ proc' = [proc EXCEPT ![x] = Idle]
        \/ disk[p] # None /\ proc' = [proc EXCEPT ![x] = more]
    BY DEF Inspect
  <1>3. Truthful(less, was)
    <2>1. less \in Scans /\ less.pc = s.pc /\ less.kind = s.kind /\ less.seen = s.seen
      BY <1>1 DEF Scans
    <2> QED BY <1>1, <2>1 DEF Truthful
  <1>4. disk[p] # None => Truthful(more, was)
    <2> SUFFICES ASSUME disk[p] # None PROVE Truthful(more, was)
      OBVIOUS
    <2>1. Entry(p) \in Observations /\ OfContent(Entry(p), was)
      BY EntryTruthful DEF IInv
    <2> DEFINE seen == Append(s.seen, Entry(p))
    <2>2. s.seen \in Seq(Observations)
      BY <1>1 DEF Scans
    <2>3. seen \in Seq(Observations) /\ \A k \in DOMAIN seen : OfContent(seen[k], was)
      BY <1>1, <2>1, <2>2 DEF Truthful
    <2>4. more = [s EXCEPT !.todo = s.todo \ {p}, !.seen = seen]
      BY <1>1 DEF Scans
    <2> HIDE DEF seen
    <2>5. more \in Scans /\ more.pc = s.pc /\ more.kind = s.kind /\ more.seen = seen
      BY <1>1, <2>3, <2>4 DEF Scans
    <2> QED BY <1>1, <2>3, <2>5 DEF Truthful
  <1> HIDE DEF less, more
  <1>5. PICK next \in {less, Idle, more} : proc' = [proc EXCEPT ![x] = next] /\ Truthful(next, was)
    BY <1>2, <1>3, <1>4, IdleTruthful
  <1>6. ScansHold'
    BY <1>1, <1>5, ScanMoves DEF IInv, Statuses
  <1> QED BY <1>1, <1>6, ScanStepHolds

\* A step that changes what a scan is about to do, and nothing it has seen.
LEMMA ScanGoesOn ==
  ASSUME IInv, NEW x \in Procs, NEW s \in Scans, proc' = [proc EXCEPT ![x] = s],
         s.kind = proc[x].kind, s.seen = proc[x].seen, proc[x].pc # "idle",
         UNCHANGED <<disk, obj, clock, was, cat, groups, rows>>
  PROVE  IInv'
  <1>1. Truthful(proc[x], was)
    BY DEF IInv, ScansHold
  <1>2. Truthful(s, was)
    BY <1>1 DEF Truthful
  <1>3. ScansHold'
    BY <1>2, ScanMoves DEF IInv, Statuses
  <1> QED BY <1>3, ScanStepHolds

LEMMA StartHashingHolds ==
  ASSUME IInv, NEW x \in Procs, StartHashing(x) PROVE IInv'
  <1> DEFINE hash == {k \in DOMAIN proc[x].seen : Candidate(proc[x], k)}
             s == [proc[x] EXCEPT !.pc = "hash", !.hash = hash]
  <1>1. proc[x] \in Scans /\ proc \in [Procs -> Scans] /\ proc[x].pc = "inspect"
        /\ UNCHANGED <<disk, obj, clock, was, cat, groups, rows>>
    BY DEF IInv, ScansHold, StartHashing
  <1>2. proc' = [proc EXCEPT ![x] = s]
    BY <1>1 DEF StartHashing
  <1>3. hash \in SUBSET Nat
    <2>1. proc[x].seen \in Seq(Observations)
      BY <1>1 DEF Scans
    <2> QED BY <2>1
  <1> HIDE DEF hash
  <1>4. s \in Scans /\ s.kind = proc[x].kind /\ s.seen = proc[x].seen
    BY <1>1, <1>3 DEF Scans
  <1> HIDE DEF s
  <1> QED BY <1>1, <1>2, <1>4, ScanGoesOn

LEMMA CancelHolds ==
  ASSUME IInv, NEW x \in Procs, Cancel(x) PROVE IInv'
  <1> DEFINE s == [proc[x] EXCEPT !.stop = TRUE]
  <1>1. proc[x] \in Scans /\ proc \in [Procs -> Scans] /\ proc[x].pc # "idle"
        /\ UNCHANGED <<disk, obj, clock, was, cat, groups, rows>>
    BY DEF IInv, ScansHold, Cancel
  <1>2. proc' = [proc EXCEPT ![x] = s]
    BY <1>1 DEF Cancel
  <1>3. s \in Scans /\ s.kind = proc[x].kind /\ s.seen = proc[x].seen
    BY <1>1 DEF Scans
  <1> HIDE DEF s
  <1> QED BY <1>1, <1>2, <1>3, ScanGoesOn

\* A fingerprint counts only when the file is still what was inspected; then it
\* is of the content that the inode has at that time.
LEMMA HashHolds ==
  ASSUME CatalogueAssumption, IInv, NEW x \in Procs, NEW k \in DOMAIN proc[x].seen, Hash(x, k)
  PROVE  IInv'
  <1> DEFINE o == proc[x].seen[k]
             d == IF SameFile(o, o.path) /\ obj[disk[o.path]].content \notin Big
                  THEN obj[disk[o.path]].content ELSE None
             seen == [proc[x].seen EXCEPT ![k] = [o EXCEPT !.digest = d]]
             s == [proc[x] EXCEPT !.hash = @ \ {k}, !.seen = seen]
  <1>1. /\ proc[x] \in Scans /\ proc \in [Procs -> Scans] /\ Truthful(proc[x], was)
        /\ proc[x].pc = "hash" /\ UNCHANGED <<disk, obj, clock, was, cat, groups, rows>>
    BY DEF IInv, ScansHold, Hash
  <1>2. proc[x].seen \in Seq(Observations) /\ o \in Observations
    BY SMTT(20), <1>1 DEF Scans
  <1>3. proc' = [proc EXCEPT ![x] = s]
    BY ZenonT(40), <1>1, <1>2 DEF Hash, Observations, Scans
  <1>4. d \in Digests /\ OfContent([o EXCEPT !.digest = d], was)
    <2>1. CASE SameFile(o, o.path) /\ obj[disk[o.path]].content \notin Big
      <3>1. o.path \in Paths /\ disk[o.path] # None /\ disk[o.path] \in Inodes
        BY <1>2, <2>1 DEF SameFile, Observations, IInv, Remembered
      <3>2. /\ obj[disk[o.path]].content \in Contents
            /\ <<disk[o.path], obj[disk[o.path]].mtime, obj[disk[o.path]].content>> \in was
        BY <3>1 DEF IInv, Remembered
      <3>3. [Entry(o.path) EXCEPT !.digest = o.digest] = o
        BY SMTT(20), <2>1 DEF SameFile
      <3>4. /\ o.inode = disk[o.path] /\ o.mtime = obj[disk[o.path]].mtime
            /\ o.size = Size[obj[disk[o.path]].content]
        BY <3>3 DEF Entry
      <3>5. d = obj[disk[o.path]].content
        BY <2>1
      <3> HIDE DEF d
      <3> QED BY <1>2, <3>2, <3>4, <3>5 DEF OfContent, Digests, Observations
    <2>2. CASE ~ (SameFile(o, o.path) /\ obj[disk[o.path]].content \notin Big)
      <3>1. d = None
        BY <2>2
      <3> HIDE DEF d
      <3> QED BY <1>2, <3>1 DEF OfContent, Digests, Observations
    <2> QED BY SMTT(20), <2>1, <2>2
  <1> HIDE DEF d
  <1>5. [o EXCEPT !.digest = d] \in Observations
    BY <1>2, <1>4 DEF Observations
  <1>6. /\ seen \in Seq(Observations) /\ DOMAIN seen = DOMAIN proc[x].seen
        /\ seen[k] = [o EXCEPT !.digest = d]
        /\ \A j \in DOMAIN proc[x].seen \ {k} : seen[j] = proc[x].seen[j]
    BY <1>2, <1>5, ExceptSeq
  <1>7. \A j \in DOMAIN seen : OfContent(seen[j], was)
    BY <1>1, <1>4, <1>6 DEF Truthful
  <1> HIDE DEF o, seen
  <1>8. s \in Scans /\ s.kind = proc[x].kind /\ s.seen = seen /\ s.pc = "hash"
    BY <1>1, <1>6 DEF Scans
  <1> HIDE DEF s
  <1>9. Truthful(s, was)
    BY <1>1, <1>7, <1>8 DEF Truthful
  <1>10. ScansHold'
    BY <1>1, <1>3, <1>9, ScanMoves DEF IInv, Statuses
  <1> QED BY <1>1, <1>10, ScanStepHolds

LEMMA SeenPersisted ==
  ASSUME IInv, NEW x \in Procs
  PROVE  /\ proc[x] \in Scans /\ proc[x].seen \in Seq(Observations)
         /\ (proc[x].pc # "idle" => proc[x].kind \in Kinds)
         /\ Sound(PersistAll(cat, proc[x].seen), was)
  <1>1. proc[x] \in Scans /\ Truthful(proc[x], was) /\ Sound(cat, was)
    BY DEF IInv, ScansHold
  <1>2. proc[x].seen \in Seq(Observations)
    BY <1>1 DEF Scans
  <1>3. \A k \in DOMAIN proc[x].seen : OfContent(proc[x].seen[k], was)
    BY <1>1 DEF Truthful
  <1> QED BY <1>1, <1>2, <1>3, PersistAllSound DEF Truthful

LEMMA StatusOf == ASSUME NEW s PROVE Status(s) \in Statuses
BY DEF Status, Statuses

LEMMA CompleteHolds ==
  ASSUME IInv, NEW x \in Procs, Complete(x) PROVE IInv'
  <1> DEFINE s == proc[x]
  <1>1. s.pc = "hash" /\ UNCHANGED <<disk, obj, clock, was>>
    BY DEF Complete
  <1>2. Remembered'
    BY <1>1 DEF IInv, Remembered
  <1>3. CASE Finished(x, "failed") /\ UNCHANGED <<cat, groups>>
    <2>1. ScansHold'
      BY <1>1, <1>3, FinishedHolds DEF IInv, Statuses
    <2> QED BY <1>1, <1>3, <2>1, ScanStepHolds
  <1>4. CASE /\ cat' = PersistAll(cat, s.seen) /\ groups' = GroupsOf(cat')
             /\ IF s.kind = "targeted" /\ s.job.gone # None
                THEN /\ rows' = [rows EXCEPT ![s.id] = Status(s)]
                     /\ proc' = [proc EXCEPT ![x].pc = "retire"]
                ELSE Finished(x, Status(s))
    <2>1. Sound(cat', was) /\ s \in Scans /\ s.kind \in Kinds
      BY <1>1, <1>4, SeenPersisted
    <2>2. GroupsHold'
      BY <1>4, <2>1, GroupsRebuilt DEF GroupsHold
    <2>3. CASE Finished(x, Status(s))
      <3>1. ScansHold'
        BY <1>1, <2>3, StatusOf, FinishedHolds DEF IInv
      <3> QED BY <1>1, <1>2, <2>1, <2>2, <3>1 DEF IInv
    <2>4. CASE /\ rows' = [rows EXCEPT ![s.id] = Status(s)]
               /\ proc' = [proc EXCEPT ![x].pc = "retire"]
      <3> DEFINE r == [s EXCEPT !.pc = "retire"]
      <3>1. r \in Scans /\ r.kind = s.kind /\ r.seen = s.seen
        BY <2>1 DEF Scans
      <3>2. proc' = [proc EXCEPT ![x] = r]
        BY <2>4
      <3>3. Truthful(s, was)
        BY DEF IInv, ScansHold
      <3>4. Truthful(r, was)
        BY <2>1, <3>1, <3>3 DEF Truthful
      <3> HIDE DEF r
      <3>5. Status(s) \in Statuses
        BY StatusOf
      <3>6. ScansHold'
        BY <1>1, <2>4, <3>2, <3>4, <3>5, ScanMoves DEF IInv
      <3> QED BY <1>1, <1>2, <2>1, <2>2, <3>6 DEF IInv
    <2> QED BY <1>4, <2>3, <2>4
  <1> QED BY <1>3, <1>4 DEF Complete

LEMMA RetireHolds ==
  ASSUME IInv, Retire PROVE IInv'
  <1>1. /\ UNCHANGED <<disk, obj, clock, was, rows>> /\ proc' = [proc EXCEPT ![Watch] = Idle]
        /\ UNCHANGED <<cat, groups>> \/ MarkMissing(proc[Watch].job.gone)
    BY DEF Retire
  <1>2. Watch \in Procs
    BY DEF Procs
  <1>3. ScansHold'
    BY <1>1, <1>2, IdleTruthful, ScanMoves DEF IInv, Statuses
  <1>4. CASE UNCHANGED <<cat, groups>>
    BY <1>1, <1>3, <1>4, ScanStepHolds
  <1>5. CASE MarkMissing(proc[Watch].job.gone)
    <2>1. Sound(cat', was)
      BY <1>5, MissingSound DEF IInv
    <2>2. GroupsHold'
      BY <1>5, MissingGroups DEF IInv
    <2> QED BY <1>1, <1>3, <2>1, <2>2 DEF IInv, Remembered
  <1> QED BY <1>1, <1>4, <1>5

\* A consumer scan persists and leaves the groups as they are.
LEMMA ConsumerStepHolds ==
  ASSUME IInv, ConsumerStep PROVE IInv'
  <1> DEFINE s == proc[User]
  <1>1. /\ s.pc = "inspect" /\ s.kind = "consumer" /\ cat' = PersistAll(cat, s.seen)
        /\ UNCHANGED <<disk, obj, clock, was, groups>>
        /\ \/ proc' = [proc EXCEPT ![User].seen = <<>>] /\ UNCHANGED rows
           \/ Finished(User, Status(s))
    BY DEF ConsumerStep, FlushBatch, FinalizeConsumer, LastBatch
  <1>2. User \in Procs
    BY DEF Procs
  <1>3. Sound(cat', was') /\ "consumer" \in Kinds /\ s \in Scans
    BY <1>1, <1>2, SeenPersisted
  <1>4. GroupsHold'
    BY <1>1, <1>3 DEF IInv, GroupsHold
  <1>5. ScansHold'
    <2>1. CASE proc' = [proc EXCEPT ![User].seen = <<>>] /\ UNCHANGED rows
      <3> DEFINE r == [s EXCEPT !.seen = <<>>]
      <3>1. <<>> \in Seq(Observations) /\ DOMAIN <<>> = {}
        OBVIOUS
      <3>2. r \in Scans /\ r.kind = s.kind /\ r.seen = <<>>
        BY <1>3, <3>1 DEF Scans
      <3>3. proc' = [proc EXCEPT ![User] = r]
        BY <2>1
      <3> HIDE DEF r
      <3>4. Truthful(r, was)
        BY <1>1, <1>3, <3>1, <3>2 DEF Truthful
      <3> QED BY <1>1, <1>2, <2>1, <3>3, <3>4, ScanMoves DEF IInv, Statuses
    <2>2. CASE Finished(User, Status(s))
      BY <1>1, <1>2, <2>2, StatusOf, FinishedHolds DEF IInv
    <2> QED BY <1>1, <2>1, <2>2
  <1> QED BY <1>1, <1>3, <1>4, <1>5 DEF IInv, Remembered

LEMMA VolumeErrorHolds ==
  ASSUME IInv, NEW x \in Procs, VolumeError(x) PROVE IInv'
  <1>1. /\ UNCHANGED <<disk, obj, clock, was, cat, groups>>
        /\ \/ proc' = [proc EXCEPT ![x] = Idle] /\ UNCHANGED rows
           \/ Finished(x, "failed")
    BY DEF VolumeError
  <1>2. CASE proc' = [proc EXCEPT ![x] = Idle] /\ UNCHANGED rows
    <2>1. ScansHold'
      BY <1>1, <1>2, IdleTruthful, ScanMoves DEF IInv, Statuses
    <2> QED BY <1>1, <2>1, ScanStepHolds
  <1>3. CASE Finished(x, "failed")
    <2>1. ScansHold'
      BY <1>1, <1>3, FinishedHolds DEF IInv, Statuses
    <2> QED BY <1>1, <2>1, ScanStepHolds
  <1> QED BY <1>1, <1>2, <1>3

-----------------------------------------------------------------------------
(* The catalogue *)

LEMMA InitHolds == ASSUME CatalogueAssumption, Init PROVE IInv
  <1>1. PICK s \in SUBSET Paths, f \in [Paths -> Inodes], c \in [Inodes -> Contents] :
           /\ disk = [p \in Paths |-> IF p \in s THEN f[p] ELSE None]
           /\ obj = [i \in Inodes |-> [content |-> c[i], mtime |-> 0]]
           /\ was = {<<i, 0, c[i]>> : i \in Inodes}
    BY DEF Init
  <1>2. Remembered
    <2>1. clock = 0 /\ MaxChanges \in Nat
      BY DEF Init, CatalogueAssumption
    <2>2. ASSUME NEW i \in Inodes
          PROVE  /\ obj[i] \in [content : Contents, mtime : Nat]
                 /\ <<i, obj[i].mtime, obj[i].content>> \in was
      BY <1>1
    <2> QED BY <1>1, <2>1, <2>2 DEF Remembered
  <1>3. Sound(cat, was)
    BY DEF Init, Sound
  <1>4. ScansHold
    <2>1. proc = [x \in Procs |-> Idle] /\ rows = <<>>
      BY DEF Init
    <2>2. Truthful(Idle, was) /\ Idle \in Scans
      BY IdleTruthful DEF Truthful
    <2>3. <<>> \in Seq(Statuses)
      OBVIOUS
    <2> QED BY <2>1, <2>2, <2>3 DEF ScansHold
  <1>5. GroupsHold
    BY DEF Init, GroupsHold, GroupsAreCurrent
  <1> QED BY <1>2, <1>3, <1>4, <1>5 DEF IInv

LEMMA StepHolds == ASSUME CatalogueAssumption, IInv, [Next]_vars PROVE IInv'
  <1>1. CASE UNCHANGED vars
    BY <1>1 DEF vars, IInv, Remembered, ScansHold, GroupsHold, GroupsAreCurrent
  <1>2. CASE DiskStep
    BY <1>2, DiskStepHolds
  <1>3. ASSUME NEW k \in {"full", "consumer"}, BeginScan(k) PROVE IInv'
    BY <1>3, BeginScanHolds
  <1>4. ASSUME NEW c \in Paths \cup {None}, NEW g \in Paths \cup {None}, Reconcile(c, g)
        PROVE  IInv'
    BY <1>4, ReconcileHolds
  <1>5. ASSUME NEW x \in Procs, NEW p \in Paths, Inspect(x, p) PROVE IInv'
    BY <1>5, InspectHolds
  <1>6. ASSUME NEW x \in Procs, NEW k \in DOMAIN proc[x].seen, Hash(x, k) PROVE IInv'
    BY <1>6, HashHolds
  <1>7. ASSUME NEW x \in Procs, StartHashing(x) \/ Cancel(x) \/ Complete(x) \/ VolumeError(x)
        PROVE  IInv'
    BY <1>7, StartHashingHolds, CancelHolds, CompleteHolds, VolumeErrorHolds
  <1>8. CASE Retire
    BY <1>8, RetireHolds
  <1>9. CASE ConsumerStep
    BY <1>9, ConsumerStepHolds
  <1> QED BY <1>1, <1>2, <1>3, <1>4, <1>5, <1>6, <1>7, <1>8, <1>9 DEF Next

\* What the invariant says of the properties that are checked.
LEMMA Tells ==
  ASSUME IInv
  PROVE  TypeOK /\ OneHome /\ DigestIsOfVersion /\ ("consumer" \notin Kinds => GroupsAreCurrent)
  <1>1. TypeOK
    <2>1. ASSUME NEW x \in Procs
          PROVE  proc[x].pc \in {"idle", "inspect", "hash", "retire"} /\ proc[x].todo \subseteq Paths
      BY DEF IInv, ScansHold, Scans
    <2>2. \A n \in DOMAIN rows : rows[n] \in Statuses
      BY DEF IInv, ScansHold
    <2>3. \A r \in cat.ids : r.inode \in Inodes /\ r.file \in 1..cat.files
      BY DEF IInv, Sound
    <2>4. \A h \in cat.homes : h.path \in Paths /\ \E r \in cat.ids : r.file = h.file
      BY DEF IInv, Sound, Homes
    <2> QED BY <2>1, <2>2, <2>3, <2>4 DEF TypeOK, IInv, Remembered, Statuses
  <1>2. OneHome
    BY DEF OneHome, IInv, Sound
  <1>3. DigestIsOfVersion
    BY DEF DigestIsOfVersion, IInv, Sound, OfContent
  <1> QED BY <1>1, <1>2, <1>3 DEF IInv, GroupsHold

LEMMA Holds == ASSUME CatalogueAssumption PROVE Spec => []IInv
  <1>1. Init => IInv
    BY InitHolds
  <1>2. IInv /\ [Next]_vars => IInv'
    BY StepHolds
  <1> QED BY <1>1, <1>2, PTL DEF Spec

\* However scans overlap, a path has one file, a file one path and an inode one
\* file in the catalogue (persist_observation, mark_current_path_missing).
THEOREM OneHomeHolds == ASSUME CatalogueAssumption PROVE Spec => []OneHome
  BY Tells, Holds, PTL

\* The digest of a version is of the content that the file had at the size and
\* time of the version, although the file may be written or replaced between
\* its inspection and its hashing (fingerprint_unchanged_file).
THEOREM DigestsHold == ASSUME CatalogueAssumption PROVE Spec => []DigestIsOfVersion
  BY Tells, Holds, PTL

\* Without consumer scans, which do not rebuild them, the duplicate groups are
\* of the latest versions of files in the catalogue (refresh_duplicate_groups).
THEOREM GroupsHoldAlways ==
  ASSUME CatalogueAssumption, "consumer" \notin Kinds PROVE Spec => []GroupsAreCurrent
  BY Tells, Holds, PTL
=============================================================================

---------------------------- MODULE MCOrganizing -----------------------------
(***************************************************************************)
(* From the knowledge about files to a proposal: identities, rules, the    *)
(* organization engine and the store of proposals and revisions.  The      *)
(* parts are checked side by side: the initial state says which of them a  *)
(* behaviour is about, and the variables of the others are Off.            *)
(***************************************************************************)
EXTENDS Naturals, Sequences, TLC

CONSTANTS
  None,
  \* the rules
  Workers, RuleIds, RuleFiles, Roots, RootOf, Values, ValueOf, Decisions, Keeping,
  Threshold, MaxRules, MaxObservations,
  \* the identities, of the files that are their Documents
  Documents, Budgets, Corrections, CoreOf, Overlap, MaxIdentities

VARIABLES
  part,       \* the part that this behaviour is about
  version, storeDirty, status, cur, revs, storeDecided, acked, approved, b,
  inputs, engineDecided, ops, engineDirty, fresh, before, phase, incremental,
  affected, drafts, seen, done, changes,
  rules, used, obs, suggestion, matches, shown, order, work,
  analysis, corrected, resolution, db, run, command, budget, apart

\* What the engine knows of a file.
Known == [context |-> "business", customer |-> None, supplier |-> None, project |-> None,
          area |-> <<"finance">>, type |-> None, year |-> None, inproject |-> FALSE,
          grade |-> "high", rule |-> None, name |-> None, duplicate |-> FALSE, long |-> FALSE,
          program |-> FALSE, category |-> <<"documents">>, sort |-> "other"]
Invoice == [Known EXCEPT !.customer = "acme", !.year = "2024", !.type = "invoices"]
Statement == [Known EXCEPT !.context = "personal", !.year = "2024", !.name = <<"scan">>]

\* An office; a folder with rules, duplicates and structures to preserve; a
\* desktop with a project folder, programs and images.
OfficeInputs == {Invoice, Statement, [Known EXCEPT !.grade = "low"],
                 [Invoice EXCEPT !.customer = "Acme"]}
RuledInputs == {[Known EXCEPT !.rule = <<"business", "finance">>], Statement,
                [Statement EXCEPT !.duplicate = TRUE], [Known EXCEPT !.rule = <<"preserve">>],
                [Invoice EXCEPT !.project = "site", !.inproject = TRUE]}
DesktopInputs == {Known, [Known EXCEPT !.program = TRUE], [Known EXCEPT !.sort = "code"],
                  [Known EXCEPT !.sort = "image", !.category = <<"images">>],
                  [Known EXCEPT !.long = TRUE, !.sort = "work"],
                  [Known EXCEPT !.rule = <<"archives">>, !.sort = "manifest"]}
OfficeDirs == <<<<"Desk">>, <<"inbox">>, <<>>>>
RuledDirs == <<<<"business", "finance">>, <<"inbox">>, <<>>>>
DesktopDirs == <<<<"Site">>, <<"site", "img">>, <<>>>>
OfficeNames == <<<<"a">>, <<"A">>, <<"a", "2">>>>
DesktopNames == <<<<"a">>, <<"A">>, <<"a">>>>
Choices(dest) == {[action |-> "destination", dest |-> dest], [action |-> "keep"],
                  [action |-> "review"]}
OfficeChoices == Choices(<<"personal", "finance">>)
RuledChoices == Choices(<<"business", "finance">>)
DesktopChoices == Choices(<<"archives">>)
Folded == ("A" :> "a") @@ ("Acme" :> "acme") @@ ("Site" :> "site")

\* Upper case before lower case, digits before letters.
Ranks ==
  LET names == <<"2", "3", "4", "2024", "A", "Acme", "Desk", "Site", "TO_REVIEW", "a",
                 "a verifier", "acme", "administrative", "albums", "archives", "b", "business",
                 "c", "clients", "development", "documents", "finance", "folders", "images",
                 "img", "inbox", "invoices", "mine", "personal", "projects", "scan", "site",
                 "suppliers", "travail">>
  IN  [n \in {names[i] : i \in DOMAIN names} |-> CHOOSE i \in DOMAIN names : names[i] = n]

\* Two roots with one file each.
RootOfFile == [f \in {"f1", "f2"} |-> IF f = "f1" THEN "r1" ELSE "r2"]
ValueOfFile == [f \in {"f1", "f2"} |-> "a"]

\* Names 1 and 2 differ in the legal suffix only, 3 is another name.
Cores == <<1, 1, 3>>

\* A decision about three files, with and without a company identifier; an
\* analysis, a correction and a decision about two files with one.
Identified == {[name |-> 1, ids |-> {1}]}
Named == Identified \cup {[name |-> 1, ids |-> {}]}
UserBudgets ==
  {[files |-> {1, 2, 3}, contents |-> Named,
    analyses |-> 0, corrections |-> 0, decisions |-> 1],
   [files |-> {1, 2}, contents |-> Identified,
    analyses |-> 1, corrections |-> 1, decisions |-> 1]}

\* The commands on rules are interchangeable.
Symmetry == Permutations(Workers)

Store == INSTANCE ProposalStoreProofs WITH
  Builders <- {"generate", "override", "rules"}, Files <- {"f1"},
  Decisions <- {"keep", "move"}, MaxProposals <- 1, MaxRevision <- 3,
  MaxVersion <- 1, Incremental <- FALSE, dirty <- storeDirty,
  decided <- storeDecided
Monitored == INSTANCE ProposalStoreProofs WITH
  Builders <- {"generate", "monitor"},
  Files <- {"f1"}, Decisions <- {"keep"}, MaxProposals <- 2, MaxRevision <- 2,
  MaxVersion <- 2, Incremental <- TRUE, dirty <- storeDirty,
  decided <- storeDecided
Office == INSTANCE ProposalEngine WITH
  N <- 3, Dir <- OfficeDirs,
  Name <- OfficeNames, Inputs <- OfficeInputs, Decisions <- OfficeChoices,
  Lower <- Folded, Rank <- Ranks, MinGroup <- 2, MaxDepth <- 6,
  ClientFirst <- TRUE, PreserveExisting <- FALSE, Consumer <- FALSE,
  MaxChanges <- 1, decided <- engineDecided, dirty <- engineDirty
Ruled == INSTANCE ProposalEngine WITH
  N <- 3, Dir <- RuledDirs,
  Name <- OfficeNames, Inputs <- RuledInputs, Decisions <- RuledChoices,
  Lower <- Folded, Rank <- Ranks, MinGroup <- 2, MaxDepth <- 4,
  ClientFirst <- FALSE, PreserveExisting <- TRUE, Consumer <- FALSE,
  MaxChanges <- 1, decided <- engineDecided, dirty <- engineDirty
Desktop == INSTANCE ProposalEngine WITH
  N <- 3, Dir <- DesktopDirs,
  Name <- DesktopNames, Inputs <- DesktopInputs, Decisions <- DesktopChoices,
  Lower <- Folded, Rank <- Ranks, MinGroup <- 2, MaxDepth <- 6,
  ClientFirst <- TRUE, PreserveExisting <- FALSE, Consumer <- TRUE,
  MaxChanges <- 1, decided <- engineDecided, dirty <- engineDirty
Ruling == INSTANCE Rules WITH Ids <- RuleIds, Files <- RuleFiles
Identities == INSTANCE IdentityResolution WITH Files <- Documents

ASSUME PartsAssumption ==
  /\ Store!StoreAssumption /\ Monitored!StoreAssumption
  /\ Office!EngineAssumption /\ Ruled!EngineAssumption /\ Desktop!EngineAssumption
  /\ Ruling!RulesAssumption
  /\ Identities!IdentityAssumption

\* The variables of a part that does not run.
Off == "off"
StoreOff ==
  /\ version = Off /\ storeDirty = Off /\ status = Off /\ cur = Off
  /\ revs = Off /\ storeDecided = Off /\ acked = Off /\ approved = Off
  /\ b = Off
OfficeOff ==
  /\ inputs = Off /\ engineDecided = Off /\ ops = Off
  /\ engineDirty = Off /\ fresh = Off /\ before = Off /\ phase = Off
  /\ incremental = Off /\ affected = Off /\ drafts = Off /\ seen = Off
  /\ done = Off /\ changes = Off
OrderOff ==
  /\ rules = Off /\ used = Off /\ obs = Off /\ suggestion = Off
  /\ matches = Off /\ shown = Off /\ order = Off /\ work = Off
IdentitiesOff ==
  /\ analysis = Off /\ corrected = Off /\ resolution = Off
  /\ db = Off /\ run = Off /\ command = Off /\ budget = Off /\ apart = Off

storeVars ==
  <<version, storeDirty, status, cur, revs, storeDecided, acked,
    approved, b>>
engineVars ==
  <<inputs, engineDecided, ops, engineDirty, fresh, before,
    phase, incremental, affected, drafts, seen, done, changes>>
ruleVars ==
  <<rules, used, obs, suggestion, matches, shown, order, work>>
identityVars ==
  <<analysis, corrected, resolution, db, run, command, budget,
    apart>>

Init ==
  \/ part = "builders" /\ Store!Init /\ OfficeOff /\ OrderOff /\ IdentitiesOff
  \/ part = "monitored" /\ Monitored!Init /\ OfficeOff /\ OrderOff /\
       IdentitiesOff
  \/ part = "office" /\ Office!Init /\ StoreOff /\ OrderOff /\ IdentitiesOff
  \/ part = "ruled" /\ Ruled!Init /\ StoreOff /\ OrderOff /\ IdentitiesOff
  \/ part = "desktop" /\ Desktop!Init /\ StoreOff /\ OrderOff /\ IdentitiesOff
  \/ part = "rules" /\ Ruling!Init /\ StoreOff /\ OfficeOff /\ IdentitiesOff
  \/ part = "identities" /\ Identities!Init /\ StoreOff /\ OfficeOff /\
       OrderOff

Next ==
  \/ part = "builders" /\ Store!Next /\ UNCHANGED <<part, engineVars, ruleVars,
       identityVars>>
  \/ part = "monitored" /\ Monitored!Next /\ UNCHANGED <<part, engineVars,
       ruleVars, identityVars>>
  \/ part = "office" /\ Office!Next /\ UNCHANGED <<part, storeVars, ruleVars,
       identityVars>>
  \/ part = "ruled" /\ Ruled!Next /\ UNCHANGED <<part, storeVars, ruleVars,
       identityVars>>
  \/ part = "desktop" /\ Desktop!Next /\ UNCHANGED <<part, storeVars, ruleVars,
       identityVars>>
  \/ part = "rules" /\ Ruling!Next /\ UNCHANGED <<part, storeVars, engineVars,
       identityVars>>
  \/ part = "identities" /\ Identities!Next /\ UNCHANGED <<part, storeVars,
       engineVars, ruleVars>>

vars == <<part, storeVars, engineVars, ruleVars, identityVars>>

Spec == Init /\ [][Next]_vars

\* A decision the user was told is stored is the one the current revision
\* applies, whatever builds run beside it: "overrides remain authoritative
\* through recomputation".
OverrideHonoured == part = "builders" => Store!OverrideHonoured

\* An approval is for the revision that was current when it was given: a later
\* revision, however it comes about, has to be approved again.
ApprovedRevision ==
  /\ part = "builders" => Store!ApprovedRevision
  /\ part = "monitored" => Monitored!ApprovedRevision

\* What is offered for review was computed to the end: "Cancelled partial
\* revisions are consistent and do not replace a prior valid proposal".
CurrentIsComplete ==
  /\ part = "builders" => Store!CurrentIsComplete
  /\ part = "monitored" => Monitored!CurrentIsComplete

\* A slow build never replaces what a later one has stored: a stored revision
\* keeps its operations, except for the mark that a source has drifted.
HistoryIsKept ==
  [][/\ part = "builders" => Store!HistoryIsKeptStep
     /\ part = "monitored" => Monitored!HistoryIsKeptStep]_vars

\* No two operations the engine calls free of conflict send files to the same
\* place of a volume that ignores case, whatever was built incrementally.
UniqueDestinations ==
  /\ part = "office" => Office!UniqueDestinations
  /\ part = "ruled" => Ruled!UniqueDestinations

\* A year or a type folder of its own is never proposed for fewer files than
\* the preference asks for: "optional singleton year/type tails collapse below
\* the configurable minimum group size".
NoSmallGroup == part = "office" => Office!NoSmallGroup

\* Where the user decided a file goes is where it goes, or the operation is
\* held for review: "Destination/name and decision overrides remain
\* authoritative through recomputation".
DestinationHonoured ==
  /\ part = "office" => Office!DestinationHonoured
  /\ part = "ruled" => Ruled!DestinationHonoured
  /\ part = "desktop" => Desktop!DestinationHonoured

\* The files of a folder stay together, each in its place below it, unless the
\* user decided otherwise.
FolderTogether == part = "desktop" => Desktop!FolderTogether

\* The rule that decides for a file is the first one, in the order the user
\* was told, that is enabled and matches: rules created, deleted and reordered
\* from a screen that is out of date never decide in another order.
UserOrderDecides == part = "rules" => Ruling!UserOrderDecides

\* A rule that is disabled or deleted boosts no file once the commands are
\* done, although a slower command may write a projection it computed before.
NoDeadBoost == part = "rules" => Ruling!NoDeadBoost

\* A rule that comes from a suggestion was accepted by the user, once, after
\* at least three observations.
LearnedOnce == part = "rules" => Ruling!LearnedOnce

\* A suggestion that was dismissed or accepted is never offered again,
\* whatever is observed afterwards.
AnswerIsDurable == [][part = "rules" => Ruling!AnswerIsDurableStep]_vars

\* What the user separated by rejecting a match or unlinking an occurrence
\* stays separate until the user joins it, whatever is merged with either side
\* later, by the resolver or by the user.
KeptApart == part = "identities" => Identities!KeptApart

\* The file's relations are those of its active occurrences.
RelationsAreCurrent == part = "identities" => Identities!RelationsAreCurrent

\* A proposal that awaits the user is in a listed review group.
ProposalIsListed == part = "identities" => Identities!ProposalIsListed

\* Every occurrence, retired ones included, is held by an identity that was
\* not merged away, so a merged identity never comes back with a document.
OccurrencesAreHome == part = "identities" => Identities!OccurrencesAreHome

\* The resolver neither moves an occurrence out of an identity the user locked
\* nor moves one into it.
LockedIsLeftAlone ==
  [][part = "identities" => Identities!LockedIsLeftAloneStep]_vars

\* A proposal is what the user may accept: builds that overlap leave a
\* complete current revision that honours the user's decisions and an approval
\* of the revision that was shown; and the engine gives no two files one
\* destination, opens no folder for too few files, keeps a chosen destination
\* and keeps a project folder together.
ProposalIsSound ==
  /\ part = "builders" => Store!TypeOK
  /\ part = "monitored" => Monitored!TypeOK
  /\ part = "office" => Office!TypeOK
  /\ part = "ruled" => Ruled!TypeOK
  /\ part = "desktop" => Desktop!TypeOK
  /\ OverrideHonoured /\ ApprovedRevision /\ CurrentIsComplete
  /\ UniqueDestinations /\ NoSmallGroup /\ DestinationHonoured
  /\ FolderTogether

\* The enabled rules decide in the user's order, a rule that is gone boosts
\* nothing, and repeated choices become one rule, whatever commands on the
\* rules overlap.
RulesDecide ==
  /\ part = "rules" => Ruling!TypeOK
  /\ UserOrderDecides /\ NoDeadBoost /\ LearnedOnce

\* Identities that the user keeps apart stay apart through merges, splits and
\* new analyses; relations are of current results, open proposals are listed,
\* and every occurrence is with an identity that still exists.
IdentitiesAreSound ==
  /\ part = "identities" => Identities!TypeOK
  /\ KeptApart /\ RelationsAreCurrent /\ ProposalIsListed
  /\ OccurrencesAreHome

\* What the user decided is not undone by later work: a finished revision
\* never changes, an answer to a suggested rule is not asked for again, and a
\* locked identity is left alone by the resolver.
DecisionsLast == HistoryIsKept /\ AnswerIsDurable /\ LockedIsLeftAlone
==============================================================================

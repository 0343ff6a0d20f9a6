-------------------------------- MODULE Rules --------------------------------
(***************************************************************************)
(* Local rules: the ordered rules of a workspace, what is learned from the  *)
(* user's corrections, the suggestions that may become rules, and the       *)
(* projection of rules onto files that search and proposals use.            *)
(*                                                                          *)
(* Source: crates/persistence/src/rules.rs (each function is one            *)
(* transaction), crates/application/src/rules.rs and proposal.rs (a command *)
(* changes the rules in one transaction, reads them in another and writes   *)
(* the projection in a third), crates/organizer/src/rules.rs.               *)
(*                                                                          *)
(* A rule's conditions are one value that a file has or has not.            *)
(***************************************************************************)
EXTENDS Naturals, SequencesExt

CONSTANTS
  Ids,           \* ids of rules, in the order they are given
  Files, Roots, RootOf, Values, ValueOf,
  Workers,       \* commands that run at the same time
  Decisions,     \* what a correction may decide
  Keeping,       \* the decisions the suggested rule agrees with
  Threshold,     \* RULE_SUGGESTION_THRESHOLD
  MaxRules,      \* 512 in the code
  MaxObservations,
  None

Rule == [pos : Nat, enabled : BOOLEAN, cond : Values, origin : {"user", "suggestion"}]

\* What is assumed of the parameters.
RulesAssumption ==
  /\ Ids \subseteq Nat /\ {Threshold, MaxRules, MaxObservations} \subseteq Nat
  /\ RootOf \in [Files -> Roots] /\ ValueOf \in [Files -> Values] /\ Keeping \subseteq Decisions
  /\ None \notin Rule /\ None \notin {"pending", "accepted", "dismissed"}

VARIABLES
  rules,       \* local_user_rules: position, enabled, condition, origin
  used,        \* ids given so far
  obs,         \* local_learning_observations of one pattern: the decisions, in order
  suggestion,  \* local_rule_suggestions of that pattern: its status
  matches,     \* local_rule_file_matches
  shown,       \* the order of the rules the screen shows
  order,       \* the order the user was told
  work         \* the commands: what they are about to write

vars == <<rules, used, obs, suggestion, matches, shown, order, work>>
learning == <<obs, suggestion>>

Known == {i \in Ids : rules[i] # None}
Idle == [pc |-> "idle", root |-> None, write |-> {}]

Init ==
  /\ rules = [i \in Ids |-> None] /\ used = {} /\ obs = <<>> /\ suggestion = None
  /\ matches = {} /\ shown = <<>> /\ order = <<>> /\ work = [w \in Workers |-> Idle]

-----------------------------------------------------------------------------
(* The rules.                                                              *)

\* The list is ordered by position, then by id.
Before(i, j) == rules[i].pos < rules[j].pos \/ (rules[i].pos = rules[j].pos /\ i < j)
Listed ==
  [k \in 1..Cardinality(Known) |-> CHOOSE i \in Known : Cardinality({j \in Known : Before(j, i)}) = k - 1]

\* LocalRuleEngine.evaluate: the enabled rules whose conditions hold; for each
\* kind of action the first one decides.
MatchedRules(f) == {i \in Known : rules[i].enabled /\ rules[i].cond = ValueOf[f]}
Decides(f) == {i \in MatchedRules(f) : \A j \in MatchedRules(f) : i = j \/ Before(i, j)}

\* insert_rule.
NextPosition == IF Known = {} THEN 0 ELSE 1 + Max({rules[i].pos : i \in Known})
Fresh == {i \in Ids \ used : \A j \in Ids \ used : i <= j}
Inserted(i, cond, origin) ==
  /\ NextPosition < MaxRules /\ used' = used \cup {i}
  /\ rules' = [rules EXCEPT ![i] = [pos |-> NextPosition, enabled |-> TRUE, cond |-> cond, origin |-> origin]]
  /\ order' = Append(order, i)

\* normalize_rule_positions.
At(rule, p) == [rule EXCEPT !.pos = p]
NormalizedPositions(left) == [j \in left |-> Cardinality({k \in left : Before(k, j)})]

\* A command goes on to refresh_rule_matches_if_available.
Refreshes(w) == work[w].pc = "idle" /\ work' = [work EXCEPT ![w].pc = "read"]

CreateRule(w) ==
  /\ Refreshes(w)
  /\ \E i \in Fresh, c \in Values : Inserted(i, c, "user")
  /\ UNCHANGED <<learning, matches, shown>>

UpdateRule(w) ==
  /\ Refreshes(w)
  /\ \E i \in Known, c \in Values, e \in BOOLEAN :
       /\ c # rules[i].cond \/ e # rules[i].enabled
       /\ rules' = [rules EXCEPT ![i].cond = c, ![i].enabled = e]
  /\ UNCHANGED <<used, learning, matches, shown, order>>

\* delete_rule; the rows of the projection go with the rule.
DeleteRule(w) ==
  /\ Refreshes(w)
  /\ \E i \in Known :
       LET left == Known \ {i}
       IN  /\ rules' = [j \in Ids |-> IF j \in left THEN At(rules[j], NormalizedPositions(left)[j])
                                      ELSE None]
           /\ matches' = {m \in matches : m[1] # i}
           /\ order' = RemoveAt(order, CHOOSE k \in DOMAIN order : order[k] = i)
  /\ UNCHANGED <<used, learning, shown>>

\* A mutant: an order that names other rules is accepted.
MayReorderAny(list) == TRUE

\* reorder_rules: the list names every rule once.
MayReorder(list) == ToSet(list) = Known /\ Len(list) = Cardinality(Known)

\* The screen sends the order it shows with two neighbours exchanged.
Exchanged(i) == [k \in 1..Len(shown) |-> shown[CASE k = i -> i + 1 [] k = i + 1 -> i [] OTHER -> k]]
ReorderRules(w) ==
  /\ Refreshes(w)
  /\ \E i \in 1..(Len(shown) - 1) :
       LET list == Exchanged(i)
       IN  /\ MayReorder(list)
           /\ rules' = [j \in Ids |-> IF j \in Known /\ j \in ToSet(list)
                                      THEN At(rules[j], (CHOOSE k \in 1..Len(list) : list[k] = j) - 1)
                                      ELSE rules[j]]
           /\ order' = list
  /\ UNCHANGED <<used, learning, matches, shown>>

\* rules_preferences_state.
ShowRules == shown # Listed /\ shown' = Listed /\ UNCHANGED <<rules, used, learning, matches, order, work>>

-----------------------------------------------------------------------------
(* The projection.                                                         *)

\* What refresh_local_rule_matches, or the build of a proposal for one root,
\* computes.
Computed(roots) == {m \in Known \X Files : RootOf[m[2]] \in roots /\ m[1] \in MatchedRules(m[2])}

\* refresh_local_rule_matches reads every root.
ReadAll(w) ==
  /\ work[w].pc = "read"
  /\ work' = [work EXCEPT ![w] = [pc |-> "write", root |-> None, write |-> Computed(Roots)]]
  /\ UNCHANGED <<rules, used, learning, matches, shown, order>>

\* build_organization_proposal_full reads the root of the proposal.
Build(w) ==
  /\ work[w].pc = "idle"
  /\ \E r \in Roots : work' = [work EXCEPT ![w] = [pc |-> "write", root |-> r, write |-> Computed({r})]]
  /\ UNCHANGED <<rules, used, learning, matches, shown, order>>

\* A mutant: what was computed is written as it is.
StillEnabledUnasked(m) == rules[m[1]] # None

\* INSERT ... WHERE EXISTS an enabled rule.
StillEnabled(m) == rules[m[1]] # None /\ rules[m[1]].enabled

\* replace_rule_file_matches: the projection of the workspace is replaced.
WriteMatches(w) ==
  /\ work[w].pc = "write" /\ matches' = {m \in work[w].write : StillEnabled(m)}
  /\ work' = [work EXCEPT ![w] = Idle]
  /\ UNCHANGED <<rules, used, learning, shown, order>>

-----------------------------------------------------------------------------
(* Learning.                                                               *)

\* A mutant: a suggestion is offered again.
OfferedAgain == suggestion' = "pending"

\* The suggestion is inserted, or its count is updated.
Offered == suggestion' = IF suggestion = None THEN "pending" ELSE suggestion

\* The suggestion needs as many observations.
Enough(n) == n >= Threshold

\* observe_organization_override and record_learning_observation: the pattern
\* of an override is the supplier, whatever was decided.
Observe(w) ==
  /\ Refreshes(w) /\ Len(obs) < MaxObservations
  /\ \E d \in Decisions : obs' = Append(obs, d)
  /\ IF Enough(Len(obs')) THEN Offered ELSE UNCHANGED suggestion
  /\ UNCHANGED <<rules, used, matches, shown, order>>

\* A mutant: whatever became of it, a suggestion can be accepted.
MayAcceptAny == suggestion # None
MayAccept == suggestion = "pending"

AcceptSuggestion(w) ==
  /\ Refreshes(w) /\ MayAccept
  /\ \E i \in Fresh, c \in Values : Inserted(i, c, "suggestion")
  /\ suggestion' = "accepted"
  /\ UNCHANGED <<obs, matches, shown>>

DismissSuggestion ==
  /\ suggestion = "pending" /\ suggestion' = "dismissed"
  /\ UNCHANGED <<rules, used, obs, matches, shown, order, work>>

Next ==
  \/ \E w \in Workers : CreateRule(w) \/ UpdateRule(w) \/ DeleteRule(w) \/ ReorderRules(w)
                        \/ ReadAll(w) \/ Build(w) \/ WriteMatches(w) \/ Observe(w) \/ AcceptSuggestion(w)
  \/ ShowRules \/ DismissSuggestion

Spec == Init /\ [][Next]_vars

-----------------------------------------------------------------------------
(* Properties.                                                             *)

Quiet == \A w \in Workers : work[w] = Idle

\* Every variable has its type, and the positions are 0, 1, 2 and so on: the
\* limit on a position is a limit on the number of rules.
TypeOK ==
  /\ rules \in [Ids -> Rule \cup {None}]
  /\ used \subseteq Ids /\ obs \in Seq(Decisions) /\ suggestion \in {None, "pending", "accepted", "dismissed"}
  /\ matches \subseteq Ids \X Files /\ ToSet(shown) \subseteq Ids
  /\ {rules[i].pos : i \in Known} = 0..(Cardinality(Known) - 1)

\* The rule that decides for a file is the first one, in the order the user
\* was told, that is enabled and matches: rules created, deleted and reordered
\* from a screen that is out of date never decide in another order.
UserOrderDecides ==
  \A f \in Files :
    Decides(f) = {order[k] : k \in {n \in DOMAIN order :
                    /\ order[n] \in MatchedRules(f)
                    /\ \A m \in 1..(n - 1) : order[m] \notin MatchedRules(f)}}

\* A rule that is disabled or deleted boosts no file once the commands are
\* done, although a slower command may write a projection it computed before.
NoDeadBoost == Quiet => \A m \in matches : rules[m[1]] # None /\ rules[m[1]].enabled

\* A rule that comes from a suggestion was accepted by the user, once, after
\* at least three observations.
LearnedOnce ==
  LET learned == {i \in Known : rules[i].origin = "suggestion"}
  IN  /\ Cardinality(learned) <= 1
      /\ learned # {} => suggestion = "accepted" /\ Len(obs) >= Threshold

AnswerIsDurableStep == (suggestion \in {"accepted", "dismissed"}) => suggestion' = suggestion

\* A suggestion that was dismissed or accepted is never offered again,
\* whatever is observed afterwards.
AnswerIsDurable == [][AnswerIsDurableStep]_vars

\* With every command done, the projection holds every enabled rule that
\* matches a file.
\* The code does not keep it: see the README.
ProjectionComplete == Quiet /\ matches # {} => Computed(Roots) \subseteq matches

\* A suggestion rests on three corrections that agree with the rule it offers.
\* The code does not keep it: see the README.
SuggestionSupported ==
  suggestion = "pending" => Len(SelectSeq(obs, LAMBDA d : d \in Keeping)) >= Threshold
=============================================================================

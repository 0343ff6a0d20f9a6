-------------------------- MODULE OrganizingProofs ---------------------------
(***************************************************************************)
(* Proofs about what MCOrganizing checks of the rules (Rules), of the      *)
(* identities (IdentityResolution) and of what the user decided about      *)
(* both and about proposals, for any rules, commands, files and bounds.    *)
(*                                                                         *)
(* For the rules the invariant says that positions and the order the user  *)
(* was told are each other's inverse.  For the identities it says that the *)
(* merges form a forest whose roots hold every occurrence, and that two    *)
(* occurrences the user separated are kept apart by a constraint between   *)
(* their identities or by the lock of one of them.                         *)
(***************************************************************************)
EXTENDS MCOrganizing, TLAPS, FiniteSetTheorems, FunctionTheorems, SequenceTheorems,
        NaturalsInduction, WellFoundedInduction

LEMMA RulingCardinality == ASSUME NEW S PROVE Ruling!Cardinality(S) = Cardinality(S)
  BY DEF Ruling!Cardinality, Cardinality

LEMMA IdentitiesCardinality ==
  ASSUME NEW S
  PROVE  Identities!Cardinality(S) = Cardinality(S) /\ Identities!IsFiniteSet(S) = IsFiniteSet(S)
  BY DEF Identities!Cardinality, Cardinality, Identities!IsFiniteSet, IsFiniteSet

-----------------------------------------------------------------------------
(* The rules: the order that the user was told, and what decides           *)

Job == [pc : {"idle", "read", "write"}, root : Roots \cup {None}, write : SUBSET (RuleIds \X RuleFiles)]

RuleTypes ==
  /\ rules \in [RuleIds -> Ruling!Rule \cup {None}]
  /\ used \subseteq RuleIds /\ Ruling!Known \subseteq used
  /\ obs \in Seq(Decisions) /\ suggestion \in {None, "pending", "accepted", "dismissed"}
  /\ matches \subseteq RuleIds \X RuleFiles /\ shown \in Seq(RuleIds)
  /\ work \in [Workers -> Job]

\* A rule stands at its position in the order the user was told.
Ranked ==
  /\ order \in Seq(Ruling!Known)
  /\ \A k \in 1..Len(order) : rules[order[k]].pos = k - 1
  /\ \A i \in Ruling!Known : rules[i].pos + 1 \in 1..Len(order) /\ order[rules[i].pos + 1] = i

\* A row of the projection whose rule is gone or disabled is replaced by a
\* command that is still at work.
Projected ==
  (\E m \in matches : rules[m[1]] = None \/ ~ rules[m[1]].enabled) => ~ Ruling!Quiet

\* The rule that was learned is the one of the suggestion that was accepted.
Learned ==
  /\ suggestion # None => Len(obs) >= Threshold
  /\ \A i, j \in Ruling!Known : rules[i].origin = "suggestion" /\ rules[j].origin = "suggestion" =>
       i = j
  /\ \A i \in Ruling!Known : rules[i].origin = "suggestion" => suggestion = "accepted"

RulesInv == RuleTypes /\ Ranked /\ Projected /\ Learned

LEMMA NoRule ==
  ASSUME Ruling!RulesAssumption
  PROVE  /\ None \notin Ruling!Rule /\ RuleIds \subseteq Nat /\ Threshold \in Nat /\ MaxRules \in Nat
         /\ suggestion \in {"pending", "accepted", "dismissed"} => suggestion # None
  BY DEF Ruling!RulesAssumption

LEMMA UpTo == ASSUME NEW n \in Nat PROVE IsFiniteSet(1..n) /\ Cardinality(1..n) = n
  <1>1. IsFiniteSet(1..n) /\ Cardinality(1..n) = IF 1 > n THEN 0 ELSE n - 1 + 1
    BY FS_Interval
  <1> QED BY <1>1

LEMMA SeqInto ==
  ASSUME NEW S, NEW T, NEW s \in Seq(S), \A k \in 1..Len(s) : s[k] \in T PROVE s \in Seq(T)
  <1>1. s \in [1..Len(s) -> T] /\ Len(s) \in Nat
    OBVIOUS
  <1> QED BY <1>1, SeqDef

LEMMA Counted ==
  ASSUME NEW n \in Nat, NEW S, NEW g, DOMAIN g = 1..n,
         \A k \in 1..n : g[k] \in S,
         \A x \in S : \E k \in 1..n : g[k] = x,
         \A k, m \in 1..n : g[k] = g[m] => k = m
  PROVE  IsFiniteSet(S) /\ Cardinality(S) = n
  <1> DEFINE h == [k \in 1..n |-> g[k]]
  <1>1. h \in Bijection(1..n, S)
    <2>1. h \in [1..n -> S] /\ \A k \in 1..n : h[k] = g[k]
      OBVIOUS
    <2> HIDE DEF h
    <2>2. h \in Injection(1..n, S)
      BY <2>1, Fun_IsInj
    <2>3. h \in Surjection(1..n, S)
      BY <2>1, Fun_IsSurj
    <2> QED BY <2>2, <2>3 DEF Bijection
  <1>2. ExistsBijection(1..n, S)
    BY <1>1 DEF ExistsBijection
  <1>3. IsFiniteSet(1..n) /\ Cardinality(1..n) = n
    BY UpTo
  <1> QED BY <1>2, <1>3, FS_Bijection

\* As many rules come before a rule as its position says.
LEMMA Positions ==
  ASSUME Ruling!RulesAssumption, RuleTypes, Ranked
  PROVE  /\ IsFiniteSet(Ruling!Known) /\ Cardinality(Ruling!Known) = Len(order)
              /\ Len(order) \in Nat
         /\ \A i \in Ruling!Known : rules[i].pos \in Nat /\ rules[i].pos < Len(order)
         /\ \A i, j \in Ruling!Known : Ruling!Before(i, j) <=> rules[i].pos < rules[j].pos
         /\ \A i, j \in Ruling!Known : rules[i].pos = rules[j].pos => i = j
  <1>1. Len(order) \in Nat /\ \A k \in 1..Len(order) : order[k] \in Ruling!Known
    BY DEF Ranked
  <1>2. \A i \in Ruling!Known : rules[i].pos \in Nat /\ rules[i].pos < Len(order)
    BY <1>1 DEF Ranked, RuleTypes, Ruling!Known, Ruling!Rule
  <1>3. \A i, j \in Ruling!Known : rules[i].pos = rules[j].pos => i = j
    BY DEF Ranked
  <1>4. IsFiniteSet(Ruling!Known) /\ Cardinality(Ruling!Known) = Len(order)
    <2>1. \A k, m \in 1..Len(order) : order[k] = order[m] => k = m
      BY <1>1 DEF Ranked
    <2>2. \A i \in Ruling!Known : \E k \in 1..Len(order) : order[k] = i
      BY DEF Ranked
    <2>3. DOMAIN order = 1..Len(order)
      BY DEF Ranked
    <2> QED BY <1>1, <2>1, <2>2, <2>3, Counted
  <1>5. \A i, j \in Ruling!Known : Ruling!Before(i, j) <=> rules[i].pos < rules[j].pos
    <2>1. \A i \in Ruling!Known : i \in Nat
      BY DEF Ruling!Known, Ruling!RulesAssumption
    <2> QED BY <1>2, <1>3, <2>1 DEF Ruling!Before
  <1> QED BY <1>1, <1>2, <1>3, <1>4, <1>5

\* ... and one less among those that are left.
LEMMA CountBefore ==
  ASSUME Ruling!RulesAssumption, RuleTypes, Ranked, NEW i \in Ruling!Known
  PROVE  Cardinality({j \in Ruling!Known : Ruling!Before(j, i)}) = rules[i].pos
  <1> DEFINE n == rules[i].pos
             S == {j \in Ruling!Known : Ruling!Before(j, i)}
             g == [k \in 1..n |-> order[k]]
  <1>1. n \in Nat /\ n < Len(order) /\ Len(order) \in Nat
    BY Positions
  <1>2. ASSUME NEW k \in 1..n PROVE k \in 1..Len(order) /\ order[k] \in S
    <2>1. k \in 1..Len(order) /\ k - 1 < n
      BY <1>1
    <2>2. order[k] \in Ruling!Known /\ rules[order[k]].pos < n
      BY <2>1 DEF Ranked
    <2> QED BY <2>1, <2>2, Positions
  <1>3. \A j \in S : rules[j].pos + 1 \in 1..n /\ order[rules[j].pos + 1] = j
    BY <1>1, Positions DEF Ranked
  <1>4. \A k, m \in 1..n : order[k] = order[m] => k = m
    <2>1. \A k \in 1..n : rules[order[k]].pos = k - 1
      BY <1>2 DEF Ranked
    <2> QED BY SMTT(20), <2>1, <1>1
  <1>5. \A j \in S : \E k \in 1..n : g[k] = j
    BY <1>3
  <1> HIDE DEF n, S
  <1>6. DOMAIN g = 1..n /\ \A k \in 1..n : g[k] = order[k]
    OBVIOUS
  <1> HIDE DEF g
  <1>7. Cardinality(S) = n
    <2>1. \A k \in 1..n : g[k] \in S
      BY <1>2, <1>6
    <2>2. \A k, m \in 1..n : g[k] = g[m] => k = m
      BY <1>4, <1>6
    <2> QED BY <1>1, <1>5, <1>6, <2>1, <2>2, Counted
  <1> QED BY <1>7 DEF S, n

LEMMA NextIsLast ==
  ASSUME Ruling!RulesAssumption, RuleTypes, Ranked PROVE Ruling!NextPosition = Len(order)
  <1> DEFINE n == Len(order)
             P == {rules[i].pos : i \in Ruling!Known}
  <1>1. /\ n \in Nat /\ \A i \in Ruling!Known : rules[i].pos \in Nat /\ rules[i].pos < n
        /\ IsFiniteSet(Ruling!Known) /\ Cardinality(Ruling!Known) = n
    BY Positions
  <1>2. CASE Ruling!Known = {}
    <2>1. Cardinality(Ruling!Known) = 0
      BY <1>2, FS_EmptySet
    <2> QED BY <1>1, <1>2, <2>1 DEF Ruling!NextPosition
  <1>3. CASE Ruling!Known # {}
    <2>1. n > 0
      BY <1>1, <1>3
    <2>2. order[n] \in Ruling!Known /\ rules[order[n]].pos = n - 1
      BY <1>1, <2>1 DEF Ranked
    <2>3. n - 1 \in P /\ \A p \in P : p \in Nat /\ p <= n - 1
      BY <1>1, <2>2
    <2> HIDE DEF P, n
    <2>4. Ruling!Max(P) = n - 1
      BY <1>1, <2>3 DEF Ruling!Max
    <2> QED BY <1>1, <1>3, <2>4 DEF P, n, Ruling!NextPosition
  <1> QED BY <1>2, <1>3

\* A rule is added behind the others.
LEMMA InsertedHolds ==
  ASSUME Ruling!RulesAssumption, RuleTypes, Ranked, NEW i \in Ruling!Fresh, NEW c \in Values,
         NEW origin \in {"user", "suggestion"}, Ruling!Inserted(i, c, origin)
  PROVE  /\ rules' \in [RuleIds -> Ruling!Rule \cup {None}] /\ used' \subseteq RuleIds
         /\ i \in RuleIds /\ i \notin Ruling!Known /\ Ruling!Known' = Ruling!Known \cup {i}
              /\ Ruling!Known' \subseteq used'
         /\ \A j \in Ruling!Known : rules'[j] = rules[j]
         /\ rules'[i].enabled /\ rules'[i].origin = origin
         /\ Ranked'
  <1> DEFINE n == Len(order)
             added == [pos |-> n, enabled |-> TRUE, cond |-> c, origin |-> origin]
  <1>1. i \in RuleIds /\ i \notin used /\ i \notin Ruling!Known /\ rules[i] = None
    BY DEF Ruling!Fresh, RuleTypes, Ruling!Known
  <1>2. Ruling!NextPosition = n /\ n \in Nat
    BY NextIsLast, Positions
  <1>3. rules' = [rules EXCEPT ![i] = added] /\ used' = used \cup {i} /\ order' = Append(order, i)
    BY <1>2 DEF Ruling!Inserted
  <1>4. added \in Ruling!Rule /\ added.pos = n /\ added # None
    <2> HIDE DEF n
    <2>1. added \in Ruling!Rule /\ added.pos = n
      BY <1>2 DEF Ruling!Rule
    <2> QED BY <2>1, NoRule
  <1>5. rules' \in [RuleIds -> Ruling!Rule \cup {None}] /\ rules'[i] = added
          /\ \A j \in RuleIds \ {i} : rules'[j] = rules[j]
    BY <1>1, <1>3, <1>4 DEF RuleTypes
  <1>6. Ruling!Known' = Ruling!Known \cup {i}
    BY <1>1, <1>4, <1>5 DEF Ruling!Known
  <1>7. order' \in Seq(Ruling!Known') /\ Len(order') = n + 1 /\ order'[n + 1] = i
          /\ \A k \in 1..n : order'[k] = order[k] /\ order[k] \in Ruling!Known
    <2>1. order \in Seq(Ruling!Known') /\ i \in Ruling!Known'
      BY <1>6 DEF Ranked
    <2> QED BY <1>2, <1>3, <2>1, AppendProperties DEF Ranked
  <1>8. \A j \in Ruling!Known : rules'[j] = rules[j]
    BY <1>1, <1>5 DEF Ruling!Known
  <1>9. Ranked'
    <2>1. ASSUME NEW k \in 1..(n + 1) PROVE rules'[order'[k]].pos = k - 1
      BY <1>2, <1>4, <1>5, <1>7, <1>8 DEF Ranked
    <2>2. ASSUME NEW j \in Ruling!Known'
          PROVE  rules'[j].pos + 1 \in 1..(n + 1) /\ order'[rules'[j].pos + 1] = j
      <3>1. CASE j = i
        BY <1>2, <1>4, <1>5, <1>7, <3>1
      <3>2. CASE j \in Ruling!Known
        BY <1>2, <1>7, <1>8, <3>2 DEF Ranked
      <3> QED BY <1>6, <3>1, <3>2
    <2> QED BY <1>7, <2>1, <2>2 DEF Ranked
  <1>10. used' \subseteq RuleIds /\ Ruling!Known' \subseteq used'
    BY <1>1, <1>3, <1>6 DEF RuleTypes
  <1> HIDE DEF added
  <1>11. rules'[i].enabled /\ rules'[i].origin = origin
    BY <1>5 DEF added
  <1> QED BY <1>1, <1>5, <1>6, <1>8, <1>9, <1>10, <1>11

LEMMA AtHolds ==
  ASSUME NEW rule \in Ruling!Rule, NEW p \in Nat
  PROVE  /\ Ruling!At(rule, p) \in Ruling!Rule /\ Ruling!At(rule, p).pos = p
              /\ Ruling!At(rule, p).enabled = rule.enabled
         /\ Ruling!At(rule, p).cond = rule.cond /\ Ruling!At(rule, p).origin = rule.origin
  BY DEF Ruling!At, Ruling!Rule

\* A rule is taken out, and the others move up.
LEMMA DeletedHolds ==
  ASSUME Ruling!RulesAssumption, RuleTypes, Ranked, NEW i \in Ruling!Known,
         NEW left, left = Ruling!Known \ {i},
         rules' = [j \in RuleIds |-> IF j \in left
                   THEN Ruling!At(rules[j], Ruling!NormalizedPositions(left)[j])
                                 ELSE None],
         order' = Ruling!RemoveAt(order, CHOOSE k \in DOMAIN order : order[k] = i)
  PROVE  /\ rules' \in [RuleIds -> Ruling!Rule \cup {None}] /\ Ruling!Known' = left
         /\ \A j \in left : rules'[j].enabled = rules[j].enabled
                            /\ rules'[j].origin = rules[j].origin
         /\ Ranked'
  <1> DEFINE p == rules[i].pos
             n == Len(order)
             down(j) == IF rules[j].pos < p THEN rules[j].pos ELSE rules[j].pos - 1
  <1>1. /\ p \in Nat /\ n \in Nat /\ p < n /\ order \in Seq(Ruling!Known) /\ DOMAIN order = 1..n
        /\ \A k \in 1..n : order[k] \in Ruling!Known /\ rules[order[k]].pos = k - 1
        /\ order[p + 1] = i /\ i \in RuleIds
    BY Positions DEF Ranked, Ruling!Known
  <1>2. (CHOOSE k \in DOMAIN order : order[k] = i) = p + 1
    <2>1. p + 1 \in DOMAIN order /\ order[p + 1] = i
      BY <1>1
    <2>2. \A k \in DOMAIN order : order[k] = i => k = p + 1
      BY <1>1
    <2> QED BY <2>1, <2>2
  <1> HIDE DEF p, n
  <1>3. /\ order' \in Seq(left) /\ Len(order') = n - 1
        /\ \A k \in 1..(n - 1) : order'[k] = IF k <= p THEN order[k] ELSE order[k + 1]
    <2> DEFINE a == SubSeq(order, 1, p)
               w == SubSeq(order, p + 2, n)
    <2>1. order' = a \o w
      <3>1. order' = SubSeq(order, 1, (p + 1) - 1) \o SubSeq(order, (p + 1) + 1, n)
        BY <1>2 DEF Ruling!RemoveAt, n
      <3>2. (p + 1) - 1 = p /\ (p + 1) + 1 = p + 2
        BY <1>1
      <3> QED BY <3>1, <3>2
    <2>2. \A k \in 1..n : k # p + 1 => order[k] \in left
      BY SMTT(20), <1>1
    <2>3. /\ a \in Seq(left) /\ Len(a) = p /\ \A k \in 1..p : a[k] = order[k]
      <3>1. \A k \in 1..p : order[k] \in left
        BY <1>1, <2>2
      <3>2. /\ SubSeq(order, 1, p) \in Seq(left)
            /\ Len(SubSeq(order, 1, p)) = IF 1 <= p THEN p - 1 + 1 ELSE 0
            /\ \A k \in 1..(p - 1 + 1) : SubSeq(order, 1, p)[k] = order[1 + k - 1]
        BY SMTT(20), <1>1, <3>1, SubSeqProperties
      <3> QED BY <1>1, <3>2
    <2>4. /\ w \in Seq(left) /\ Len(w) = n - 1 - p
          /\ \A k \in 1..(n - 1 - p) : w[k] = order[k + p + 1]
      <3>1. \A k \in (p + 2)..n : order[k] \in left
        BY <1>1, <2>2
      <3>2. /\ SubSeq(order, p + 2, n) \in Seq(left)
            /\ Len(SubSeq(order, p + 2, n)) = IF p + 2 <= n THEN n - (p + 2) + 1 ELSE 0
            /\ \A k \in 1..(n - (p + 2) + 1) : SubSeq(order, p + 2, n)[k] = order[p + 2 + k - 1]
        <4>1. p + 2 \in Int /\ n \in Int /\ order \in Seq(Ruling!Known)
          BY <1>1
        <4>2. \A k \in (p + 2)..n : k \in 1..Len(order)
          BY <1>1 DEF n
        <4> QED BY <3>1, <4>1, <4>2, SubSeqProperties
      <3> QED BY <1>1, <3>2
    <2> HIDE DEF a, w
    <2>5. a \o w \in Seq(left) /\ Len(a \o w) = p + (n - 1 - p)
      BY <2>3, <2>4, ConcatProperties
    <2>6. \A k \in 1..(p + (n - 1 - p)) : (a \o w)[k] = IF k <= p THEN a[k] ELSE w[k - p]
      BY SMTT(20), <2>3, <2>4, ConcatProperties
    <2>7. p + (n - 1 - p) = n - 1
      BY <1>1
    <2>8. ASSUME NEW k \in 1..(n - 1) PROVE (a \o w)[k] = IF k <= p THEN order[k] ELSE order[k + 1]
      <3>1. (a \o w)[k] = IF k <= p THEN a[k] ELSE w[k - p]
        BY <2>6, <2>7
      <3>2. k <= p => k \in 1..p
        BY <1>1
      <3>3. ~ k <= p => k - p \in 1..(n - 1 - p) /\ k - p + p + 1 = k + 1
        BY <1>1
      <3> QED BY <2>3, <2>4, <3>1, <3>2, <3>3
    <2> QED BY <2>1, <2>5, <2>7, <2>8
  <1>4. \A j \in left : /\ rules[j].pos \in Nat /\ rules[j].pos < n /\ rules[j].pos # p
                        /\ order[rules[j].pos + 1] = j
    BY Positions DEF Ranked, p, n
  <1>5. ASSUME NEW j \in left PROVE Ruling!NormalizedPositions(left)[j] = down(j)
    <2> DEFINE S == {k \in Ruling!Known : Ruling!Before(k, j)}
               T == {k \in left : Ruling!Before(k, j)}
    <2>1. j \in Ruling!Known /\ Cardinality(S) = rules[j].pos /\ IsFiniteSet(S)
      BY CountBefore, Positions, FS_Subset
    <2>2. T = S \ {i}
      OBVIOUS
    <2>3. i \in S <=> p < rules[j].pos
      BY <2>1, Positions DEF p
    <2> HIDE DEF S, T
    <2>4. Cardinality(T) = IF i \in S THEN Cardinality(S) - 1 ELSE Cardinality(S)
      BY <2>1, <2>2, FS_RemoveElement
    <2>5. Cardinality(T) = down(j)
      BY <1>1, <1>4, <2>1, <2>3, <2>4
    <2>6. Ruling!Cardinality(T) = Cardinality(T)
      BY RulingCardinality
    <2> QED BY <2>5, <2>6 DEF Ruling!NormalizedPositions, T
  <1>6. \A j \in left : /\ j \in RuleIds /\ down(j) \in Nat
                        /\ rules'[j] = Ruling!At(rules[j], down(j)) /\ rules'[j] \in Ruling!Rule
                        /\ rules'[j].pos = down(j) /\ rules'[j].enabled = rules[j].enabled
                        /\ rules'[j].origin = rules[j].origin
    <2>1. \A j \in left : j \in RuleIds /\ rules[j] \in Ruling!Rule
      BY DEF Ruling!Known, RuleTypes
    <2>2. \A j \in left : down(j) \in Nat
      BY <1>1, <1>4
    <2>3. \A j \in left : rules'[j] = Ruling!At(rules[j], down(j))
      BY <1>5, <2>1
    <2> HIDE DEF down
    <2>4. \A j \in left : /\ Ruling!At(rules[j], down(j)) \in Ruling!Rule
            /\ Ruling!At(rules[j], down(j)).pos = down(j)
                          /\ Ruling!At(rules[j], down(j)).enabled = rules[j].enabled
                          /\ Ruling!At(rules[j], down(j)).origin = rules[j].origin
      BY <2>1, <2>2, AtHolds
    <2> QED BY <2>1, <2>2, <2>3, <2>4
  <1>7. /\ rules' \in [RuleIds -> Ruling!Rule \cup {None}] /\ Ruling!Known' = left
    <2>1. \A j \in RuleIds : rules'[j] \in Ruling!Rule \cup {None} /\ (rules'[j] # None <=> j \in left)
      BY <1>6, NoRule
    <2> QED BY <1>6, <2>1 DEF Ruling!Known
  <1> HIDE DEF down
  <1>8. Ranked'
    <2>1. ASSUME NEW k \in 1..(n - 1) PROVE rules'[order'[k]].pos = k - 1
      <3>1. CASE k <= p
        <4>1. order'[k] = order[k] /\ rules[order[k]].pos = k - 1 /\ order[k] \in left
          BY SMTT(20), <1>1, <1>3, <3>1
        <4>2. rules'[order[k]].pos = down(order[k])
          BY <1>6, <4>1
        <4>3. down(order[k]) = k - 1
          BY <1>1, <3>1, <4>1 DEF down
        <4> QED BY <4>1, <4>2, <4>3
      <3>2. CASE k > p
        <4>1. order'[k] = order[k + 1] /\ rules[order[k + 1]].pos = k /\ order[k + 1] \in left
          <5>1. k + 1 \in 1..n /\ k + 1 # p + 1 /\ (k + 1) - 1 = k /\ ~ k <= p
            BY <1>1, <3>2
          <5>2. order[k + 1] \in Ruling!Known /\ rules[order[k + 1]].pos = k
            BY <1>1, <5>1
          <5>3. order[k + 1] # i
            BY <1>1, <3>2, <5>2 DEF p
          <5> QED BY <1>3, <5>1, <5>2, <5>3
        <4>2. rules'[order[k + 1]].pos = down(order[k + 1])
          BY <1>6, <4>1
        <4>3. down(order[k + 1]) = k - 1
          BY <1>1, <3>2, <4>1 DEF down
        <4> QED BY <4>1, <4>2, <4>3
      <3> QED BY <1>1, <3>1, <3>2
    <2>2. ASSUME NEW j \in left
          PROVE  rules'[j].pos + 1 \in 1..(n - 1) /\ order'[rules'[j].pos + 1] = j
      <3>1. rules'[j].pos = down(j)
        BY <1>6
      <3>2. /\ rules[j].pos \in Nat /\ rules[j].pos < n /\ rules[j].pos # p
                 /\ order[rules[j].pos + 1] = j
        BY <1>4
      <3>3. CASE rules[j].pos < p
        <4>1. /\ down(j) = rules[j].pos /\ rules[j].pos + 1 \in 1..(n - 1) /\ rules[j].pos + 1 <= p
          BY <1>1, <3>2, <3>3 DEF down
        <4>2. order'[rules[j].pos + 1] = order[rules[j].pos + 1]
          BY <1>3, <4>1
        <4> QED BY <3>1, <3>2, <4>1, <4>2
      <3>4. CASE rules[j].pos > p
        <4>1. down(j) + 1 = rules[j].pos /\ rules[j].pos \in 1..(n - 1) /\ ~ rules[j].pos <= p
          BY <1>1, <3>2, <3>4 DEF down
        <4>2. order'[rules[j].pos] = order[rules[j].pos + 1]
          BY <1>3, <4>1
        <4>3. rules'[j].pos + 1 = rules[j].pos
          BY <3>1, <4>1
        <4> QED BY <3>2, <4>1, <4>2, <4>3
      <3> QED BY <1>1, <3>2, <3>3, <3>4
    <2> QED BY <1>3, <1>7, <2>1, <2>2 DEF Ranked
  <1> QED BY <1>6, <1>7, <1>8

\* The list that is accepted names every rule once.
LEMMA ReorderedHolds ==
  ASSUME Ruling!RulesAssumption, RuleTypes, Ranked, NEW list \in Seq(RuleIds), Ruling!MayReorder(list),
         rules' = [j \in RuleIds |-> IF j \in Ruling!Known /\ j \in Ruling!ToSet(list)
                                 THEN Ruling!At(rules[j],
                                                (CHOOSE k \in 1..Len(list) : list[k] = j) - 1)
                                 ELSE rules[j]],
         order' = list
  PROVE  /\ rules' \in [RuleIds -> Ruling!Rule \cup {None}] /\ Ruling!Known' = Ruling!Known
         /\ \A j \in Ruling!Known : rules'[j].enabled = rules[j].enabled
                             /\ rules'[j].origin = rules[j].origin
         /\ Ranked'
  <1> DEFINE n == Len(list)
             at(j) == CHOOSE k \in 1..n : list[k] = j
  <1>1. n \in Nat /\ Ruling!Known = {list[k] : k \in 1..n} /\ IsFiniteSet(Ruling!Known)
          /\ Cardinality(Ruling!Known) = n
        /\ DOMAIN list = 1..n
    BY Positions, RulingCardinality DEF Ruling!MayReorder, Ruling!ToSet
  <1>2. \A k, m \in 1..n : list[k] = list[m] => k = m
    <2> DEFINE h == [k \in 1..n |-> list[k]]
    <2>1. h \in Surjection(1..n, Ruling!Known)
      <3>1. h \in [1..n -> Ruling!Known] /\ \A x \in Ruling!Known : \E k \in 1..n : h[k] = x
        BY ZenonT(40), <1>1
      <3> HIDE DEF h
      <3> QED BY SMTT(20), <3>1, Fun_IsSurj
    <2>2. IsFiniteSet(1..n) /\ Cardinality(1..n) = n
      BY ZenonT(40), <1>1, UpTo
    <2>3. h \in Injection(1..n, Ruling!Known)
      <3> HIDE DEF h
      <3> QED BY ZenonT(40), <1>1, <2>1, <2>2, FS_SurjSameCardinalityImpliesInj
    <2>4. \A k, m \in 1..n : h[k] = h[m] => k = m
      <3> HIDE DEF h
      <3> QED BY SMTT(20), <2>3 DEF Injection, IsInjective
    <2> QED BY <2>4
  <1>3. \A j \in Ruling!Known : at(j) \in 1..n /\ list[at(j)] = j
    BY ZenonT(40), <1>1
  <1>4. \A k \in 1..n : list[k] \in Ruling!Known /\ at(list[k]) = k
    BY <1>1, <1>2, <1>3
  <1>5. \A j \in Ruling!Known : j \in RuleIds /\ rules'[j] = Ruling!At(rules[j], at(j) - 1)
    BY <1>1 DEF Ruling!Known, Ruling!ToSet
  <1> HIDE DEF at
  <1>6. \A j \in Ruling!Known : /\ rules'[j] \in Ruling!Rule /\ rules'[j].pos = at(j) - 1
                                /\ rules'[j].enabled = rules[j].enabled
                                     /\ rules'[j].origin = rules[j].origin
    <2>1. \A j \in Ruling!Known : rules[j] \in Ruling!Rule /\ at(j) - 1 \in Nat
      BY <1>1, <1>3 DEF Ruling!Known, RuleTypes
    <2>2. \A j \in Ruling!Known : /\ Ruling!At(rules[j], at(j) - 1) \in Ruling!Rule
            /\ Ruling!At(rules[j], at(j) - 1).pos = at(j) - 1
                           /\ Ruling!At(rules[j], at(j) - 1).enabled = rules[j].enabled
                           /\ Ruling!At(rules[j], at(j) - 1).origin = rules[j].origin
      BY <2>1, AtHolds
    <2> QED BY <1>5, <2>2
  <1>7. rules' \in [RuleIds -> Ruling!Rule \cup {None}] /\ Ruling!Known' = Ruling!Known
    <2>1. \A j \in RuleIds \ Ruling!Known : rules'[j] = rules[j] /\ rules[j] = None
      BY DEF Ruling!Known
    <2>2. \A j \in RuleIds : rules'[j] \in Ruling!Rule \cup {None}
            /\ (rules'[j] # None <=> j \in Ruling!Known)
      BY <1>6, <2>1, NoRule
    <2> QED BY <2>2 DEF Ruling!Known
  <1>8. Ranked'
    <2>1. ASSUME NEW k \in 1..n PROVE rules'[list[k]].pos = k - 1
      BY <1>4, <1>6
    <2>2. ASSUME NEW j \in Ruling!Known PROVE rules'[j].pos + 1 \in 1..n
                   /\ list[rules'[j].pos + 1] = j
      <3>1. rules'[j].pos + 1 = at(j)
        <4>1. at(j) \in 1..n
          BY <1>3
        <4>2. rules'[j].pos = at(j) - 1
          BY <1>6
        <4> HIDE DEF n
        <4> QED BY <1>1, <4>1, <4>2
      <3> QED BY <1>3, <3>1
    <2>3. list \in Seq(Ruling!Known)
      <3>1. \A k \in 1..Len(list) : list[k] \in Ruling!Known
        BY <1>4
      <3> QED BY <3>1, SeqInto
    <2> QED BY <1>7, <2>1, <2>2, <2>3 DEF Ranked
  <1> QED BY <1>6, <1>7, <1>8

\* The screen lists the rules in the order the user was told.
LEMMA ListedIsOrder ==
  ASSUME Ruling!RulesAssumption, RuleTypes, Ranked PROVE Ruling!Listed \in Seq(RuleIds)
  <1> DEFINE Ahead(i) == {j \in Ruling!Known : Ruling!Before(j, i)}
             first(k) == CHOOSE i \in Ruling!Known : Ruling!Cardinality(Ahead(i)) = k - 1
             n == Ruling!Cardinality(Ruling!Known)
  <1>1. n = Len(order) /\ n \in Nat
    BY Positions, RulingCardinality
  <1>2. ASSUME NEW k \in 1..n PROVE first(k) \in RuleIds
    <2>1. order[k] \in Ruling!Known /\ rules[order[k]].pos = k - 1
      BY <1>1 DEF Ranked
    <2>2. Ruling!Cardinality(Ahead(order[k])) = k - 1
      <3>1. Cardinality(Ahead(order[k])) = k - 1
        BY <2>1, CountBefore
      <3> HIDE DEF Ahead
      <3> QED BY <3>1, RulingCardinality
    <2>3. first(k) \in Ruling!Known
      BY <2>1, <2>2
    <2> QED BY <2>3 DEF Ruling!Known
  <1>3. Ruling!Listed = [k \in 1..n |-> first(k)]
    BY DEF Ruling!Listed
  <1> HIDE DEF first, n
  <1>4. [k \in 1..n |-> first(k)] \in [1..n -> RuleIds]
    BY <1>2
  <1> QED BY <1>1, <1>3, <1>4, SeqDef

\* A command that is still at work replaces what is written before it.
LEMMA StillAtWork ==
  ASSUME RuleTypes, NEW w \in Workers, Ruling!Refreshes(w)
  PROVE  work' \in [Workers -> Job] /\ ~ Ruling!Quiet'
  <1>1. work[w] \in Job /\ work' = [work EXCEPT ![w].pc = "read"]
    BY DEF RuleTypes, Ruling!Refreshes
  <1>2. work'[w].pc = "read" /\ work' \in [Workers -> Job]
    BY <1>1 DEF RuleTypes, Job
  <1>3. Ruling!Idle.pc # "read"
    BY DEF Ruling!Idle
  <1> QED BY <1>2, <1>3 DEF Ruling!Quiet

LEMMA RulesInit ==
  ASSUME Ruling!RulesAssumption, Ruling!Init PROVE RulesInv
  <1> USE DEF Ruling!Init
  <1>1. Ruling!Known = {}
    BY DEF Ruling!Known
  <1>2. Ruling!Idle \in Job
    BY DEF Ruling!Idle, Job
  <1>3. RuleTypes
    BY <1>1, <1>2, EmptySeq DEF RuleTypes
  <1>4. Ranked
    <2>1. order \in Seq(Ruling!Known) /\ Len(order) = 0
      BY EmptySeq
    <2> QED BY <1>1, <2>1 DEF Ranked
  <1>5. Projected /\ Learned
    BY <1>1 DEF Projected, Learned
  <1> QED BY <1>3, <1>4, <1>5 DEF RulesInv

LEMMA RulesStep ==
  ASSUME Ruling!RulesAssumption, RulesInv, [Ruling!Next]_(Ruling!vars)
  PROVE  RulesInv' /\ Ruling!AnswerIsDurableStep
  <1>1. RuleTypes /\ Ranked /\ Projected /\ Learned
    BY DEF RulesInv
  <1>2. ASSUME NEW w \in Workers, Ruling!CreateRule(w) PROVE RulesInv' /\ Ruling!AnswerIsDurableStep
    <2>1. /\ Ruling!Refreshes(w) /\ obs' = obs /\ suggestion' = suggestion
          /\ matches' = matches /\ shown' = shown
      BY <1>2 DEF Ruling!CreateRule, Ruling!learning
    <2>2. PICK i \in Ruling!Fresh, c \in Values : Ruling!Inserted(i, c, "user")
      BY <1>2 DEF Ruling!CreateRule
    <2>3. /\ rules' \in [RuleIds -> Ruling!Rule \cup {None}] /\ used' \subseteq RuleIds
          /\ i \notin Ruling!Known /\ Ruling!Known' = Ruling!Known \cup {i}
               /\ Ruling!Known' \subseteq used'
          /\ \A j \in Ruling!Known : rules'[j] = rules[j]
          /\ rules'[i].origin = "user" /\ Ranked'
      BY <1>1, <2>2, InsertedHolds
    <2>4. work' \in [Workers -> Job] /\ ~ Ruling!Quiet'
      BY <1>1, <2>1, StillAtWork
    <2>5. RuleTypes'
      BY <1>1, <2>1, <2>3, <2>4 DEF RuleTypes
    <2>6. Projected'
      BY <2>4 DEF Projected
    <2>7. Learned'
      BY <1>1, <2>1, <2>3 DEF Learned
    <2> QED BY <2>1, <2>3, <2>5, <2>6, <2>7 DEF RulesInv, Ruling!AnswerIsDurableStep
  <1>3. ASSUME NEW w \in Workers, Ruling!UpdateRule(w) PROVE RulesInv' /\ Ruling!AnswerIsDurableStep
    <2>1. /\ Ruling!Refreshes(w) /\ obs' = obs /\ suggestion' = suggestion /\ used' = used
          /\ matches' = matches /\ shown' = shown /\ order' = order
      BY <1>3 DEF Ruling!UpdateRule, Ruling!learning
    <2>2. PICK i \in Ruling!Known, c \in Values, e \in BOOLEAN :
            rules' = [rules EXCEPT ![i].cond = c, ![i].enabled = e]
      BY <1>3 DEF Ruling!UpdateRule
    <2>3. i \in RuleIds /\ rules[i] \in Ruling!Rule /\ rules \in [RuleIds -> Ruling!Rule \cup {None}]
      BY <1>1 DEF Ruling!Known, RuleTypes
    <2>4. /\ rules'[i] \in Ruling!Rule /\ rules'[i].pos = rules[i].pos
               /\ rules'[i].origin = rules[i].origin
          /\ \A j \in RuleIds \ {i} : rules'[j] = rules[j]
          /\ rules' \in [RuleIds -> Ruling!Rule \cup {None}]
      BY <2>2, <2>3 DEF Ruling!Rule
    <2>5. /\ Ruling!Known' = Ruling!Known
          /\ \A j \in Ruling!Known : rules'[j].pos = rules[j].pos
               /\ rules'[j].origin = rules[j].origin
      BY <2>3, <2>4, NoRule DEF Ruling!Known
    <2>6. work' \in [Workers -> Job] /\ ~ Ruling!Quiet'
      BY <1>1, <2>1, StillAtWork
    <2>7. RuleTypes'
      BY <1>1, <2>1, <2>4, <2>5, <2>6 DEF RuleTypes
    <2>8. Ranked'
      <3>1. Ranked /\ \A k \in 1..Len(order) : order[k] \in Ruling!Known
        BY <1>1 DEF Ranked
      <3> QED BY <2>1, <2>5, <3>1 DEF Ranked
    <2>9. Projected' /\ Learned'
      BY <1>1, <2>1, <2>5, <2>6 DEF Projected, Learned
    <2> QED BY <2>1, <2>7, <2>8, <2>9 DEF RulesInv, Ruling!AnswerIsDurableStep
  <1>4. ASSUME NEW w \in Workers, Ruling!DeleteRule(w) PROVE RulesInv' /\ Ruling!AnswerIsDurableStep
    <2>1. /\ Ruling!Refreshes(w) /\ obs' = obs /\ suggestion' = suggestion /\ used' = used
          /\ shown' = shown
      BY <1>4 DEF Ruling!DeleteRule, Ruling!learning
    <2>2. PICK i \in Ruling!Known :
            /\ rules' = [j \in RuleIds |-> IF j \in Ruling!Known \ {i}
                          THEN Ruling!At(rules[j],
                                         Ruling!NormalizedPositions(Ruling!Known \ {i})[j])
                                           ELSE None]
            /\ matches' = {m \in matches : m[1] # i}
            /\ order' = Ruling!RemoveAt(order, CHOOSE k \in DOMAIN order : order[k] = i)
      BY <1>4 DEF Ruling!DeleteRule
    <2>3. /\ rules' \in [RuleIds -> Ruling!Rule \cup {None}] /\ Ruling!Known' = Ruling!Known \ {i}
               /\ Ranked'
          /\ \A j \in Ruling!Known \ {i} : rules'[j].origin = rules[j].origin
      BY <1>1, <2>2, DeletedHolds
    <2>4. work' \in [Workers -> Job] /\ ~ Ruling!Quiet'
      BY <1>1, <2>1, StillAtWork
    <2>5. RuleTypes'
      BY <1>1, <2>1, <2>2, <2>3, <2>4 DEF RuleTypes
    <2>6. Projected' /\ Learned'
      BY <1>1, <2>1, <2>3, <2>4 DEF Projected, Learned
    <2> QED BY <2>1, <2>3, <2>5, <2>6 DEF RulesInv, Ruling!AnswerIsDurableStep
  <1>5. ASSUME NEW w \in Workers,
               Ruling!ReorderRules(w) PROVE RulesInv' /\ Ruling!AnswerIsDurableStep
    <2>1. /\ Ruling!Refreshes(w) /\ obs' = obs /\ suggestion' = suggestion /\ used' = used
          /\ matches' = matches /\ shown' = shown
      BY <1>5 DEF Ruling!ReorderRules, Ruling!learning
    <2>2. PICK i \in 1..(Len(shown) - 1) :
            /\ Ruling!MayReorder(Ruling!Exchanged(i)) /\ order' = Ruling!Exchanged(i)
            /\ rules' = [j \in RuleIds |-> IF j \in Ruling!Known
                         /\ j \in Ruling!ToSet(Ruling!Exchanged(i))
                          THEN Ruling!At(rules[j],
                                         (CHOOSE k \in 1..Len(Ruling!Exchanged(i)) :
                                          Ruling!Exchanged(i)[k] = j) - 1)
                          ELSE rules[j]]
      BY <1>5 DEF Ruling!ReorderRules
    <2>3. Ruling!Exchanged(i) \in Seq(RuleIds)
      <3> DEFINE from(k) == CASE k = i -> i + 1 [] k = i + 1 -> i [] OTHER -> k
                 n == Len(shown)
      <3>1. shown \in [1..n -> RuleIds] /\ n \in Nat
        BY <1>1 DEF RuleTypes
      <3>2. \A k \in 1..n : from(k) \in 1..n
        BY <3>1
      <3> HIDE DEF from, n
      <3>3. [k \in 1..n |-> shown[from(k)]] \in [1..n -> RuleIds]
        BY <3>1, <3>2
      <3>4. [k \in 1..n |-> shown[from(k)]] \in Seq(RuleIds)
        BY <3>1, <3>3, SeqDef
      <3> QED BY <3>4 DEF Ruling!Exchanged, from, n
    <2>4. /\ rules' \in [RuleIds -> Ruling!Rule \cup {None}] /\ Ruling!Known' = Ruling!Known /\ Ranked'
          /\ \A j \in Ruling!Known : rules'[j].origin = rules[j].origin
      BY <1>1, <2>2, <2>3, ReorderedHolds
    <2>5. work' \in [Workers -> Job] /\ ~ Ruling!Quiet'
      BY <1>1, <2>1, StillAtWork
    <2>6. RuleTypes'
      BY <1>1, <2>1, <2>4, <2>5 DEF RuleTypes
    <2>7. Projected' /\ Learned'
      BY <1>1, <2>1, <2>4, <2>5 DEF Projected, Learned
    <2> QED BY <2>1, <2>4, <2>6, <2>7 DEF RulesInv, Ruling!AnswerIsDurableStep
  <1>6. ASSUME UNCHANGED <<rules, used, obs, suggestion, matches, order>>,
               shown' \in Seq(RuleIds), work' \in [Workers -> Job], Ruling!Quiet' => Ruling!Quiet
        PROVE  RulesInv' /\ Ruling!AnswerIsDurableStep
    <2>1. Ruling!Known' = Ruling!Known
      BY <1>6 DEF Ruling!Known
    <2>2. RuleTypes'
      BY <1>1, <1>6, <2>1 DEF RuleTypes
    <2>3. Ranked' /\ Projected' /\ Learned'
      BY <1>1, <1>6, <2>1 DEF Ranked, Projected, Learned
    <2> QED BY <1>6, <2>2, <2>3 DEF RulesInv, Ruling!AnswerIsDurableStep
  <1>7. ASSUME NEW roots, NEW w \in Workers, NEW r \in Roots \cup {None},
               UNCHANGED <<rules, used, Ruling!learning, matches, shown, order>>,
               work' = [work EXCEPT ![w]
                        = [pc |-> "write", root |-> r, write |-> Ruling!Computed(roots)]]
        PROVE  RulesInv' /\ Ruling!AnswerIsDurableStep
    <2>1. Ruling!Computed(roots) \subseteq RuleIds \X RuleFiles
      BY DEF Ruling!Computed, Ruling!Known
    <2>2. [pc |-> "write", root |-> r, write |-> Ruling!Computed(roots)] \in Job
      BY <2>1 DEF Job
    <2>3. work' \in [Workers -> Job]
            /\ work'[w] = [pc |-> "write", root |-> r, write |-> Ruling!Computed(roots)]
      BY <1>1, <1>7, <2>2 DEF RuleTypes
    <2>4. work'[w].pc # Ruling!Idle.pc
      BY <2>3 DEF Ruling!Idle
    <2>5. ~ Ruling!Quiet'
      BY <2>4 DEF Ruling!Quiet, Ruling!Idle
    <2>6. UNCHANGED <<rules, used, obs, suggestion, matches, order>> /\ shown' \in Seq(RuleIds)
      BY <1>1, <1>7 DEF RuleTypes, Ruling!learning
    <2> QED BY <1>6, <2>3, <2>5, <2>6
  <1>8. ASSUME NEW w \in Workers, Ruling!ReadAll(w) PROVE RulesInv' /\ Ruling!AnswerIsDurableStep
    BY <1>7, <1>8 DEF Ruling!ReadAll
  <1>9. ASSUME NEW w \in Workers, Ruling!Build(w) PROVE RulesInv' /\ Ruling!AnswerIsDurableStep
    <2>1. PICK r \in Roots :
            work' = [work EXCEPT ![w]
                     = [pc |-> "write", root |-> r, write |-> Ruling!Computed({r})]]
      BY <1>9 DEF Ruling!Build
    <2>2. UNCHANGED <<rules, used, Ruling!learning, matches, shown, order>>
      BY <1>9 DEF Ruling!Build
    <2> QED BY <1>7, <2>1, <2>2
  <1>10. ASSUME NEW w \in Workers,
                Ruling!WriteMatches(w) PROVE RulesInv' /\ Ruling!AnswerIsDurableStep
    <2>1. /\ matches' = {m \in work[w].write : Ruling!StillEnabled(m)}
               /\ work' = [work EXCEPT ![w] = Ruling!Idle]
          /\ rules' = rules /\ used' = used /\ obs' = obs /\ suggestion' = suggestion
          /\ shown' = shown /\ order' = order
      BY <1>10 DEF Ruling!WriteMatches, Ruling!learning
    <2>2. Ruling!Known' = Ruling!Known
      BY <2>1 DEF Ruling!Known
    <2>3. Ruling!Idle \in Job
      BY DEF Ruling!Idle, Job
    <2>4. work[w] \in Job /\ work[w].write \subseteq RuleIds \X RuleFiles
      BY <1>1 DEF RuleTypes, Job
    <2>5. RuleTypes'
      BY <1>1, <2>1, <2>2, <2>3, <2>4 DEF RuleTypes
    <2>6. Projected'
      BY <2>1 DEF Projected, Ruling!StillEnabled
    <2>7. Ranked' /\ Learned'
      BY <1>1, <2>1, <2>2 DEF Ranked, Learned
    <2> QED BY <2>1, <2>5, <2>6, <2>7 DEF RulesInv, Ruling!AnswerIsDurableStep
  <1>11. ASSUME NEW w \in Workers, Ruling!Observe(w) PROVE RulesInv' /\ Ruling!AnswerIsDurableStep
    <2>1. /\ Ruling!Refreshes(w) /\ rules' = rules /\ used' = used /\ matches' = matches
          /\ shown' = shown /\ order' = order
          /\ IF Len(obs') >= Threshold
             THEN suggestion' = IF suggestion = None THEN "pending" ELSE suggestion
             ELSE suggestion' = suggestion
      BY <1>11 DEF Ruling!Observe, Ruling!Enough, Ruling!Offered
    <2>2. PICK d \in Decisions : obs' = Append(obs, d)
      BY <1>11 DEF Ruling!Observe
    <2>3. obs' \in Seq(Decisions) /\ Len(obs') = Len(obs) + 1 /\ Len(obs) \in Nat
      BY <1>1, <2>2 DEF RuleTypes
    <2>4. Ruling!Known' = Ruling!Known
      BY <2>1 DEF Ruling!Known
    <2>5. work' \in [Workers -> Job] /\ ~ Ruling!Quiet'
      BY <1>1, <2>1, StillAtWork
    <2>6. /\ suggestion' \in {None, "pending", "accepted", "dismissed"}
          /\ suggestion # None => suggestion' = suggestion
          /\ suggestion' # suggestion => Len(obs') >= Threshold
      BY <1>1, <2>1 DEF RuleTypes
    <2>7. RuleTypes'
      BY <1>1, <2>1, <2>3, <2>4, <2>5, <2>6 DEF RuleTypes
    <2>8. Ranked' /\ Projected'
      BY <1>1, <2>1, <2>4, <2>5 DEF Ranked, Projected
    <2>9. Ruling!AnswerIsDurableStep
      BY <2>6, NoRule DEF Ruling!AnswerIsDurableStep
    <2>10. Learned'
      <3>1. suggestion' # None => Len(obs') >= Threshold
        <4>1. CASE suggestion' # suggestion
          BY <2>6, <4>1
        <4>2. CASE suggestion' = suggestion
          BY <1>1, <2>3, <4>2, NoRule DEF Learned
        <4> QED BY <4>1, <4>2
      <3>2. suggestion = "accepted" => suggestion' = "accepted"
        BY <2>6, NoRule
      <3> QED BY <1>1, <2>1, <2>4, <3>1, <3>2 DEF Learned
    <2> QED BY <2>7, <2>8, <2>9, <2>10 DEF RulesInv
  <1>12. ASSUME NEW w \in Workers,
                Ruling!AcceptSuggestion(w) PROVE RulesInv' /\ Ruling!AnswerIsDurableStep
    <2>1. /\ Ruling!Refreshes(w) /\ suggestion = "pending" /\ suggestion' = "accepted" /\ obs' = obs
          /\ matches' = matches /\ shown' = shown
      BY <1>12 DEF Ruling!AcceptSuggestion, Ruling!MayAccept
    <2>2. PICK i \in Ruling!Fresh, c \in Values : Ruling!Inserted(i, c, "suggestion")
      BY <1>12 DEF Ruling!AcceptSuggestion
    <2>3. /\ rules' \in [RuleIds -> Ruling!Rule \cup {None}] /\ used' \subseteq RuleIds
          /\ i \notin Ruling!Known /\ Ruling!Known' = Ruling!Known \cup {i}
               /\ Ruling!Known' \subseteq used'
          /\ \A j \in Ruling!Known : rules'[j] = rules[j]
          /\ Ranked'
      BY <1>1, <2>2, InsertedHolds
    <2>4. work' \in [Workers -> Job] /\ ~ Ruling!Quiet'
      BY <1>1, <2>1, StillAtWork
    <2>5. RuleTypes'
      BY <1>1, <2>1, <2>3, <2>4 DEF RuleTypes
    <2>6. Projected'
      BY <2>4 DEF Projected
    <2>7. Learned'
      <3>1. \A j \in Ruling!Known : rules[j].origin # "suggestion"
        BY <1>1, <2>1 DEF Learned
      <3>2. Len(obs) >= Threshold
        BY <1>1, <2>1, NoRule DEF Learned
      <3> QED BY <2>1, <2>3, <3>1, <3>2 DEF Learned
    <2> QED BY <2>1, <2>3, <2>5, <2>6, <2>7 DEF RulesInv, Ruling!AnswerIsDurableStep
  <1>13. ASSUME Ruling!DismissSuggestion PROVE RulesInv' /\ Ruling!AnswerIsDurableStep
    <2>1. /\ suggestion = "pending" /\ suggestion' = "dismissed"
          /\ UNCHANGED <<rules, used, obs, matches, shown, order, work>>
      BY <1>13 DEF Ruling!DismissSuggestion
    <2>2. Ruling!Known' = Ruling!Known /\ Ruling!Quiet' = Ruling!Quiet
      BY <2>1 DEF Ruling!Known, Ruling!Quiet
    <2>3. RuleTypes'
      BY <1>1, <2>1, <2>2 DEF RuleTypes
    <2>4. Ranked' /\ Projected'
      BY <1>1, <2>1, <2>2 DEF Ranked, Projected
    <2>5. Learned'
      BY <1>1, <2>1, <2>2, NoRule DEF Learned
    <2> QED BY <2>1, <2>3, <2>4, <2>5 DEF RulesInv, Ruling!AnswerIsDurableStep
  <1>14. ASSUME Ruling!ShowRules PROVE RulesInv' /\ Ruling!AnswerIsDurableStep
    <2>1. shown' \in Seq(RuleIds)
      BY <1>1, <1>14, ListedIsOrder DEF Ruling!ShowRules
    <2>2. UNCHANGED <<rules, used, obs, suggestion, matches, order, work>>
      BY <1>14 DEF Ruling!ShowRules, Ruling!learning
    <2>3. work' \in [Workers -> Job] /\ (Ruling!Quiet' => Ruling!Quiet)
      BY <1>1, <2>2 DEF RuleTypes, Ruling!Quiet
    <2> QED BY <1>6, <2>1, <2>2, <2>3
  <1>15. CASE UNCHANGED Ruling!vars
    <2>1. /\ UNCHANGED <<rules, used, obs, suggestion, matches, order, work>> /\ shown' \in Seq(RuleIds)
      BY <1>1, <1>15 DEF Ruling!vars, RuleTypes
    <2>2. work' \in [Workers -> Job] /\ (Ruling!Quiet' => Ruling!Quiet)
      BY <1>1, <2>1 DEF RuleTypes, Ruling!Quiet
    <2> QED BY <1>6, <2>1, <2>2
  <1> QED
    BY <1>2, <1>3, <1>4, <1>5, <1>8, <1>9, <1>10, <1>11, <1>12, <1>13, <1>14, <1>15 DEF Ruling!Next

\* What the invariant says of the rules.
LEMMA RulesSound ==
  ASSUME Ruling!RulesAssumption, RulesInv
  PROVE  Ruling!TypeOK /\ Ruling!UserOrderDecides /\ Ruling!NoDeadBoost /\ Ruling!LearnedOnce
  <1>1. RuleTypes /\ Ranked /\ Projected /\ Learned
    BY DEF RulesInv
  <1> DEFINE n == Len(order)
  <1>2. /\ n \in Nat /\ Cardinality(Ruling!Known) = n /\ IsFiniteSet(Ruling!Known)
        /\ \A i \in Ruling!Known : rules[i].pos \in Nat /\ rules[i].pos < n
        /\ \A i, j \in Ruling!Known : Ruling!Before(i, j) <=> rules[i].pos < rules[j].pos
        /\ \A i, j \in Ruling!Known : rules[i].pos = rules[j].pos => i = j
    BY <1>1, Positions
  <1>3. DOMAIN order = 1..n /\ \A k \in 1..n : order[k] \in Ruling!Known
          /\ rules[order[k]].pos = k - 1
    BY <1>1 DEF Ranked
  <1>4. \A i \in Ruling!Known : rules[i].pos + 1 \in 1..n /\ order[rules[i].pos + 1] = i
    BY <1>1 DEF Ranked
  <1> HIDE DEF n
  <1>5. Ruling!TypeOK
    <2>1. {rules[i].pos : i \in Ruling!Known} = 0..(Cardinality(Ruling!Known) - 1)
      <3>1. \A i \in Ruling!Known : rules[i].pos \in 0..(n - 1)
        BY <1>2
      <3>2. ASSUME NEW p \in 0..(n - 1) PROVE \E i \in Ruling!Known : rules[i].pos = p
        <4>1. p + 1 \in 1..n /\ (p + 1) - 1 = p
          BY <1>2
        <4> QED BY <1>3, <4>1
      <3> QED BY <1>2, <3>1, <3>2
    <2>2. Ruling!ToSet(shown) \subseteq RuleIds
      BY <1>1 DEF RuleTypes, Ruling!ToSet
    <2> QED BY <1>1, <2>1, <2>2, RulingCardinality DEF Ruling!TypeOK, RuleTypes
  <1>6. Ruling!UserOrderDecides
    <2> SUFFICES ASSUME NEW f \in RuleFiles
                 PROVE  Ruling!Decides(f) = {order[k] : k \in {m \in DOMAIN order :
                                        /\ order[m] \in Ruling!MatchedRules(f)
                                        /\ \A l \in 1..(m - 1) :
                                             order[l] \notin Ruling!MatchedRules(f)}}
      BY DEF Ruling!UserOrderDecides
    <2>1. Ruling!MatchedRules(f) \subseteq Ruling!Known
      BY DEF Ruling!MatchedRules
    <2>2. ASSUME NEW i \in Ruling!Decides(f)
          PROVE  \E k \in 1..n : /\ order[k] = i /\ order[k] \in Ruling!MatchedRules(f)
                                 /\ \A l \in 1..(k - 1) : order[l] \notin Ruling!MatchedRules(f)
      <3>1. i \in Ruling!MatchedRules(f) /\ i \in Ruling!Known
            /\ \A j \in Ruling!MatchedRules(f) : i = j \/ rules[i].pos < rules[j].pos
        BY <1>2, <2>1 DEF Ruling!Decides
      <3> DEFINE k == rules[i].pos + 1
      <3>2. k \in 1..n /\ order[k] = i /\ rules[i].pos = k - 1 /\ rules[i].pos \in Nat
        BY <1>2, <1>4, <3>1
      <3> HIDE DEF k
      <3>3. ASSUME NEW l \in 1..(k - 1), order[l] \in Ruling!MatchedRules(f) PROVE FALSE
        <4>1. l \in 1..n /\ l < k
          BY <1>2, <3>2
        <4>2. rules[order[l]].pos = l - 1
          BY <1>3, <4>1
        <4>3. i = order[l] \/ k - 1 < l - 1
          BY <3>1, <3>2, <3>3, <4>2
        <4>4. i = order[l] => k - 1 = l - 1
          BY <3>2, <4>2
        <4> QED BY <1>2, <3>2, <4>1, <4>3, <4>4
      <3> QED BY <3>1, <3>2, <3>3
    <2>3. ASSUME NEW k \in 1..n, order[k] \in Ruling!MatchedRules(f),
                 \A l \in 1..(k - 1) : order[l] \notin Ruling!MatchedRules(f)
          PROVE  order[k] \in Ruling!Decides(f)
      <3>1. ASSUME NEW j \in Ruling!MatchedRules(f), order[k] # j PROVE Ruling!Before(order[k], j)
        <4> DEFINE l == rules[j].pos + 1
        <4>1. l \in 1..n /\ order[l] = j /\ rules[j].pos = l - 1
          BY <1>2, <1>4, <2>1
        <4> HIDE DEF l
        <4>2. l \notin 1..(k - 1) /\ l # k
          BY <2>3, <3>1, <4>1
        <4>3. k - 1 < l - 1
          BY <1>2, <4>1, <4>2
        <4> QED BY <1>2, <1>3, <2>1, <4>1, <4>3
      <3> QED BY <2>3, <3>1 DEF Ruling!Decides
    <2> QED BY <1>3, <2>2, <2>3
  <1>7. Ruling!NoDeadBoost
    BY <1>1 DEF Ruling!NoDeadBoost, Projected
  <1>8. Ruling!LearnedOnce
    <2> DEFINE L == {i \in Ruling!Known : rules[i].origin = "suggestion"}
    <2>1. L # {} => suggestion = "accepted" /\ Len(obs) >= Threshold
      BY <1>1, NoRule DEF Learned
    <2>2. Cardinality(L) <= 1
      <3>1. CASE L = {}
        <4>1. Cardinality(L) = 0
          BY <3>1, FS_EmptySet
        <4> QED BY <4>1
      <3>2. CASE L # {}
        <4>1. PICK i : L = {i}
          BY <1>1, <3>2 DEF Learned
        <4>2. Cardinality(L) = 1
          <5> HIDE DEF L
          <5> QED BY <4>1, FS_Singleton
        <4> QED BY <4>2
      <3> QED BY <3>1, <3>2
    <2> QED BY <2>1, <2>2, RulingCardinality DEF Ruling!LearnedOnce
  <1> QED BY <1>5, <1>6, <1>7, <1>8

-----------------------------------------------------------------------------
(* The identities: what the resolver's tables keep                         *)

Occurrence == [file : Documents, name : Identities!Names, ids : SUBSET Nat, field : Nat,
               identity : Nat, active : BOOLEAN]
Identity == [into : Nat, locked : BOOLEAN]
Candidate == [status : Identities!Statuses, key : Identities!Names]
Candidates == UNION {[S -> Candidate] : S \in SUBSET SUBSET Nat}
Db == [occ : Seq(Occurrence), ident : Seq(Identity), cand : Candidates,
       barred : SUBSET SUBSET Nat, rel : SUBSET (Documents \X Nat),
         listed : SUBSET Identities!Names]

\* Every occurrence is with an identity that was not merged away.
Home(d) == \A o \in DOMAIN d.occ : /\ d.occ[o].identity \in DOMAIN d.ident
                                   /\ Identities!ActiveIdentity(d, d.occ[o].identity)

\* The merges lead, in no more steps than there were merges, to an identity
\* that was not merged away.
Inactive(d) == {i \in DOMAIN d.ident : ~ Identities!ActiveIdentity(d, i)}
Leads(d, h) == \A i \in Inactive(d) : /\ d.ident[i].into \in DOMAIN d.ident
                                      /\ h[d.ident[i].into] < h[i]
Forest(d) == \E h \in [DOMAIN d.ident -> 0..Cardinality(Inactive(d))] : Leads(d, h)

\* A pair of identities.
Twos(d) == {p \in SUBSET DOMAIN d.ident : \E i, j \in DOMAIN d.ident : i # j /\ p = {i, j}}
Paired(d) == DOMAIN d.cand \subseteq Twos(d) /\ d.barred \subseteq Twos(d)

Tables(d) == d \in Db /\ Home(d) /\ Forest(d) /\ Paired(d)

\* The relations of the files are current, but for some.
Related(d, fs) ==
  \A f \in Documents \ fs, i \in Nat :
    <<f, i>> \in d.rel <=> \E o \in DOMAIN d.occ :
              d.occ[o].active /\ d.occ[o].file = f /\ d.occ[o].identity = i

\* The open candidates are listed, but for some keys.
Open(d, p) == d.cand[p].status \in Identities!OpenStatuses
  /\ \A i \in p : Identities!ActiveIdentity(d, i)
Offered(d, keys) ==
  \A p \in DOMAIN d.cand : Open(d, p) /\ d.cand[p].key \notin keys => d.cand[p].key \in d.listed

\* What the user separated is kept apart by a constraint or by a lock.
Parted(d, o, k) ==
  LET i == d.occ[o].identity
      j == d.occ[k].identity
  IN  i # j /\ ({i, j} \in d.barred \/ Identities!UserLocked(d, i) \/ Identities!UserLocked(d, j))
Separate(d, A) == \A p \in A : \E o, k \in DOMAIN d.occ : p = {o, k} /\ Parted(d, o, k)

\* The files that have no row for their value yet.
Missing == {f \in DOMAIN analysis :
              \A o \in DOMAIN db.occ :
                ~ (db.occ[o].file = f /\ db.occ[o].name = Identities!EffectiveName(f))}
Room == Len(db.ident) + Cardinality(Missing) + budget.analyses + budget.corrections
          + budget.decisions <= MaxIdentities

Inputs ==
  /\ budget \in [files : SUBSET Documents, contents : SUBSET Identities!Content,
                 analyses : Nat, corrections : Nat, decisions : Nat]
  /\ DOMAIN analysis \subseteq Documents
  /\ analysis \in [DOMAIN analysis -> [number : Nat, name : Identities!Names, ids : SUBSET Nat]]
  /\ corrected \in [Documents -> Identities!Names \cup {Identities!NoName}]

\* A run works on analysed files and compares occurrences that there are.
Run == [phase : {"idle", "stuck", "list", "file", "pair"}, force : BOOLEAN, seen : SUBSET Documents,
        queue : SUBSET Documents, left : Nat, rights : SUBSET Nat, assessed : SUBSET SUBSET Nat,
        cancelled : BOOLEAN]
Runs ==
  /\ run \in Run
  /\ run.queue \subseteq DOMAIN analysis
  /\ run.rights \subseteq DOMAIN db.occ
  /\ run.phase = "pair" => run.queue # {} /\ run.left \in DOMAIN db.occ

Sound(d) == Tables(d) /\ Related(d, {}) /\ Offered(d, {})

IdentityInv == Sound(db) /\ Separate(db, apart) /\ Room /\ Inputs /\ Runs

LEMMA Least ==
  ASSUME NEW T \in SUBSET Nat, T # {}
  PROVE  \E m \in T : \A n \in T : m <= n
  <1> DEFINE R == {ss \in Nat \X Nat : ss[1] < ss[2]}
  <1>1. IsWellFoundedOn(R, Nat)
    BY NatLessThanWellFounded DEF OpToRel
  <1>2. PICK m \in T : \A n \in T : ~ (<<n, m>> \in R)
    <2> HIDE DEF R
    <2> QED BY <1>1, WFMin
  <1>3. ASSUME NEW n \in T PROVE m <= n
    <2>1. <<n, m>> \in Nat \X Nat /\ <<n, m>> \notin R
      BY <1>2
    <2>2. ~ (n < m)
      BY <2>1
    <2> QED BY <2>2
  <1> QED BY <1>3

LEMMA LowerIn == ASSUME NEW S \in SUBSET Nat, S # {} PROVE Identities!Lower(S) \in S
  <1>1. PICK m \in S : \A n \in S : m <= n
    BY Least
  <1> QED BY <1>1 DEF Identities!Lower

LEMMA OnlyIs == ASSUME NEW x PROVE Identities!Only({x}) = x
  BY DEF Identities!Only

\* The sequences that a table is built with.
LEMMA Mapped ==
  ASSUME NEW S, NEW T, NEW s \in Seq(S), NEW t, t = [k \in DOMAIN s |-> t[k]],
         \A k \in DOMAIN s : t[k] \in T
  PROVE  t \in Seq(T) /\ DOMAIN t = DOMAIN s /\ Len(t) = Len(s)
  <1> DEFINE n == Len(s)
  <1>1. DOMAIN s = 1..n /\ n \in Nat
    OBVIOUS
  <1> HIDE DEF n
  <1>2. t \in [1..n -> T]
    BY <1>1
  <1>3. t \in Seq(T)
    BY <1>1, <1>2, SeqDef
  <1>4. Len(t) = n
    BY <1>1, <1>2, <1>3
  <1> QED BY <1>1, <1>2, <1>3, <1>4 DEF n

\* A table of candidates has a row for each of its pairs.
LEMMA Rows ==
  ASSUME NEW c \in Candidates
  PROVE  DOMAIN c \in SUBSET SUBSET Nat /\ c \in [DOMAIN c -> Candidate]
  <1>1. PICK S \in SUBSET SUBSET Nat : c \in [S -> Candidate]
    BY DEF Candidates
  <1> QED BY <1>1

LEMMA Fields ==
  ASSUME NEW d \in Db
  PROVE  /\ d.occ \in Seq(Occurrence) /\ d.ident \in Seq(Identity)
         /\ DOMAIN d.occ = 1..Len(d.occ) /\ DOMAIN d.ident = 1..Len(d.ident)
         /\ Len(d.occ) \in Nat /\ Len(d.ident) \in Nat
         /\ \A o \in DOMAIN d.occ : d.occ[o] \in Occurrence
         /\ \A i \in DOMAIN d.ident : d.ident[i] \in Identity
         /\ \A p \in DOMAIN d.cand : d.cand[p].status \in Identities!Statuses
              /\ d.cand[p].key \in Identities!Names
         /\ d.barred \subseteq SUBSET Nat /\ d.rel \subseteq Documents \X Nat
              /\ d.listed \subseteq Identities!Names
  <1>1. d.occ \in Seq(Occurrence) /\ d.ident \in Seq(Identity) /\ d.cand \in Candidates
        /\ d.barred \subseteq SUBSET Nat /\ d.rel \subseteq Documents \X Nat
             /\ d.listed \subseteq Identities!Names
    BY DEF Db
  <1>2. \A p \in DOMAIN d.cand : d.cand[p] \in Candidate
    BY <1>1 DEF Candidates
  <1> QED BY <1>1, <1>2 DEF Candidate

\* A table that is replaced leaves the others as they are.
LEMMA NewOcc ==
  ASSUME NEW d \in Db, NEW x \in Seq(Occurrence), NEW e, e = [d EXCEPT !.occ = x]
  PROVE  /\ e \in Db /\ e.occ = x /\ e.ident = d.ident /\ e.cand = d.cand /\ e.barred = d.barred
         /\ e.rel = d.rel /\ e.listed = d.listed
  BY DEF Db
LEMMA NewIdent ==
  ASSUME NEW d \in Db, NEW x \in Seq(Identity), NEW e, e = [d EXCEPT !.ident = x]
  PROVE  /\ e \in Db /\ e.occ = d.occ /\ e.ident = x /\ e.cand = d.cand /\ e.barred = d.barred
         /\ e.rel = d.rel /\ e.listed = d.listed
  BY DEF Db
LEMMA NewCand ==
  ASSUME NEW d \in Db, NEW x \in Candidates, NEW e, e = [d EXCEPT !.cand = x]
  PROVE  /\ e \in Db /\ e.occ = d.occ /\ e.ident = d.ident /\ e.cand = x /\ e.barred = d.barred
         /\ e.rel = d.rel /\ e.listed = d.listed
  BY DEF Db
LEMMA NewBarred ==
  ASSUME NEW d \in Db, NEW x \in SUBSET SUBSET Nat, NEW e, e = [d EXCEPT !.barred = x]
  PROVE  /\ e \in Db /\ e.occ = d.occ /\ e.ident = d.ident /\ e.cand = d.cand /\ e.barred = x
         /\ e.rel = d.rel /\ e.listed = d.listed
  BY DEF Db
LEMMA NewRel ==
  ASSUME NEW d \in Db, NEW x \in SUBSET (Documents \X Nat), NEW e, e = [d EXCEPT !.rel = x]
  PROVE  /\ e \in Db /\ e.occ = d.occ /\ e.ident = d.ident /\ e.cand = d.cand /\ e.barred = d.barred
         /\ e.rel = x /\ e.listed = d.listed
  BY DEF Db
LEMMA NewListed ==
  ASSUME NEW d \in Db, NEW x \in SUBSET Identities!Names, NEW e, e = [d EXCEPT !.listed = x]
  PROVE  /\ e \in Db /\ e.occ = d.occ /\ e.ident = d.ident /\ e.cand = d.cand /\ e.barred = d.barred
         /\ e.rel = d.rel /\ e.listed = x
  BY DEF Db

\* What does not look at a table does not change with it.
LEMMA SameTables ==
  ASSUME NEW d, NEW e, e.occ = d.occ, e.ident = d.ident
  PROVE  /\ Home(d) => Home(e) 
         /\ Forest(d) => Forest(e)
         /\ Twos(e) = Twos(d) /\ Inactive(e) = Inactive(d)
         /\ \A i : Identities!ActiveIdentity(e, i) = Identities!ActiveIdentity(d, i)
              /\ Identities!UserLocked(e, i) = Identities!UserLocked(d, i)
         /\ \A i : Identities!Holding(e, i) = Identities!Holding(d, i)
              /\ Identities!ActiveHolding(e, i) = Identities!ActiveHolding(d, i)
  BY DEF Home, Forest, Leads, Inactive, Identities!ActiveIdentity, Twos, Identities!UserLocked,
         Identities!Holding, Identities!ActiveHolding

LEMMA SameIdentities ==
  ASSUME NEW d, NEW e, e.ident = d.ident
  PROVE  /\ Forest(d) => Forest(e)
         /\ Twos(e) = Twos(d) /\ Inactive(e) = Inactive(d)
         /\ \A i : Identities!ActiveIdentity(e, i) = Identities!ActiveIdentity(d, i)
              /\ Identities!UserLocked(e, i) = Identities!UserLocked(d, i)
  BY DEF Forest, Leads, Inactive, Identities!ActiveIdentity, Twos, Identities!UserLocked

LEMMA SameOffered ==
  ASSUME NEW d, NEW e, e.ident = d.ident, e.cand = d.cand, e.listed = d.listed, Offered(d, {})
  PROVE  Offered(e, {})
  BY DEF Offered, Open, Identities!ActiveIdentity

LEMMA SameRelated ==
  ASSUME NEW d, NEW e, NEW fs, NEW gs, fs \subseteq gs, e.occ = d.occ, e.rel = d.rel, Related(d, fs)
  PROVE  Related(e, gs)
  <1>1. ASSUME NEW f \in Documents \ gs, NEW i \in Nat
        PROVE  <<f, i>> \in e.rel <=> \E o \in DOMAIN e.occ :
                 e.occ[o].active /\ e.occ[o].file = f /\ e.occ[o].identity = i
    <2>1. <<f, i>> \in d.rel <=> \E o \in DOMAIN d.occ :
            d.occ[o].active /\ d.occ[o].file = f /\ d.occ[o].identity = i
      BY DEF Related
    <2> QED BY <2>1
  <1> QED BY <1>1 DEF Related

-----------------------------------------------------------------------------
(* Following the merges                                                    *)

LEMMA CanonicalIs ==
  ASSUME NEW d \in Db, Forest(d), Len(d.ident) <= MaxIdentities, MaxIdentities \in Nat,
         NEW i \in DOMAIN d.ident
  PROVE  /\ Identities!Canonical(d, i) \in DOMAIN d.ident
              /\ Identities!ActiveIdentity(d, Identities!Canonical(d, i))
         /\ Identities!ActiveIdentity(d, i) => Identities!Canonical(d, i) = i
  <1> DEFINE Step(at) == IF Identities!ActiveIdentity(d, at) THEN at ELSE d.ident[at].into
             M == MaxIdentities
             Forward(x) == Identities!Only({Step(at) : at \in {x}})
             Next1(g, n) == IF n = 0 THEN i ELSE Forward(g[n - 1])
             After(g, w) == g = [n \in 0..w |-> Next1(g, n)]
  <1>1. \E g : After(g, M)
    <2> HIDE DEF Forward
    <2> DEFINE Bad == {n \in 0..M : ~ \E g : After(g, n)}
    <2> SUFFICES ASSUME Bad # {} PROVE FALSE
      <3>1. M \in 0..M
        OBVIOUS
      <3> HIDE DEF After
      <3> QED BY <3>1
    <2>1. Bad \in SUBSET Nat
      OBVIOUS
    <2> HIDE DEF Bad
    <2>2. PICK m \in Bad : \A n \in Bad : m <= n
      BY <2>1, Least
    <2>3. m \in 0..M /\ ~ \E g : After(g, m)
      BY <2>2 DEF Bad
    <2>4. m # 0
      <3> SUFFICES ASSUME m = 0 PROVE FALSE
        OBVIOUS
      <3> DEFINE g0 == [n \in 0..m |-> i]
                 k == [n \in 0..m |-> Next1(g0, n)]
      <3>1. \A n \in 0..m : g0[n] = k[n]
        OBVIOUS
      <3>2. After(g0, m)
        BY <3>1
      <3> QED BY <2>3, <3>2
    <2>5. m - 1 \in 0..M /\ m - 1 \notin Bad
      BY <2>2, <2>3, <2>4
    <2>6. PICK g : After(g, m - 1)
      BY <2>5 DEF Bad
    <2> DEFINE h == [n \in 0..m |-> IF n < m THEN g[n] ELSE Next1(g, m)]
    <2>7. ASSUME NEW n \in 0..m PROVE h[n] = Next1(h, n)
      <3>1. n = 0 => h[n] = i
        <4>0. 0 \in 0..(m - 1)
          BY <2>3, <2>4
        <4>1. g[0] = Next1(g, 0)
          BY <4>0, <2>6
        <4> QED BY <4>1, <2>3, <2>4
      <3>2. n # 0 /\ n < m => h[n] = Next1(g, n) /\ h[n - 1] = g[n - 1]
        <4> SUFFICES ASSUME n # 0, n < m PROVE h[n] = Next1(g, n) /\ h[n - 1] = g[n - 1]
          OBVIOUS
        <4>1. n \in 0..(m - 1) /\ n - 1 \in 0..m /\ n - 1 < m
          BY <2>3
        <4>2. g[n] = Next1(g, n)
          BY <4>1, <2>6
        <4> QED BY <4>1, <4>2
      <3>3. n = m => h[n] = Next1(g, n) /\ h[n - 1] = g[n - 1]
        BY <2>3, <2>4
      <3> QED BY <3>1, <3>2, <3>3, <2>3
    <2>8. After(h, m)
      <3> DEFINE k == [n \in 0..m |-> Next1(h, n)]
      <3>1. \A n \in 0..m : h[n] = k[n]
        BY SMTT(20), <2>7
      <3> QED BY <3>1
    <2> QED BY <2>3, <2>8
  <1> DEFINE hop == CHOOSE g : After(g, M)
  <1>2. After(hop, M) /\ Identities!Canonical(d, i) = hop[M]
    <2>1. After(hop, M)
      BY <1>1
    <2>2. Identities!Canonical(d, i) =
            (CHOOSE g : g = [n \in 0..MaxIdentities |->
                IF n = 0 THEN i
                  ELSE Identities!Only({(IF Identities!ActiveIdentity(d, at) THEN at
                                         ELSE d.ident[at].into) :
                                              at \in {g[n - 1]}})])[MaxIdentities]
      BY DEF Identities!Canonical
    <2> QED BY ZenonT(40), <2>1, <2>2
  <1> HIDE DEF hop
  <1>3. \A n \in 0..M : hop[n] = IF n = 0 THEN i ELSE Step(hop[n - 1])
    <2>1. \A n \in 0..M : hop[n] = Next1(hop, n)
      BY <1>2
    <2>2. \A x : {Step(at) : at \in {x}} = {Step(x)}
      OBVIOUS
    <2>3. \A x : Identities!Only({Step(at) : at \in {x}}) = Step(x)
      BY <2>2, OnlyIs
    <2> QED BY <2>1, <2>3
  <1>4. PICK h \in [DOMAIN d.ident -> 0..Cardinality(Inactive(d))] : Leads(d, h)
    BY DEF Forest
  <1>5. Cardinality(Inactive(d)) \in Nat /\ Cardinality(Inactive(d)) <= M
    <2>1. Inactive(d) \subseteq 1..Len(d.ident) /\ Len(d.ident) \in Nat
      BY Fields DEF Inactive
    <2>2. IsFiniteSet(1..Len(d.ident)) /\ Cardinality(1..Len(d.ident)) = Len(d.ident)
      <3>1. Cardinality(1..Len(d.ident)) = IF 1 > Len(d.ident) THEN 0 ELSE Len(d.ident) - 1 + 1
        BY <2>1, FS_Interval
      <3> QED BY <2>1, <3>1, FS_Interval
    <2>3. Cardinality(Inactive(d)) <= Len(d.ident) /\ IsFiniteSet(Inactive(d))
      BY <2>1, <2>2, FS_Subset
    <2>4. Cardinality(Inactive(d)) \in Nat
      BY <2>3, FS_CardinalityType
    <2> QED BY <2>1, <2>3, <2>4
  <1> DEFINE Fine(n) == /\ hop[n] \in DOMAIN d.ident
                        /\ Identities!ActiveIdentity(d, hop[n]) \/ h[hop[n]] <= M - n
                        /\ Identities!ActiveIdentity(d, i) => hop[n] = i
  <1>6. \A n \in 0..M : Fine(n)
    <2> DEFINE Bad == {n \in 0..M : ~ Fine(n)}
    <2> SUFFICES ASSUME Bad # {} PROVE FALSE
      OBVIOUS
    <2>1. Bad \in SUBSET Nat
      OBVIOUS
    <2> HIDE DEF Bad
    <2>2. PICK m \in Bad : \A n \in Bad : m <= n
      BY <2>1, Least
    <2>3. m \in 0..M /\ ~ Fine(m)
      BY <2>2 DEF Bad
    <2>4. m # 0
      <3>1. h[i] \in 0..Cardinality(Inactive(d)) /\ hop[0] = i
        BY <1>3, <1>4
      <3>2. h[i] <= M - 0
        BY <1>5, <3>1
      <3> QED BY <2>3, <3>1, <3>2
    <2>5. m - 1 \in 0..M /\ m - 1 \notin Bad
      BY <2>2, <2>3, <2>4
    <2>6. Fine(m - 1)
      BY <2>5 DEF Bad
    <2> DEFINE y == hop[m - 1]
    <2>7. hop[m] = Step(y)
      BY <1>3, <2>3, <2>4
    <2>8. y \in DOMAIN d.ident /\ (Identities!ActiveIdentity(d, y) \/ h[y] <= M - (m - 1))
          /\ (Identities!ActiveIdentity(d, i) => y = i)
      BY <2>6
    <2> HIDE DEF y, Fine
    <2>9. CASE Identities!ActiveIdentity(d, y)
      BY <2>3, <2>7, <2>8, <2>9 DEF Fine
    <2>10. CASE ~ Identities!ActiveIdentity(d, y)
      <3>1. y \in Inactive(d) /\ hop[m] = d.ident[y].into
        BY <2>7, <2>8, <2>10 DEF Inactive
      <3>2. hop[m] \in DOMAIN d.ident /\ h[hop[m]] < h[y]
        BY <1>4, <3>1 DEF Leads
      <3>3. h[hop[m]] \in Nat /\ h[y] \in Nat
        BY <1>4, <1>5, <2>8, <3>2
      <3>4. h[hop[m]] <= M - m
        BY <2>3, <2>8, <2>10, <3>2, <3>3
      <3> QED BY <2>3, <2>8, <2>10, <3>2, <3>4 DEF Fine
    <2> QED BY <2>9, <2>10
  <1>7. Fine(M)
    BY <1>6
  <1>8. Identities!ActiveIdentity(d, hop[M])
    <2> SUFFICES ASSUME ~ Identities!ActiveIdentity(d, hop[M]) PROVE FALSE
      OBVIOUS
    <2> DEFINE y == hop[M]
    <2>1. y \in Inactive(d) /\ h[y] <= 0
      BY <1>7 DEF Inactive
    <2>2. d.ident[y].into \in DOMAIN d.ident /\ h[d.ident[y].into] < h[y] /\ y \in DOMAIN d.ident
      BY <1>4, <2>1 DEF Leads, Inactive
    <2>3. h[d.ident[y].into] \in Nat /\ h[y] \in Nat
      BY <1>4, <1>5, <2>2
    <2> QED BY <2>1, <2>2, <2>3
  <1> QED BY <1>2, <1>7, <1>8

-----------------------------------------------------------------------------
(* The derived tables                                                      *)

LEMMA GroupsHold ==
  ASSUME NEW d \in Db, NEW keys, NEW e, e = Identities!RefreshGroups(d, keys)
  PROVE  /\ e \in Db /\ e.occ = d.occ /\ e.ident = d.ident /\ e.cand = d.cand
         /\ e.barred = d.barred /\ e.rel = d.rel
         /\ Offered(d, keys) => Offered(e, {})
  <1> DEFINE open == {q \in DOMAIN d.cand : /\ d.cand[q].key \in keys
                                            /\ d.cand[q].status \in Identities!OpenStatuses
                                            /\ \A i \in q : Identities!ActiveIdentity(d, i)}
             now == (d.listed \ keys) \cup {d.cand[p].key : p \in open}
  <1>1. now \in SUBSET Identities!Names
    BY Fields
  <1>2. e = [d EXCEPT !.listed = now]
    BY DEF Identities!RefreshGroups
  <1> HIDE DEF now
  <1>3. /\ e \in Db /\ e.occ = d.occ /\ e.ident = d.ident /\ e.cand = d.cand
        /\ e.barred = d.barred /\ e.rel = d.rel /\ e.listed = now
    BY <1>1, <1>2, NewListed
  <1>4. ASSUME Offered(d, keys), NEW p \in DOMAIN e.cand, Open(e, p) PROVE e.cand[p].key \in now
    <2>1. p \in DOMAIN d.cand /\ Open(d, p)
      BY <1>3, <1>4 DEF Open, Identities!ActiveIdentity
    <2>2. CASE d.cand[p].key \in keys
      BY <1>3, <2>1, <2>2 DEF now, Open
    <2>3. CASE d.cand[p].key \notin keys
      BY <1>3, <1>4, <2>1, <2>3 DEF now, Offered
    <2> QED BY <2>2, <2>3
  <1> QED BY <1>3, <1>4 DEF Offered

LEMMA FilesHold ==
  ASSUME NEW d \in Db, Home(d), NEW fs, NEW e, e = Identities!RefreshFiles(d, fs)
  PROVE  /\ e \in Db /\ e.occ = d.occ /\ e.ident = d.ident /\ e.cand = d.cand
         /\ e.barred = d.barred /\ e.listed = d.listed
         /\ Related(d, fs) => Related(e, {})
  <1> DEFINE held == {k \in DOMAIN d.occ : /\ d.occ[k].file \in fs
                                           /\ d.occ[k].active
                                           /\ Identities!ActiveIdentity(d, d.occ[k].identity)}
             now == {r \in d.rel : r[1] \notin fs}
               \cup {<<d.occ[o].file, d.occ[o].identity>> : o \in held}
  <1>1. \A o \in DOMAIN d.occ : d.occ[o].file \in Documents /\ d.occ[o].identity \in Nat
    BY Fields DEF Occurrence
  <1>2. now \in SUBSET (Documents \X Nat)
    BY <1>1, Fields
  <1>3. e = [d EXCEPT !.rel = now]
    BY DEF Identities!RefreshFiles
  <1>4. /\ e \in Db /\ e.occ = d.occ /\ e.ident = d.ident /\ e.cand = d.cand
        /\ e.barred = d.barred /\ e.rel = now /\ e.listed = d.listed
    <2> HIDE DEF now
    <2> QED BY <1>2, <1>3, NewRel
  <1>5. ASSUME Related(d, fs), NEW f \in Documents, NEW i \in Nat
        PROVE  <<f, i>> \in now <=> \E o \in DOMAIN d.occ :
              d.occ[o].active /\ d.occ[o].file = f /\ d.occ[o].identity = i
    <2>1. CASE f \in fs
      <3>1. <<f, i>> \in now <=> \E o \in held : d.occ[o].file = f /\ d.occ[o].identity = i
        BY <2>1
      <3> QED BY <2>1, <3>1 DEF Home
    <2>2. CASE f \notin fs
      <3>1. <<f, i>> \in now <=> <<f, i>> \in d.rel
        BY <2>2
      <3> HIDE DEF now
      <3> QED BY <1>5, <2>2, <3>1 DEF Related
    <2> QED BY <2>1, <2>2
  <1> HIDE DEF now
  <1>6. ASSUME Related(d, fs), NEW f \in Documents, NEW i \in Nat
        PROVE  <<f, i>> \in e.rel <=> \E o \in DOMAIN e.occ :
              e.occ[o].active /\ e.occ[o].file = f /\ e.occ[o].identity = i
    BY <1>4, <1>5, <1>6
  <1>7. Related(d, fs) => Related(e, {})
    BY <1>6 DEF Related
  <1> QED BY <1>4, <1>7

LEMMA SupersedeHolds ==
  ASSUME NEW d \in Db, NEW pairs \in SUBSET DOMAIN d.cand, Offered(d, {}), NEW e,
         e = Identities!Supersede(d, pairs)
  PROVE  /\ e \in Db /\ e.occ = d.occ /\ e.ident = d.ident /\ DOMAIN e.cand = DOMAIN d.cand
         /\ e.barred = d.barred /\ e.rel = d.rel
         /\ Offered(e, {})
  <1> DEFINE gone(p) == [d.cand[p] EXCEPT !.status = "superseded"]
             cand == [p \in DOMAIN d.cand |-> IF p \in pairs THEN gone(p) ELSE d.cand[p]]
             x == [d EXCEPT !.cand = cand]
             keys == {d.cand[p].key : p \in pairs}
  <1>1. e = Identities!RefreshGroups(x, keys)
    BY DEF Identities!Supersede
  <1>2. d.cand \in Candidates /\ DOMAIN d.cand \in SUBSET SUBSET Nat
        /\ \A p \in DOMAIN d.cand : d.cand[p] \in Candidate
    <2>1. d.cand \in Candidates
      BY DEF Db
    <2>2. DOMAIN d.cand \in SUBSET SUBSET Nat /\ d.cand \in [DOMAIN d.cand -> Candidate]
      BY <2>1, Rows
    <2> QED BY <2>1, <2>2
  <1>3. \A p \in DOMAIN d.cand : gone(p) \in Candidate
    BY <1>2 DEF Candidate, Identities!Statuses
  <1> HIDE DEF gone
  <1>4. cand \in [DOMAIN d.cand -> Candidate]
    BY <1>2, <1>3
  <1>5. cand \in Candidates /\ DOMAIN cand = DOMAIN d.cand
        /\ \A p \in DOMAIN d.cand \ pairs : cand[p] = d.cand[p]
    BY <1>2, <1>4 DEF Candidates
  <1> HIDE DEF cand
  <1>6. /\ x \in Db /\ x.occ = d.occ /\ x.ident = d.ident /\ x.cand = cand /\ x.barred = d.barred
        /\ x.rel = d.rel /\ x.listed = d.listed
    BY <1>5, NewCand
  <1> HIDE DEF x
  <1>7. Offered(x, keys)
    <2> SUFFICES ASSUME NEW p \in DOMAIN x.cand, Open(x, p), x.cand[p].key \notin keys
                 PROVE  x.cand[p].key \in x.listed
      BY DEF Offered
    <2>1. CASE p \in pairs
      <3>1. cand[p] = gone(p) /\ d.cand[p] \in Candidate
        BY <1>2, <1>5, <2>1 DEF cand
      <3>2. cand[p].status = "superseded"
        BY <3>1 DEF gone, Candidate
      <3> QED BY <1>6, <3>2 DEF Open, Identities!OpenStatuses
    <2>2. CASE p \notin pairs
      <3>1. x.cand[p] = d.cand[p] /\ p \in DOMAIN d.cand
        BY <1>5, <1>6, <2>2
      <3>2. Open(d, p)
        BY <1>6, <3>1 DEF Open, Identities!ActiveIdentity
      <3> QED BY <1>6, <3>1, <3>2 DEF Offered
    <2> QED BY <2>1, <2>2
  <1> HIDE DEF keys
  <1> QED BY <1>1, <1>5, <1>6, <1>7, GroupsHold

-----------------------------------------------------------------------------
(* A merge                                                                 *)

LEMMA LockIs ==
  ASSUME NEW s \in Seq(Identity), NEW k \in DOMAIN s, NEW w \in BOOLEAN,
         NEW t, t = Identities!LockedIf(w, s, k), NEW i \in DOMAIN s
  PROVE  /\ t \in Seq(Identity) /\ Len(t) = Len(s) /\ DOMAIN t = DOMAIN s
         /\ t[i].into = s[i].into
         /\ t[i].locked <=> (s[i].locked \/ (i = k /\ w))
  <1> DEFINE v == [s[k] EXCEPT !.locked = @ \/ w]
  <1>1. k \in 1..Len(s) /\ s[k] \in Identity
    OBVIOUS
  <1>2. v \in Identity /\ v.into = s[k].into /\ (v.locked <=> s[k].locked \/ w)
    BY <1>1 DEF Identity
  <1>3. t = [s EXCEPT ![k] = v]
    BY DEF Identities!LockedIf
  <1> HIDE DEF v
  <1>4. t \in Seq(Identity) /\ Len(t) = Len(s)
    BY <1>1, <1>2, <1>3, ExceptSeq
  <1>5. DOMAIN t = DOMAIN s /\ t[i] = IF i = k THEN v ELSE s[i]
    BY <1>1, <1>3
  <1> QED BY <1>2, <1>4, <1>5

LEMMA IntoIs ==
  ASSUME NEW s \in Seq(Identity), NEW k \in DOMAIN s, NEW n \in Nat,
         NEW t, t = [s EXCEPT ![k].into = n]
  PROVE  /\ t \in Seq(Identity) /\ Len(t) = Len(s) /\ DOMAIN t = DOMAIN s
         /\ \A i \in DOMAIN s : t[i].into = (IF i = k THEN n ELSE s[i].into)
              /\ t[i].locked = s[i].locked
  <1> DEFINE v == [s[k] EXCEPT !.into = n]
  <1>1. k \in 1..Len(s) /\ s[k] \in Identity
    OBVIOUS
  <1>2. v \in Identity /\ v.into = n /\ v.locked = s[k].locked
    BY <1>1 DEF Identity
  <1>3. t = [s EXCEPT ![k] = v]
    OBVIOUS
  <1> HIDE DEF v
  <1>4. t \in Seq(Identity) /\ Len(t) = Len(s)
    BY <1>1, <1>2, <1>3, ExceptSeq
  <1>5. DOMAIN t = DOMAIN s /\ \A i \in DOMAIN s : t[i] = IF i = k THEN v ELSE s[i]
    BY <1>1, <1>3
  <1> QED BY <1>2, <1>4, <1>5

\* The occurrences of the source are the target's, and so are its relations.
LEMMA MoveHolds ==
  ASSUME NEW d \in Db, NEW source \in DOMAIN d.ident, NEW target \in DOMAIN d.ident,
         source # target,
         Identities!ActiveIdentity(d, source), Identities!ActiveIdentity(d, target), Home(d),
           Forest(d),
         NEW e, e = Identities!MoveOccurrences(d, source, target)
  PROVE  /\ e \in Db /\ e.cand = d.cand /\ e.barred = d.barred /\ e.listed = d.listed
         /\ DOMAIN e.ident = DOMAIN d.ident /\ Len(e.ident) = Len(d.ident)
              /\ DOMAIN e.occ = DOMAIN d.occ
         /\ \A o \in DOMAIN d.occ :
              /\ e.occ[o].identity = IF d.occ[o].identity = source THEN target
                   ELSE d.occ[o].identity
              /\ e.occ[o].file = d.occ[o].file /\ e.occ[o].name = d.occ[o].name
         /\ \A i \in DOMAIN d.ident :
              /\ Identities!UserLocked(e, i) = Identities!UserLocked(d, i)
              /\ Identities!ActiveIdentity(e, i) <=> Identities!ActiveIdentity(d, i) /\ i # source
         /\ Home(e) /\ Forest(e)
         /\ Related(d, {}) => Related(e, {})
  <1> DEFINE with(r) == [r EXCEPT !.identity = target]
             occ == [o \in DOMAIN d.occ |-> IF d.occ[o].identity = source THEN with(d.occ[o])
                     ELSE d.occ[o]]
             rel == {IF r[2] = source THEN <<r[1], target>> ELSE r : r \in d.rel}
             ident == [d.ident EXCEPT ![source].into = target]
  <1>1. /\ d.occ \in Seq(Occurrence) /\ d.ident \in Seq(Identity)
             /\ d.rel \subseteq Documents \X Nat
        /\ source \in Nat /\ target \in Nat /\ target # 0
        /\ \A o \in DOMAIN d.occ : d.occ[o] \in Occurrence
    BY Fields
  <1>2. \A r \in Occurrence : /\ with(r) \in Occurrence /\ with(r).identity = target
                              /\ with(r).file = r.file /\ with(r).name = r.name
                                   /\ with(r).active = r.active
    BY <1>1 DEF Occurrence
  <1> HIDE DEF with
  <1>3. /\ occ \in Seq(Occurrence) /\ DOMAIN occ = DOMAIN d.occ
        /\ \A o \in DOMAIN d.occ :
              /\ occ[o].identity = IF d.occ[o].identity = source THEN target ELSE d.occ[o].identity
              /\ occ[o].file = d.occ[o].file /\ occ[o].name = d.occ[o].name
              /\ occ[o].active = d.occ[o].active
    <2>1. \A o \in DOMAIN d.occ : occ[o]
            = (IF d.occ[o].identity = source THEN with(d.occ[o]) ELSE d.occ[o])
                                  /\ occ[o] \in Occurrence
      BY <1>1, <1>2
    <2>2. occ = [o \in DOMAIN d.occ |-> occ[o]]
      BY <2>1
    <2> HIDE DEF occ
    <2>3. occ \in Seq(Occurrence) /\ DOMAIN occ = DOMAIN d.occ
      BY <1>1, <2>1, <2>2, Mapped
    <2> QED BY <1>1, <1>2, <2>1, <2>3
  <1>4. rel \in SUBSET (Documents \X Nat)
    BY <1>1
  <1>5. /\ ident \in Seq(Identity) /\ Len(ident) = Len(d.ident) /\ DOMAIN ident = DOMAIN d.ident
        /\ \A i \in DOMAIN d.ident :
             /\ ident[i].into = (IF i = source THEN target ELSE d.ident[i].into)
                                     /\ ident[i].locked = d.ident[i].locked
    <2>1. ident = [d.ident EXCEPT ![source].into = target]
      OBVIOUS
    <2> HIDE DEF ident
    <2> QED BY <1>1, <2>1, IntoIs
  <1>6. e = [d EXCEPT !.occ = occ, !.rel = rel, !.ident = ident]
    BY DEF Identities!MoveOccurrences, with
  <1> HIDE DEF occ, rel, ident
  <1>7. /\ e \in Db /\ e.cand = d.cand /\ e.barred = d.barred /\ e.listed = d.listed
        /\ e.occ = occ /\ e.rel = rel /\ e.ident = ident
    BY <1>3, <1>4, <1>5, <1>6 DEF Db
  <1>8. \A i \in DOMAIN d.ident : /\ Identities!UserLocked(e, i) = Identities!UserLocked(d, i)
                                  /\ Identities!ActiveIdentity(e, i) <=>
                                       Identities!ActiveIdentity(d, i) /\ i # source
    BY <1>1, <1>5, <1>7 DEF Identities!UserLocked, Identities!ActiveIdentity
  <1>9. Home(e)
    BY ZenonT(40), <1>3, <1>5, <1>7, <1>8 DEF Home
  <1>10. Forest(e)
    <2>1. PICK h \in [DOMAIN d.ident -> 0..Cardinality(Inactive(d))] : Leads(d, h)
      BY DEF Forest
    <2> DEFINE n == Cardinality(Inactive(d))
               g == [x \in DOMAIN d.ident |-> IF x = source THEN 1
                     ELSE IF x \in Inactive(d) THEN h[x] + 1 ELSE 0]
    <2>2. Inactive(e) = Inactive(d) \cup {source} /\ source \notin Inactive(d)
      BY <1>5, <1>7, <1>8 DEF Inactive
    <2>3. IsFiniteSet(Inactive(d)) /\ n \in Nat
      <3>1. Inactive(d) \subseteq 1..Len(d.ident) /\ Len(d.ident) \in Nat
        BY Fields DEF Inactive
      <3>2. IsFiniteSet(1..Len(d.ident))
        BY <3>1, FS_Interval
      <3>3. IsFiniteSet(Inactive(d))
        BY <3>1, <3>2, FS_Subset
      <3> QED BY <3>3, FS_CardinalityType
    <2>4. Cardinality(Inactive(e)) = n + 1
      BY <2>2, <2>3, FS_AddElement
    <2> HIDE DEF n
    <2>5. \A x \in DOMAIN d.ident : h[x] \in 0..n
      BY <2>1 DEF n
    <2>6. g \in [DOMAIN d.ident -> 0..(n + 1)]
      BY <2>3, <2>5
    <2>7. ASSUME NEW i \in Inactive(e) PROVE e.ident[i].into \in DOMAIN d.ident
                   /\ g[e.ident[i].into] < g[i]
      <3>1. CASE i = source
        <4>1. e.ident[i].into = target /\ g[target] = 0 /\ g[source] = 1
          BY <1>5, <1>7, <3>1 DEF Inactive
        <4> QED BY <3>1, <4>1
      <3>2. CASE i # source
        <4> DEFINE y == d.ident[i].into
        <4>1. i \in Inactive(d) /\ i \in DOMAIN d.ident /\ e.ident[i].into = y
          BY <1>5, <1>7, <2>2, <3>2 DEF Inactive
        <4>2. y \in DOMAIN d.ident /\ h[y] < h[i]
          BY <2>1, <4>1 DEF Leads
        <4> HIDE DEF y
        <4>3. h[i] \in 0..n /\ h[y] \in 0..n /\ g[i] = h[i] + 1
          BY <2>5, <3>2, <4>1, <4>2
        <4>4. g[y] \in {0, 1, h[y] + 1} /\ h[i] >= 1
          BY <2>3, <4>2, <4>3
        <4> QED BY <2>3, <4>1, <4>2, <4>3, <4>4
      <3> QED BY <3>1, <3>2
    <2> HIDE DEF g
    <2> QED BY <1>5, <1>7, <2>4, <2>6, <2>7 DEF Forest, Leads
  <1>11. ASSUME Related(d, {}) PROVE Related(e, {})
    <2> SUFFICES ASSUME NEW f \in Documents, NEW i \in Nat
                 PROVE  <<f, i>> \in e.rel <=> \E o \in DOMAIN e.occ :
                          e.occ[o].active /\ e.occ[o].file = f /\ e.occ[o].identity = i
      BY DEF Related
    <2>1. \A j \in Nat : <<f, j>> \in d.rel <=> \E o \in DOMAIN d.occ :
                             d.occ[o].active /\ d.occ[o].file = f /\ d.occ[o].identity = j
      BY <1>11 DEF Related
    <2> DEFINE moved(r) == IF r[2] = source THEN <<r[1], target>> ELSE r
    <2>2. \A r \in d.rel : r[1] \in Documents /\ r[2] \in Nat /\ r = <<r[1], r[2]>>
      BY <1>1
    <2>3. ASSUME <<f, i>> \in rel
          PROVE  (i = target /\ <<f, source>> \in d.rel) \/ (i # source /\ <<f, i>> \in d.rel)
      <3>1. PICK r \in d.rel : <<f, i>> = moved(r)
        BY <2>3 DEF rel
      <3>2. CASE r[2] = source
        <4>1. f = r[1] /\ i = target
          BY <3>1, <3>2
        <4> QED BY <2>2, <3>2, <4>1
      <3>3. CASE r[2] # source
        <4>1. r = <<f, i>>
          BY <3>1, <3>3
        <4> QED BY <3>3, <4>1
      <3> QED BY <3>2, <3>3
    <2>4. ASSUME <<f, source>> \in d.rel PROVE <<f, target>> \in rel
      <3>1. moved(<<f, source>>) = <<f, target>>
        OBVIOUS
      <3> QED BY <2>4, <3>1 DEF rel
    <2>5. ASSUME <<f, i>> \in d.rel, i # source PROVE <<f, i>> \in rel
      <3>1. moved(<<f, i>>) = <<f, i>>
        BY <2>5
      <3> QED BY <2>5, <3>1 DEF rel
    <2> HIDE DEF moved
    <2> DEFINE has(j) == \E o \in DOMAIN d.occ :
                           d.occ[o].active /\ d.occ[o].file = f /\ d.occ[o].identity = j
               hasNow == \E o \in DOMAIN d.occ : occ[o].active /\ occ[o].file = f
                 /\ occ[o].identity = i
    <2>6. hasNow <=> (i = target /\ has(source)) \/ (i # source /\ has(i))
      BY <1>3
    <2>7. /\ <<f, source>> \in d.rel <=> has(source)
          /\ <<f, i>> \in d.rel <=> has(i)
      BY <1>1, <2>1
    <2>8. <<f, i>> \in rel <=>
            (i = target /\ <<f, source>> \in d.rel) \/ (i # source /\ <<f, i>> \in d.rel)
      BY <2>3, <2>4, <2>5
    <2> HIDE DEF has
    <2>9. <<f, i>> \in rel <=> hasNow
      BY <2>6, <2>7, <2>8
    <2> HIDE DEF rel, occ
    <2> QED BY <1>3, <1>7, <2>9
  <1> QED BY <1>3, <1>5, <1>7, <1>8, <1>9, <1>10, <1>11

\* What the source was kept apart from, the target is kept apart from.
LEMMA CopyHolds ==
  ASSUME NEW d \in Db, NEW source \in DOMAIN d.ident, NEW target \in DOMAIN d.ident,
         source # target,
         d.barred \subseteq Twos(d), NEW e, e = Identities!CopyConstraints(d, source, target)
  PROVE  /\ e \in Db /\ e.occ = d.occ /\ e.ident = d.ident /\ e.cand = d.cand
         /\ e.rel = d.rel /\ e.listed = d.listed /\ d.barred \subseteq e.barred
         /\ e.barred \subseteq Twos(d)
         /\ \A i \in DOMAIN d.ident \ {target} : {source, i} \in d.barred =>
              {target, i} \in e.barred
  <1> DEFINE theirs == {q \in d.barred : source \in q /\ target \notin q}
             copy(p) == {target, CHOOSE other \in p : other # source}
             now == d.barred \cup {copy(p) : p \in theirs}
  <1>1. ASSUME NEW p \in theirs
        PROVE  \E i \in DOMAIN d.ident \ {source, target} : p = {source, i} /\ copy(p) = {target, i}
    <2>1. PICK i, j \in DOMAIN d.ident : i # j /\ p = {i, j}
      BY DEF Twos
    <2>2. PICK k \in DOMAIN d.ident : k # source /\ k # target /\ p = {source, k}
      <3>1. CASE i = source
        BY <2>1, <3>1
      <3>2. CASE j = source
        BY <2>1, <3>2
      <3> QED BY <2>1, <3>1, <3>2
    <2>3. (CHOOSE other \in p : other # source) = k
      BY <2>2
    <2> QED BY <2>2, <2>3
  <1>2. now \subseteq Twos(d)
    <2>1. \A p \in theirs : copy(p) \in Twos(d)
      BY <1>1 DEF Twos
    <2> HIDE DEF copy
    <2> QED BY <2>1
  <1>3. now \in SUBSET SUBSET Nat
    <2>1. DOMAIN d.ident \subseteq Nat
      BY Fields
    <2> QED BY <1>2, <2>1 DEF Twos
  <1>4. e = [d EXCEPT !.barred = now]
    BY DEF Identities!CopyConstraints
  <1>5. ASSUME NEW i \in DOMAIN d.ident \ {target}, {source, i} \in d.barred
        PROVE  {target, i} \in now
    <2>1. {source, i} \in theirs
      BY <1>5
    <2>2. PICK k \in DOMAIN d.ident \ {source, target} :
            {source, i} = {source, k} /\ copy({source, i}) = {target, k}
      BY <1>1, <2>1
    <2>3. i = k \/ i = source
      BY <2>2
    <2>4. i # source
      BY <2>2
    <2>5. copy({source, i}) = {target, i}
      BY <2>2, <2>3, <2>4
    <2> HIDE DEF copy, theirs
    <2> QED BY <2>1, <2>5
  <1>6. d.barred \subseteq now
    OBVIOUS
  <1> HIDE DEF now
  <1> QED BY SMTT(20), <1>2, <1>3, <1>4, <1>5, <1>6, NewBarred

\* One of two identities has the occurrences of both, and what either was kept
\* apart from.
Joined(d, e, i, j, byUser) ==
  \E source, target \in {i, j} :
    /\ source # target
    /\ \A o \in DOMAIN d.occ :
         e.occ[o].identity = IF d.occ[o].identity = source THEN target ELSE d.occ[o].identity
    /\ \A k \in DOMAIN d.ident : Identities!UserLocked(e, k) <=>
         (Identities!UserLocked(d, k) \/ (k = target /\ byUser))
    /\ \A p \in d.barred : p # {i, j} => p \in e.barred
    /\ \A k \in DOMAIN d.ident \ {source, target} : {source, k} \in d.barred =>
         {target, k} \in e.barred

\* The same occurrences of the same files, with the same values, and as many
\* identities.
Same(d, e) ==
  /\ DOMAIN e.occ = DOMAIN d.occ /\ DOMAIN e.ident = DOMAIN d.ident /\ Len(e.ident) = Len(d.ident)
  /\ \A o \in DOMAIN d.occ : e.occ[o].file = d.occ[o].file /\ e.occ[o].name = d.occ[o].name

\* No identity comes back.
Fewer(d, e) == \A i \in DOMAIN d.ident : Identities!ActiveIdentity(e, i) =>
  Identities!ActiveIdentity(d, i)

LEMMA MergeHolds ==
  ASSUME NEW d \in Db, Home(d), Forest(d), Paired(d), Related(d, {}),
         NEW primary \in DOMAIN d.ident, NEW secondary \in DOMAIN d.ident, primary # secondary,
         Identities!ActiveIdentity(d, primary), Identities!ActiveIdentity(d, secondary), NEW byUser
           \in BOOLEAN,
         NEW e, e = Identities!Merge(d, primary, secondary, byUser)
  PROVE  /\ Tables(e) /\ Related(e, {}) /\ e.cand = d.cand /\ e.listed = d.listed
         /\ Same(d, e) /\ Fewer(d, e)
         /\ Joined(d, e, primary, secondary, byUser)
  <1> DEFINE target == IF byUser THEN primary ELSE Identities!Lower({primary, secondary})
             source == IF target = primary THEN secondary ELSE primary
             barred == IF byUser THEN d.barred \ {{target, source}} ELSE d.barred
             ident == Identities!LockedIf(byUser, d.ident, target)
             decided == Identities!Decided(d, source, target, byUser)
             x == Identities!CopyConstraints(decided, source, target)
             y == Identities!MoveOccurrences(x, source, target)
             fs == {d.occ[o].file : o \in Identities!Holding(d, source)}
  <1>1. /\ source \in {primary, secondary} /\ target \in {primary, secondary} /\ source # target
        /\ {source, target} = {primary, secondary}
    <2>1. Identities!Lower({primary, secondary}) \in {primary, secondary}
      <3>1. {primary, secondary} \in SUBSET Nat
        BY Fields
      <3> QED BY <3>1, LowerIn
    <2> QED BY <2>1
  <1>2. e = Identities!RefreshFiles(y, fs)
    <2>1. e = Identities!Only({Identities!RefreshFiles(v, fs) : v
                               \in {Identities!MoveOccurrences(u, source, target) : u \in {x}}})
      BY Zenon DEF Identities!Merge
    <2> HIDE DEF x, fs, source, target
    <2>2. {Identities!MoveOccurrences(u, source, target) : u \in {x}} = {y}
      OBVIOUS
    <2> HIDE DEF y
    <2>3. {Identities!RefreshFiles(v, fs) : v \in {y}} = {Identities!RefreshFiles(y, fs)}
      OBVIOUS
    <2> QED BY <2>1, <2>2, <2>3, OnlyIs
  <1> HIDE DEF target, source, fs
  <1>3. source \in DOMAIN d.ident /\ target \in DOMAIN d.ident
    BY <1>1
  <1>4. /\ ident \in Seq(Identity) /\ Len(ident) = Len(d.ident) /\ DOMAIN ident = DOMAIN d.ident
        /\ \A i \in DOMAIN d.ident :
             /\ ident[i].into = d.ident[i].into
             /\ ident[i].locked <=> (d.ident[i].locked \/ (i = target /\ byUser))
    <2>1. d.ident \in Seq(Identity) /\ target \in DOMAIN d.ident /\ byUser \in BOOLEAN
          /\ ident = Identities!LockedIf(byUser, d.ident, target)
      BY <1>3, Fields
    <2> HIDE DEF ident
    <2>2. ASSUME NEW i \in DOMAIN d.ident
          PROVE  /\ ident[i].into = d.ident[i].into
                 /\ ident[i].locked <=> (d.ident[i].locked \/ (i = target /\ byUser))
      BY <2>1, LockIs
    <2> QED BY <2>1, <2>2, LockIs
  <1>5. barred \in SUBSET SUBSET Nat /\ barred \subseteq Twos(d)
    <2>1. d.barred \subseteq SUBSET Nat
      BY Fields
    <2> QED BY <2>1 DEF Paired
  <1>6. \A p \in d.barred : p # {primary, secondary} => p \in barred
    BY <1>1
  <1>61. decided = [d EXCEPT !.barred = barred, !.ident = ident]
    BY DEF Identities!Decided
  <1> HIDE DEF ident, barred, decided
  <1>7. /\ decided \in Db /\ decided.occ = d.occ /\ decided.ident = ident /\ decided.cand = d.cand
        /\ decided.barred = barred /\ decided.rel = d.rel /\ decided.listed = d.listed
    BY <1>4, <1>5, <1>61 DEF Db
  <1>8. /\ \A i \in DOMAIN d.ident :
             /\ Identities!ActiveIdentity(decided, i) <=> Identities!ActiveIdentity(d, i)
             /\ Identities!UserLocked(decided, i) <=>
                  (Identities!UserLocked(d, i) \/ (i = target /\ byUser))
        /\ Home(decided) /\ Inactive(decided) = Inactive(d) /\ Twos(decided) = Twos(d)
    <2>1. \A i \in DOMAIN d.ident :
            /\ Identities!ActiveIdentity(decided, i) <=> Identities!ActiveIdentity(d, i)
            /\ Identities!UserLocked(decided, i) <=>
                 (Identities!UserLocked(d, i) \/ (i = target /\ byUser))
      BY <1>4, <1>7 DEF Identities!ActiveIdentity, Identities!UserLocked
    <2>2. Inactive(decided) = Inactive(d) /\ Twos(decided) = Twos(d)
      BY <1>4, <1>7, <2>1 DEF Inactive, Twos
    <2>3. Home(decided)
      BY <1>4, <1>7, <2>1 DEF Home
    <2> QED BY <2>1, <2>2, <2>3
  <1>9. Forest(decided)
    <2>1. PICK h \in [DOMAIN d.ident -> 0..Cardinality(Inactive(d))] : Leads(d, h)
      BY DEF Forest
    <2>2. \A i \in Inactive(d) : i \in DOMAIN d.ident /\ decided.ident[i].into = d.ident[i].into
      BY <1>4, <1>7 DEF Inactive
    <2>3. Leads(decided, h)
      BY <1>4, <1>7, <1>8, <2>1, <2>2 DEF Leads
    <2> QED BY <1>4, <1>7, <1>8, <2>1, <2>3 DEF Forest
  <1>10. Related(decided, {})
    BY <1>7, SameRelated
  <1>11. /\ x \in Db /\ x.occ = d.occ /\ x.ident = ident /\ x.cand = d.cand
         /\ x.rel = d.rel /\ x.listed = d.listed /\ barred \subseteq x.barred
              /\ x.barred \subseteq Twos(d)
         /\ \A i \in DOMAIN d.ident \ {target} : {source, i} \in barred => {target, i} \in x.barred
    <2>1. decided.barred \subseteq Twos(decided) /\ DOMAIN decided.ident = DOMAIN d.ident
      BY <1>4, <1>5, <1>7, <1>8
    <2>2. x = Identities!CopyConstraints(decided, source, target)
      BY DEF x
    <2>3. source \in DOMAIN decided.ident /\ target \in DOMAIN decided.ident /\ source # target
      BY <1>1, <1>3, <2>1
    <2> HIDE DEF x
    <2>4. /\ x \in Db /\ x.occ = decided.occ /\ x.ident = decided.ident /\ x.cand = decided.cand
          /\ x.rel = decided.rel /\ x.listed = decided.listed /\ decided.barred \subseteq x.barred
          /\ x.barred \subseteq Twos(decided)
      BY <1>7, <2>1, <2>2, <2>3, CopyHolds
    <2>5. \A i \in DOMAIN decided.ident \ {target} : {source, i} \in decided.barred =>
            {target, i} \in x.barred
      BY <1>7, <2>1, <2>2, <2>3, CopyHolds, Zenon
    <2> QED BY <1>7, <1>8, <2>1, <2>4, <2>5
  <1> HIDE DEF x
  <1>12. /\ Home(x) /\ Forest(x) /\ Related(x, {})
         /\ \A i : Identities!ActiveIdentity(x, i) = Identities!ActiveIdentity(decided, i)
              /\ Identities!UserLocked(x, i) = Identities!UserLocked(decided, i)
    <2>1. x.occ = decided.occ /\ x.ident = decided.ident /\ x.rel = decided.rel
      BY <1>7, <1>11
    <2>2. Related(x, {})
      BY <1>10, <2>1, SameRelated
    <2> QED BY <1>8, <1>9, <2>1, <2>2, SameTables
  <1>13. source \in DOMAIN x.ident /\ target \in DOMAIN x.ident
         /\ Identities!ActiveIdentity(x, source) /\ Identities!ActiveIdentity(x, target)
    BY <1>1, <1>3, <1>4, <1>8, <1>11, <1>12
  <1>14. /\ y \in Db /\ y.cand = x.cand /\ y.barred = x.barred /\ y.listed = x.listed
         /\ DOMAIN y.ident = DOMAIN x.ident /\ Len(y.ident) = Len(x.ident)
              /\ DOMAIN y.occ = DOMAIN x.occ
         /\ \A o \in DOMAIN x.occ :
              /\ y.occ[o].identity = IF x.occ[o].identity = source THEN target
                   ELSE x.occ[o].identity
              /\ y.occ[o].file = x.occ[o].file /\ y.occ[o].name = x.occ[o].name
         /\ \A i \in DOMAIN x.ident :
              /\ Identities!UserLocked(y, i) = Identities!UserLocked(x, i)
              /\ Identities!ActiveIdentity(y, i) <=> Identities!ActiveIdentity(x, i) /\ i # source
         /\ Home(y) /\ Forest(y) /\ Related(y, {})
    BY <1>1, <1>11, <1>12, <1>13, MoveHolds
  <1> HIDE DEF y
  <1>15. Related(y, fs)
    BY <1>14, SameRelated
  <1>16. /\ e \in Db /\ e.occ = y.occ /\ e.ident = y.ident /\ e.cand = y.cand
         /\ e.barred = y.barred /\ e.listed = y.listed /\ Related(e, {})
    BY <1>2, <1>14, <1>15, FilesHold
  <1>17. /\ Home(e) /\ Forest(e)
         /\ \A i : Identities!ActiveIdentity(e, i) = Identities!ActiveIdentity(y, i)
              /\ Identities!UserLocked(e, i) = Identities!UserLocked(y, i)
    BY <1>14, <1>16, SameTables
  <1>18. /\ DOMAIN e.ident = DOMAIN d.ident /\ Len(e.ident) = Len(d.ident)
              /\ DOMAIN e.occ = DOMAIN d.occ
         /\ e.cand = d.cand /\ e.listed = d.listed /\ e.barred = x.barred
    BY <1>4, <1>11, <1>14, <1>16
  <1>19. Paired(e)
    BY <1>11, <1>18 DEF Paired, Twos
  <1>20. \A o \in DOMAIN d.occ :
           /\ e.occ[o].file = d.occ[o].file /\ e.occ[o].name = d.occ[o].name
           /\ e.occ[o].identity = IF d.occ[o].identity = source THEN target ELSE d.occ[o].identity
    BY <1>11, <1>14, <1>16
  <1>21. \A i \in DOMAIN d.ident :
           /\ Identities!ActiveIdentity(e, i) => Identities!ActiveIdentity(d, i)
           /\ Identities!UserLocked(e, i) <=>
                Identities!UserLocked(d, i) \/ (i = target /\ byUser)
    BY <1>4, <1>8, <1>11, <1>12, <1>14, <1>17
  <1>22. /\ \A p \in d.barred : p # {primary, secondary} => p \in e.barred
         /\ \A i \in DOMAIN d.ident \ {source, target} : {source, i} \in d.barred =>
              {target, i} \in e.barred
    <2>1. ASSUME NEW i \in DOMAIN d.ident \ {source, target}, {source, i} \in d.barred
          PROVE  {target, i} \in e.barred
      <3>1. {source, i} # {primary, secondary}
        BY <1>1
      <3> QED BY <1>6, <1>11, <1>18, <2>1, <3>1
    <2> QED BY <1>6, <1>11, <1>18, <2>1
  <1>23. Joined(d, e, primary, secondary, byUser)
    <2>1. source \in {primary, secondary} /\ target \in {primary, secondary}
      BY <1>1
    <2>2. /\ source # target
          /\ \A o \in DOMAIN d.occ :
               e.occ[o].identity = IF d.occ[o].identity = source THEN target ELSE d.occ[o].identity
          /\ \A k \in DOMAIN d.ident : Identities!UserLocked(e, k) <=>
               (Identities!UserLocked(d, k) \/ (k = target /\ byUser))
          /\ \A p \in d.barred : p # {primary, secondary} => p \in e.barred
          /\ \A k \in DOMAIN d.ident \ {source, target} : {source, k} \in d.barred =>
               {target, k} \in e.barred
      BY <1>1, <1>20, <1>21, <1>22, Zenon
    <2> QED BY <2>1, <2>2, Zenon DEF Joined
  <1>24. Tables(e)
    BY <1>16, <1>17, <1>19 DEF Tables
  <1>25. Same(d, e)
    BY <1>18, <1>20, Zenon DEF Same
  <1>26. Fewer(d, e)
    BY <1>21, Zenon DEF Fewer
  <1> QED BY <1>16, <1>18, <1>23, <1>24, <1>25, <1>26, Zenon

-----------------------------------------------------------------------------
(* The synchronisation of a file                                           *)

\* The identities that there were are there, as they were.
Keeps(d, e) == \A i \in DOMAIN d.ident : i \in DOMAIN e.ident /\ e.ident[i] = d.ident[i]

LEMMA AddHolds ==
  ASSUME NEW d, Tables(d), Offered(d, {}), NEW locked \in BOOLEAN, NEW e,
         e = Identities!WithIdentity(d, locked)
  PROVE  /\ Tables(e) /\ Offered(e, {})
         /\ e.occ = d.occ /\ e.cand = d.cand /\ e.barred = d.barred /\ e.rel = d.rel
              /\ e.listed = d.listed
         /\ Len(e.ident) = Len(d.ident) + 1
              /\ DOMAIN e.ident = DOMAIN d.ident \cup {Len(d.ident) + 1}
         /\ Len(d.ident) + 1 \notin DOMAIN d.ident
         /\ Keeps(d, e)
         /\ Identities!ActiveIdentity(e, Len(d.ident) + 1)
              /\ Identities!UserLocked(e, Len(d.ident) + 1) = locked
  <1> DEFINE n == Len(d.ident)
             new == [into |-> 0, locked |-> locked]
  <1>1. /\ d \in Db /\ Home(d) /\ Forest(d) /\ Paired(d)
        /\ d.ident \in Seq(Identity) /\ n \in Nat /\ DOMAIN d.ident = 1..n
    BY Fields DEF Tables
  <1>2. new \in Identity
    BY DEF Identity
  <1>3. /\ Append(d.ident, new) \in Seq(Identity) /\ Len(Append(d.ident, new)) = n + 1
        /\ Append(d.ident, new)[n + 1] = new /\ \A i \in 1..n : Append(d.ident, new)[i] = d.ident[i]
        /\ DOMAIN Append(d.ident, new) = 1..(n + 1)
    <2> HIDE DEF new
    <2> QED BY <1>1, <1>2, AppendProperties
  <1>4. /\ e \in Db /\ e.occ = d.occ /\ e.ident = Append(d.ident, new) /\ e.cand = d.cand
        /\ e.barred = d.barred /\ e.rel = d.rel /\ e.listed = d.listed
    <2> DEFINE x == Append(d.ident, new)
    <2>1. e = [d EXCEPT !.ident = x]
      BY DEF Identities!WithIdentity
    <2>2. x \in Seq(Identity)
      BY <1>3
    <2> HIDE DEF new, x
    <2>3. /\ e \in Db /\ e.occ = d.occ /\ e.ident = x /\ e.cand = d.cand
          /\ e.barred = d.barred /\ e.rel = d.rel /\ e.listed = d.listed
      BY <1>1, <2>1, <2>2, NewIdent
    <2> QED BY <2>3 DEF x
  <1>5. /\ DOMAIN e.ident = DOMAIN d.ident \cup {n + 1} /\ n + 1 \notin DOMAIN d.ident
        /\ Len(e.ident) = n + 1
        /\ \A i \in DOMAIN d.ident : e.ident[i] = d.ident[i]
    BY <1>1, <1>3, <1>4
  <1>6. Identities!ActiveIdentity(e, n + 1) /\ Identities!UserLocked(e, n + 1) = locked
        /\ \A i \in DOMAIN d.ident : Identities!ActiveIdentity(e, i)
             = Identities!ActiveIdentity(d, i)
    BY <1>3, <1>4, <1>5 DEF Identities!ActiveIdentity, Identities!UserLocked
  <1> HIDE DEF n, new
  <1>7. Inactive(e) = Inactive(d)
    BY <1>5, <1>6 DEF Inactive
  <1>8. Home(e)
    BY <1>1, <1>4, <1>5, <1>6 DEF Home
  <1>9. Forest(e)
    <2>1. PICK h \in [DOMAIN d.ident -> 0..Cardinality(Inactive(d))] : Leads(d, h)
      BY <1>1 DEF Forest
    <2> DEFINE g == [i \in DOMAIN e.ident |-> IF i \in DOMAIN d.ident THEN h[i] ELSE 0]
    <2>2. Cardinality(Inactive(d)) \in Nat
      <3>1. Inactive(d) \subseteq 1..n
        BY <1>1 DEF Inactive
      <3>2. IsFiniteSet(Inactive(d))
        BY <1>1, <3>1, FS_Interval, FS_Subset
      <3> QED BY <3>2, FS_CardinalityType
    <2>3. g \in [DOMAIN e.ident -> 0..Cardinality(Inactive(e))]
      BY <1>7, <2>2
    <2>4. \A i \in Inactive(d) : /\ i \in DOMAIN d.ident /\ d.ident[i].into \in DOMAIN d.ident
                                 /\ h[d.ident[i].into] < h[i]
      BY <2>1 DEF Leads, Inactive
    <2>5. \A i \in DOMAIN d.ident : i \in DOMAIN e.ident /\ g[i] = h[i]
      BY <1>5
    <2> HIDE DEF g
    <2>6. Leads(e, g)
      BY <1>5, <1>7, <2>4, <2>5 DEF Leads
    <2> QED BY <2>3, <2>6 DEF Forest
  <1>10. Paired(e)
    BY <1>1, <1>4, <1>5 DEF Paired, Twos
  <1>11. Offered(e, {})
    <2>1. \A p \in DOMAIN d.cand : p \subseteq DOMAIN d.ident
      BY <1>1 DEF Paired, Twos
    <2>2. \A p \in DOMAIN d.cand : Open(e, p) => Open(d, p)
      BY <1>4, <1>6, <2>1 DEF Open
    <2> QED BY <1>4, <2>2 DEF Offered
  <1>12. Keeps(d, e)
    BY <1>5 DEF Keeps
  <1> QED BY <1>1, <1>4, <1>5, <1>6, <1>8, <1>9, <1>10, <1>11, <1>12 DEF Tables, n

\* Tables that differ in what was superseded only.
LEMMA SupersedeTables ==
  ASSUME NEW d, Tables(d), Offered(d, {}), NEW pairs \in SUBSET DOMAIN d.cand, NEW e,
         e = Identities!Supersede(d, pairs)
  PROVE  /\ Tables(e) /\ Offered(e, {}) /\ e.occ = d.occ /\ e.ident = d.ident
         /\ e.barred = d.barred /\ e.rel = d.rel
  <1>1. d \in Db /\ Home(d) /\ Forest(d) /\ Paired(d)
    BY DEF Tables
  <1>2. /\ e \in Db /\ e.occ = d.occ /\ e.ident = d.ident /\ DOMAIN e.cand = DOMAIN d.cand
        /\ e.barred = d.barred /\ e.rel = d.rel /\ Offered(e, {})
    BY <1>1, SupersedeHolds
  <1>3. Home(e) /\ Forest(e) /\ Twos(e) = Twos(d)
    BY <1>1, <1>2, SameTables
  <1> QED BY <1>1, <1>2, <1>3 DEF Tables, Paired

\* A row keeps its identity, or its value is a new one and it leaves an
\* identity that is not locked for a new one.
Leaves(d, k, f, e, i) ==
  /\ i = Len(d.ident) + 1 /\ Len(e.ident) = Len(d.ident) + 1
  /\ DOMAIN e.ident = DOMAIN d.ident \cup {i} /\ i \notin DOMAIN d.ident
  /\ Keeps(d, e) /\ Identities!ActiveIdentity(e, i)
  /\ d.occ[k].name # Identities!EffectiveName(f) /\ ~ Identities!UserLocked(d, d.occ[k].identity)
Stays(d, k, e, i) == e.ident = d.ident /\ i = d.occ[k].identity

LEMMA DetachHolds ==
  ASSUME NEW d, Tables(d), Offered(d, {}), Len(d.ident) <= MaxIdentities, MaxIdentities \in Nat,
         NEW k \in DOMAIN d.occ, NEW f, NEW r, r = Identities!Detach(d, f, k)
  PROVE  /\ Tables(r.db) /\ Offered(r.db, {}) /\ r.db.occ = d.occ
         /\ r.db.barred = d.barred /\ r.db.rel = d.rel
         /\ Stays(d, k, r.db, r.identity) \/ Leaves(d, k, f, r.db, r.identity)
  <1> DEFINE i == d.occ[k].identity
             changed == d.occ[k].name # Identities!EffectiveName(f) /\ ~ Identities!UserLocked(d, i)
             s == IF changed THEN Identities!SupersedeOf(d, i) ELSE d
             leaves == changed /\ Identities!ActiveHolding(d, i) \ {k} # {}
             n == Len(d.ident)
  <1>1. d \in Db /\ Forest(d) /\ i \in DOMAIN d.ident /\ Identities!ActiveIdentity(d, i)
    BY DEF Tables, Home
  <1>2. Identities!Canonical(d, i) = i
    BY <1>1, CanonicalIs
  <1>3. r = IF leaves THEN [db |-> Identities!WithIdentity(s, FALSE), identity |-> n + 1]
            ELSE [db |-> s, identity |-> i]
    BY <1>2 DEF Identities!Detach
  <1>4. /\ Tables(s) /\ Offered(s, {}) /\ s.occ = d.occ /\ s.ident = d.ident
        /\ s.barred = d.barred /\ s.rel = d.rel
    <2>1. CASE changed
      <3>1. s = Identities!Supersede(d,
                                     {p \in DOMAIN d.cand : i \in p
                                      /\ d.cand[p].status \in Identities!OpenStatuses})
        BY <2>1 DEF Identities!SupersedeOf
      <3> HIDE DEF s, i
      <3> QED BY <3>1, SupersedeTables
    <2>2. CASE ~ changed
      BY <2>2
    <2> QED BY <2>1, <2>2
  <1>5. leaves => d.occ[k].name # Identities!EffectiveName(f)
          /\ ~ Identities!UserLocked(d, d.occ[k].identity)
    OBVIOUS
  <1>6. i = d.occ[k].identity /\ n = Len(d.ident)
    OBVIOUS
  <1> HIDE DEF s, leaves, i, n
  <1>7. CASE leaves
    <2> DEFINE e == r.db
    <2>1. e = Identities!WithIdentity(s, FALSE) /\ r.identity = n + 1
      BY <1>3, <1>7
    <2> HIDE DEF e
    <2>2. Tables(e) /\ Offered(e, {})
      BY <1>4, <2>1, AddHolds
    <2>3. e.occ = s.occ /\ e.barred = s.barred /\ e.rel = s.rel
      BY <1>4, <2>1, AddHolds
    <2>4. /\ Len(e.ident) = Len(s.ident) + 1
               /\ DOMAIN e.ident = DOMAIN s.ident \cup {Len(s.ident) + 1}
          /\ Len(s.ident) + 1 \notin DOMAIN s.ident
          /\ Keeps(s, e) /\ Identities!ActiveIdentity(e, Len(s.ident) + 1)
      BY <1>4, <2>1, AddHolds
    <2>5. Leaves(d, k, f, e, r.identity)
      BY <1>4, <1>5, <1>6, <1>7, <2>1, <2>4 DEF Leaves, Keeps
    <2> QED BY <1>4, <2>2, <2>3, <2>5 DEF e
  <1>8. CASE ~ leaves
    <2>1. r.db = s /\ r.identity = i
      BY <1>3, <1>8
    <2> QED BY <1>4, <1>6, <2>1 DEF Stays
  <1> QED BY <1>7, <1>8

\* A file has a row for its value.
Valued(d, f) == \E o \in DOMAIN d.occ : d.occ[o].file = f
  /\ d.occ[o].name = Identities!EffectiveName(f)

\* The rows are kept; that of the file may get its value, and then an identity
\* that is new, unless the user locked the one it has.
Carried(d, e, f) ==
  \A o \in DOMAIN d.occ :
    /\ o \in DOMAIN e.occ /\ e.occ[o].file = d.occ[o].file
    /\ e.occ[o].name = d.occ[o].name
         \/ (d.occ[o].file = f /\ e.occ[o].name = Identities!EffectiveName(f))
    /\ \/ e.occ[o].identity = d.occ[o].identity
       \/ /\ e.occ[o].name # d.occ[o].name /\ ~ Identities!UserLocked(d, d.occ[o].identity)
          /\ e.occ[o].identity \notin DOMAIN d.ident

\* An identity is added for a file that has no row for its value.
Grown(d, e, f) ==
  Len(e.ident) = Len(d.ident) \/ (Len(e.ident) = Len(d.ident) + 1 /\ ~ Valued(d, f))

\* The rows of the other files are the same.
Elsewhere(d, e, f) ==
  \A o : /\ o \in DOMAIN d.occ /\ d.occ[o].file # f => o \in DOMAIN e.occ /\ e.occ[o] = d.occ[o]
         /\ o \in DOMAIN e.occ /\ e.occ[o].file # f => o \in DOMAIN d.occ /\ e.occ[o] = d.occ[o]

LEMMA ElsewhereRelated ==
  ASSUME NEW d, NEW e, NEW f, e.rel = d.rel, Elsewhere(d, e, f), Related(d, {})
  PROVE  Related(e, {f})
  <1> SUFFICES ASSUME NEW g \in Documents \ {f}, NEW i \in Nat
               PROVE  <<g, i>> \in e.rel <=> \E o \in DOMAIN e.occ :
                        e.occ[o].active /\ e.occ[o].file = g /\ e.occ[o].identity = i
    BY DEF Related
  <1>1. <<g, i>> \in d.rel <=> \E o \in DOMAIN d.occ :
          d.occ[o].active /\ d.occ[o].file = g /\ d.occ[o].identity = i
    BY DEF Related
  <1>2. ASSUME NEW o \in DOMAIN d.occ,
               d.occ[o].file = g PROVE o \in DOMAIN e.occ /\ e.occ[o] = d.occ[o]
    BY <1>2 DEF Elsewhere
  <1>3. ASSUME NEW o \in DOMAIN e.occ,
               e.occ[o].file = g PROVE o \in DOMAIN d.occ /\ e.occ[o] = d.occ[o]
    BY <1>3 DEF Elsewhere
  <1> QED BY <1>1, <1>2, <1>3

LEMMA ExistingIs ==
  ASSUME NEW d \in Db, NEW f, NEW k, k = Identities!Existing(d, f)
  PROVE  /\ k = 0 \/ (k \in DOMAIN d.occ /\ d.occ[k].file = f)
         /\ k = 0 \/ d.occ[k].name # Identities!EffectiveName(f) => ~ Valued(d, f)
         /\ Valued(d, f) => k \in DOMAIN d.occ
         /\ 0 \notin DOMAIN d.occ
  <1> DEFINE byKey == {o \in DOMAIN d.occ : d.occ[o].file = f
                       /\ d.occ[o].name = Identities!EffectiveName(f)}
             byField == {o \in DOMAIN d.occ : d.occ[o].file = f
                         /\ d.occ[o].field = analysis[f].number}
  <1>1. DOMAIN d.occ = 1..Len(d.occ) /\ Len(d.occ) \in Nat
    BY Fields
  <1>2. byKey \in SUBSET Nat /\ byField \in SUBSET Nat /\ 0 \notin DOMAIN d.occ
    BY <1>1
  <1>3. k = IF byKey # {} THEN Identities!Lower(byKey)
          ELSE IF byField # {} THEN Identities!Lower(byField) ELSE 0
    BY DEF Identities!Existing
  <1>4. Valued(d, f) <=> byKey # {}
    BY DEF Valued
  <1>5. byKey # {} => k \in byKey
    <2> HIDE DEF byKey, byField
    <2> QED BY <1>2, <1>3, LowerIn
  <1>6. byKey = {} => k = 0 \/ k \in byField
    <2> HIDE DEF byKey, byField
    <2> QED BY <1>2, <1>3, LowerIn
  <1> QED BY <1>2, <1>4, <1>5, <1>6

LEMMA RowType ==
  ASSUME Identities!IdentityAssumption, Inputs, NEW f \in DOMAIN analysis, NEW i \in Nat
  PROVE  /\ Identities!Row(f, i) \in Occurrence /\ Identities!Row(f, i).file = f
              /\ Identities!Row(f, i).name = Identities!EffectiveName(f)
         /\ Identities!Row(f, i).identity = i /\ Identities!Row(f, i).active /\ f \in Documents
  <1>1. f \in Documents /\ analysis[f] \in [number : Nat, name : Identities!Names, ids : SUBSET Nat]
        /\ corrected[f] \in Identities!Names \cup {Identities!NoName}
    BY DEF Inputs
  <1>2. Identities!EffectiveName(f) \in Identities!Names
    BY <1>1 DEF Identities!EffectiveName
  <1> HIDE DEF Identities!EffectiveName
  <1> QED BY <1>1, <1>2 DEF Identities!Row, Occurrence

LEMMA RetiredHolds ==
  ASSUME NEW d, Tables(d), Offered(d, {}), NEW f, NEW e, e = Identities!Retired(d, f)
  PROVE  /\ Tables(e) /\ Offered(e, {}) /\ e.ident = d.ident /\ e.barred = d.barred /\ e.rel = d.rel
         /\ DOMAIN e.occ = DOMAIN d.occ /\ Elsewhere(d, e, f)
         /\ \A o \in DOMAIN d.occ : /\ e.occ[o].file = d.occ[o].file
              /\ e.occ[o].name = d.occ[o].name
                                    /\ e.occ[o].identity = d.occ[o].identity
  <1>1. /\ d \in Db /\ Home(d) /\ Forest(d) /\ Paired(d)
        /\ d.occ \in Seq(Occurrence) /\ \A o \in DOMAIN d.occ : d.occ[o] \in Occurrence
    BY Fields DEF Tables
  <1> DEFINE x == [o \in DOMAIN d.occ |-> IF d.occ[o].file = f
                   /\ d.occ[o].name # Identities!EffectiveName(f)
                                          THEN [d.occ[o] EXCEPT !.active = FALSE] ELSE d.occ[o]]
  <1>2. e = [d EXCEPT !.occ = x]
    BY DEF Identities!Retired
  <1>3. ASSUME NEW o \in DOMAIN d.occ
        PROVE  /\ x[o] \in Occurrence /\ x[o].file = d.occ[o].file /\ x[o].name = d.occ[o].name
               /\ x[o].identity = d.occ[o].identity /\ (x[o].file # f => x[o] = d.occ[o])
    BY <1>1 DEF Occurrence
  <1>4. x = [k \in DOMAIN d.occ |-> x[k]]
    OBVIOUS
  <1> HIDE DEF x
  <1>5. x \in Seq(Occurrence) /\ DOMAIN x = DOMAIN d.occ
    BY <1>1, <1>3, <1>4, Mapped
  <1>6. /\ e \in Db /\ e.occ = x /\ e.ident = d.ident /\ e.cand = d.cand /\ e.barred = d.barred
        /\ e.rel = d.rel /\ e.listed = d.listed
    BY <1>1, <1>2, <1>5, NewOcc
  <1>7. /\ DOMAIN e.occ = DOMAIN d.occ /\ Elsewhere(d, e, f)
        /\ \A o \in DOMAIN d.occ : /\ e.occ[o].file = d.occ[o].file /\ e.occ[o].name = d.occ[o].name
                                   /\ e.occ[o].identity = d.occ[o].identity
    BY <1>3, <1>5, <1>6 DEF Elsewhere
  <1>8. Forest(e) /\ Twos(e) = Twos(d)
          /\ \A i : Identities!ActiveIdentity(e, i) = Identities!ActiveIdentity(d, i)
    BY <1>1, <1>6, SameIdentities
  <1>9. Home(e) /\ Paired(e)
    BY <1>1, <1>6, <1>7, <1>8 DEF Home, Paired
  <1>10. Offered(e, {})
    BY <1>6, SameOffered
  <1> QED BY <1>6, <1>7, <1>8, <1>9, <1>10 DEF Tables

\* A table of occurrences in which a row is written or added.
Written(d, x, k, row) ==
  /\ DOMAIN x = DOMAIN d.occ \cup {k} /\ x[k] = row
  /\ \A o \in DOMAIN d.occ : o # k => x[o] = d.occ[o]

LEMMA RowHolds ==
  ASSUME Identities!IdentityAssumption, Inputs, NEW f \in DOMAIN analysis,
         NEW d, Tables(d), Offered(d, {}), NEW i
           \in DOMAIN d.ident, Identities!ActiveIdentity(d, i),
         NEW k \in 1..(Len(d.occ) + 1), k \in DOMAIN d.occ => d.occ[k].file = f,
         NEW x \in Seq(Occurrence), Written(d, x, k, Identities!Row(f, i)), NEW e, e
           = [d EXCEPT !.occ = x]
  PROVE  /\ Tables(e) /\ Offered(e, {}) /\ e.ident = d.ident /\ e.barred = d.barred /\ e.rel = d.rel
         /\ e.occ = x /\ Valued(e, f) /\ Elsewhere(d, e, f)
  <1>1. /\ d \in Db /\ Home(d) /\ Forest(d) /\ Paired(d) /\ i \in Nat
    BY Fields DEF Tables
  <1>2. /\ e \in Db /\ e.occ = x /\ e.ident = d.ident /\ e.cand = d.cand /\ e.barred = d.barred
        /\ e.rel = d.rel /\ e.listed = d.listed
    BY <1>1, NewOcc
  <1>3. x[k].file = f /\ x[k].name = Identities!EffectiveName(f) /\ x[k].identity = i
    BY <1>1, RowType DEF Written
  <1>4. Forest(e) /\ Twos(e) = Twos(d)
          /\ \A j : Identities!ActiveIdentity(e, j) = Identities!ActiveIdentity(d, j)
    BY <1>1, <1>2, SameIdentities
  <1>5. Paired(e) /\ Offered(e, {})
    BY <1>1, <1>2, <1>4, SameOffered DEF Paired
  <1>6. Home(e)
    BY <1>1, <1>2, <1>3, <1>4 DEF Home, Written
  <1>7. Valued(e, f)
    BY <1>2, <1>3 DEF Valued, Written
  <1>8. Elsewhere(d, e, f)
    BY <1>2, <1>3 DEF Elsewhere, Written
  <1> QED BY <1>2, <1>4, <1>5, <1>6, <1>7, <1>8 DEF Tables

\* What SYNCHRONIZE leaves: the tables are sound but for the relations of the
\* file.
LEMMA ObservedHolds ==
  ASSUME Identities!IdentityAssumption, Inputs, NEW f \in DOMAIN analysis,
         NEW d, Tables(d), Offered(d, {}), Len(d.ident) <= MaxIdentities,
         NEW e, e = Identities!Observed(d, f)
  PROVE  /\ Tables(e) /\ Offered(e, {}) /\ e.barred = d.barred /\ e.rel = d.rel
         /\ Keeps(d, e) /\ Carried(d, e, f) /\ Valued(e, f) /\ Grown(d, e, f) /\ Elsewhere(d, e, f)
  <1> DEFINE k == Identities!Existing(d, f)
             n == Len(d.ident)
             m == Len(d.occ)
  <1>1. /\ d \in Db /\ d.occ \in Seq(Occurrence) /\ DOMAIN d.occ = 1..m /\ m \in Nat
        /\ DOMAIN d.ident = 1..n /\ n \in Nat /\ MaxIdentities \in Nat
    BY Fields DEF Tables, Identities!IdentityAssumption
  <1>2. /\ k = 0 \/ (k \in DOMAIN d.occ /\ d.occ[k].file = f)
        /\ k = 0 \/ d.occ[k].name # Identities!EffectiveName(f) => ~ Valued(d, f)
    BY <1>1, ExistingIs
  <1>3. n = Len(d.ident) /\ m = Len(d.occ) /\ k = Identities!Existing(d, f)
    OBVIOUS
  <1> HIDE DEF k, n, m
  <1>4. CASE k = 0
    <2> DEFINE a == Identities!WithIdentity(d, FALSE)
               row == Identities!Row(f, n + 1)
               x == Append(d.occ, row)
    <2>1. a.occ = d.occ /\ Len(a.ident) = n + 1 /\ Tables(a) /\ Offered(a, {})
      BY <1>3, AddHolds
    <2>2. a.barred = d.barred /\ a.rel = d.rel /\ Keeps(d, a) /\ n + 1 \in DOMAIN a.ident
            /\ Identities!ActiveIdentity(a, n + 1)
      <3>1. DOMAIN a.ident = DOMAIN d.ident \cup {n + 1} /\ Identities!ActiveIdentity(a, n + 1)
        BY <1>3, AddHolds
      <3>2. a.barred = d.barred /\ a.rel = d.rel /\ Keeps(d, a)
        BY AddHolds
      <3> HIDE DEF a
      <3> QED BY <3>1, <3>2
    <2>3. e = [a EXCEPT !.occ = x]
      <3>1. e = [a EXCEPT !.occ = Append(@, Identities!Row(f, Len(a.ident)))]
        BY <1>3, <1>4 DEF Identities!Observed
      <3> HIDE DEF a
      <3> QED BY <2>1, <3>1 DEF x, row
    <2>4. row \in Occurrence
      BY <1>1, RowType
    <2> HIDE DEF a, row
    <2>5. /\ x \in Seq(Occurrence) /\ DOMAIN x = 1..(m + 1) /\ x[m + 1] = row
          /\ \A o \in 1..m : x[o] = d.occ[o]
      BY <1>1, <1>3, <2>4, AppendProperties
    <2> HIDE DEF x
    <2>6. /\ m + 1 \in 1..(Len(a.occ) + 1) /\ m + 1 \notin DOMAIN a.occ
          /\ Written(a, x, m + 1, Identities!Row(f, n + 1))
      <3>1. a.occ = d.occ /\ DOMAIN a.occ = 1..m /\ Len(a.occ) = m /\ row = Identities!Row(f, n + 1)
        BY <1>1, <1>3, <2>1 DEF row
      <3> HIDE DEF row
      <3>2. 1..(m + 1) = 1..m \cup {m + 1} /\ m + 1 \notin 1..m /\ m + 1 \in 1..(m + 1)
        BY <1>1
      <3>3. \A o \in DOMAIN a.occ : x[o] = a.occ[o]
        BY <2>5, <3>1
      <3> QED BY <2>5, <3>1, <3>2, <3>3 DEF Written
    <2>7. /\ Tables(e) /\ Offered(e, {}) /\ e.ident = a.ident /\ e.barred = a.barred
               /\ e.rel = a.rel
          /\ e.occ = x /\ Valued(e, f) /\ Elsewhere(a, e, f)
      BY <2>1, <2>2, <2>3, <2>5, <2>6, RowHolds
    <2>8. Keeps(d, e) /\ Elsewhere(d, e, f)
      BY <2>1, <2>2, <2>7 DEF Keeps, Elsewhere
    <2>9. Grown(d, e, f)
      BY <1>2, <1>3, <1>4, <2>1, <2>7 DEF Grown
    <2>10. Carried(d, e, f)
      BY <1>1, <2>5, <2>7 DEF Carried
    <2> QED BY <2>2, <2>7, <2>8, <2>9, <2>10
  <1>5. CASE k # 0
    <2> DEFINE r == Identities!Detach(d, f, k)
               a == r.db
               i == r.identity
               row == Identities!Row(f, i)
               x == [d.occ EXCEPT ![k] = row]
    <2>1. k \in DOMAIN d.occ /\ d.occ[k].file = f
      BY <1>2, <1>5
    <2>2. /\ Tables(a) /\ Offered(a, {}) /\ a.occ = d.occ /\ a.barred = d.barred /\ a.rel = d.rel
          /\ Stays(d, k, a, i) \/ Leaves(d, k, f, a, i)
      BY <1>1, <2>1, DetachHolds
    <2>3. e = [a EXCEPT !.occ = x]
      <3>1. e = Identities!Only({[kept.db EXCEPT !.occ
                                  = [@ EXCEPT ![k] = Identities!Row(f, kept.identity)]] : kept
                                    \in {r}})
        BY <1>3, <1>5 DEF Identities!Observed
      <3> HIDE DEF r
      <3>2. e = [r.db EXCEPT !.occ = [@ EXCEPT ![k] = Identities!Row(f, r.identity)]]
        BY ZenonT(40), <3>1, OnlyIs
      <3> QED BY <2>2, <3>2
    <2> HIDE DEF r, a, i
    <2>4. i \in DOMAIN a.ident /\ Identities!ActiveIdentity(a, i) /\ Keeps(d, a)
      <3>1. CASE Stays(d, k, a, i)
        BY <2>1, <3>1 DEF Stays, Keeps, Tables, Home, Identities!ActiveIdentity
      <3>2. CASE Leaves(d, k, f, a, i)
        BY <3>2 DEF Leaves
      <3> QED BY <2>2, <3>1, <3>2
    <2>5. i \in Nat
      BY <2>2, <2>4, Fields DEF Tables
    <2>6. row \in Occurrence /\ row.file = f /\ row.name = Identities!EffectiveName(f)
            /\ row.identity = i
      BY <2>5, RowType
    <2>7. row = Identities!Row(f, i)
      OBVIOUS
    <2> HIDE DEF row
    <2>8. /\ x \in Seq(Occurrence) /\ DOMAIN x = 1..m /\ x[k] = row
          /\ \A o \in 1..m : o # k => x[o] = d.occ[o]
      BY <1>1, <2>1, <2>6
    <2> HIDE DEF x
    <2>9. k \in 1..(Len(a.occ) + 1) /\ Written(a, x, k, Identities!Row(f, i)) /\ a.occ[k].file = f
      BY <1>1, <1>3, <2>1, <2>2, <2>7, <2>8 DEF Written
    <2>10. /\ Tables(e) /\ Offered(e, {}) /\ e.ident = a.ident /\ e.barred = a.barred
                /\ e.rel = a.rel
           /\ e.occ = x /\ Valued(e, f) /\ Elsewhere(a, e, f)
      BY <2>2, <2>3, <2>4, <2>8, <2>9, RowHolds
    <2>11. Keeps(d, e) /\ Elsewhere(d, e, f)
      BY <2>2, <2>4, <2>10 DEF Keeps, Elsewhere
    <2>12. Grown(d, e, f) /\ Carried(d, e, f)
      <3>1. CASE Stays(d, k, a, i)
        BY SMTT(20), <1>1, <2>1, <2>6, <2>8, <2>10, <3>1 DEF Stays, Grown, Carried
      <3>2. CASE Leaves(d, k, f, a, i)
        BY SMTT(20), <1>1, <1>2, <2>1, <2>6, <2>8, <2>10, <3>2 DEF Leaves, Grown, Carried
      <3> QED BY <2>2, <3>1, <3>2
    <2> QED BY <2>2, <2>10, <2>11, <2>12
  <1> QED BY <1>4, <1>5

\* Synchronising a file leaves the tables sound.
LEMMA SynchronizedHolds ==
  ASSUME Identities!IdentityAssumption, Inputs, NEW f \in DOMAIN analysis,
         NEW d, Tables(d), Offered(d, {}), Related(d, {}), Len(d.ident) <= MaxIdentities,
         NEW e, e = Identities!Synchronized(d, f)
  PROVE  /\ Tables(e) /\ Offered(e, {}) /\ Related(e, {}) /\ e.barred = d.barred
         /\ Keeps(d, e) /\ Carried(d, e, f) /\ Valued(e, f) /\ Grown(d, e, f)
  <1> DEFINE r == Identities!Retired(d, f)
             x == Identities!Observed(r, f)
             y == Identities!SupersedeOrphans(x)
  <1>1. e = Identities!RefreshFiles(y, {f})
    BY OnlyIs DEF Identities!Synchronized
  <1>2. y = Identities!Supersede(x,
                                 {p \in DOMAIN x.cand :
                                  /\ x.cand[p].status \in Identities!OpenStatuses
                                                /\ \E i \in p : Identities!ActiveHolding(x, i)
                                                     = {}})
    BY DEF Identities!SupersedeOrphans
  <1>3. r = Identities!Retired(d, f) /\ x = Identities!Observed(r, f)
    OBVIOUS
  <1> HIDE DEF r, x, y
  <1>4. /\ Tables(r) /\ Offered(r, {}) /\ r.ident = d.ident /\ r.barred = d.barred /\ r.rel = d.rel
        /\ DOMAIN r.occ = DOMAIN d.occ /\ Elsewhere(d, r, f)
    BY <1>3, RetiredHolds
  <1>5. \A o \in DOMAIN d.occ : /\ r.occ[o].file = d.occ[o].file /\ r.occ[o].name = d.occ[o].name
                                /\ r.occ[o].identity = d.occ[o].identity
    BY <1>3, RetiredHolds
  <1>6. /\ Tables(x) /\ Offered(x, {}) /\ x.barred = r.barred /\ x.rel = r.rel
        /\ Keeps(r, x) /\ Carried(r, x, f) /\ Valued(x, f) /\ Grown(r, x, f) /\ Elsewhere(r, x, f)
    BY <1>3, <1>4, ObservedHolds
  <1>7. /\ Tables(y) /\ Offered(y, {}) /\ y.occ = x.occ /\ y.ident = x.ident
        /\ y.barred = x.barred /\ y.rel = x.rel
    BY <1>2, <1>6, SupersedeTables
  <1>8. Elsewhere(d, y, f)
    <2>1. Elsewhere(d, x, f)
      BY <1>4, <1>6 DEF Elsewhere
    <2> QED BY <1>7, <2>1 DEF Elsewhere
  <1>9. Related(y, {f})
    BY <1>4, <1>6, <1>7, <1>8, ElsewhereRelated
  <1>10. y \in Db /\ Home(y) /\ Forest(y) /\ Paired(y)
    BY <1>7 DEF Tables
  <1>11. /\ e \in Db /\ e.occ = y.occ /\ e.ident = y.ident /\ e.cand = y.cand
         /\ e.barred = y.barred /\ e.listed = y.listed /\ Related(e, {})
    BY <1>1, <1>9, <1>10, FilesHold
  <1>12. Home(e) /\ Forest(e) /\ Twos(e) = Twos(y)
    BY <1>10, <1>11, SameTables
  <1>13. Tables(e) /\ Offered(e, {})
    BY <1>7, <1>10, <1>11, <1>12, SameOffered DEF Tables, Paired
  <1>14. Keeps(d, e)
    BY <1>4, <1>6, <1>7, <1>11 DEF Keeps
  <1>15. Carried(d, e, f)
    <2>1. Carried(d, x, f)
      BY <1>4, <1>5, <1>6 DEF Carried, Identities!UserLocked
    <2> QED BY <1>7, <1>11, <2>1 DEF Carried
  <1>16. Valued(e, f) /\ Grown(d, e, f)
    <2>1. Valued(r, f) <=> Valued(d, f)
      BY <1>4, <1>5 DEF Valued
    <2> QED BY <1>4, <1>6, <1>7, <1>11, <2>1 DEF Valued, Grown
  <1> QED BY <1>4, <1>6, <1>7, <1>11, <1>13, <1>14, <1>15, <1>16

-----------------------------------------------------------------------------
(* What is kept apart                                                      *)

\* Two occurrences that are kept apart stay apart when identities that are not
\* theirs are merged.
LEMMA PartedStays ==
  ASSUME NEW d, Tables(d), NEW e, NEW i \in DOMAIN d.ident, NEW j \in DOMAIN d.ident,
         NEW byUser \in BOOLEAN,
         Joined(d, e, i, j, byUser), byUser
           \/ ~ (Identities!UserLocked(d, i) \/ Identities!UserLocked(d, j)),
         NEW o \in DOMAIN d.occ, NEW k \in DOMAIN d.occ, Parted(d, o, k),
         {d.occ[o].identity, d.occ[k].identity} # {i, j}
  PROVE  Parted(e, o, k)
  <1> DEFINE a == d.occ[o].identity
             w == d.occ[k].identity
             x == e.occ[o].identity
             y == e.occ[k].identity
  <1>1. PICK source \in {i, j}, target \in {i, j} :
          /\ source # target
          /\ \A m \in DOMAIN d.occ :
               e.occ[m].identity = IF d.occ[m].identity = source THEN target ELSE d.occ[m].identity
          /\ \A m \in DOMAIN d.ident : Identities!UserLocked(e, m) <=>
               (Identities!UserLocked(d, m) \/ (m = target /\ byUser))
          /\ \A p \in d.barred : p # {i, j} => p \in e.barred
          /\ \A m \in DOMAIN d.ident \ {source, target} : {source, m} \in d.barred =>
               {target, m} \in e.barred
    BY DEF Joined
  <1>2. /\ x = IF a = source THEN target ELSE a
        /\ y = IF w = source THEN target ELSE w
        /\ a \in DOMAIN d.ident /\ w \in DOMAIN d.ident
    BY <1>1 DEF Tables, Home
  <1>3. a # w /\ ({a, w} \in d.barred \/ Identities!UserLocked(d, a) \/ Identities!UserLocked(d, w))
          /\ {a, w} # {i, j}
    BY DEF Parted
  <1>4. source \in DOMAIN d.ident /\ target \in DOMAIN d.ident /\ {i, j} = {source, target}
        /\ (byUser \/ ~ (Identities!UserLocked(d, source) \/ Identities!UserLocked(d, target)))
    BY <1>1
  <1>5. Parted(e, o, k) <=>
          x # y /\ ({x, y} \in e.barred \/ Identities!UserLocked(e, x)
                    \/ Identities!UserLocked(e, y))
    BY DEF Parted
  <1> HIDE DEF a, w, x, y
  <1>6. CASE a = source
    <2>1. w \notin {source, target} /\ x = target /\ y = w
      BY <1>2, <1>3, <1>4, <1>6
    <2>2. {source, w} \in d.barred => {x, y} \in e.barred
      BY <1>1, <1>2, <2>1
    <2>3. Identities!UserLocked(d, a) => Identities!UserLocked(e, x)
      BY <1>1, <1>4, <1>6, <2>1
    <2>4. Identities!UserLocked(d, w) => Identities!UserLocked(e, y)
      BY <1>1, <1>2, <2>1
    <2> QED BY <1>3, <1>5, <1>6, <2>1, <2>2, <2>3, <2>4
  <1>7. CASE w = source
    <2>1. a \notin {source, target} /\ y = target /\ x = a
      BY <1>2, <1>3, <1>4, <1>7
    <2>2. {source, a} \in d.barred => {target, a} \in e.barred
      BY <1>1, <1>2, <2>1
    <2>3. Identities!UserLocked(d, w) => Identities!UserLocked(e, y)
      BY <1>1, <1>4, <1>7, <2>1
    <2>4. Identities!UserLocked(d, a) => Identities!UserLocked(e, x)
      BY <1>1, <1>2, <2>1
    <2>5. {a, w} = {source, a} /\ {x, y} = {target, a}
      BY <1>7, <2>1
    <2> QED BY <1>3, <1>5, <1>7, <2>1, <2>2, <2>3, <2>4, <2>5
  <1>8. CASE a # source /\ w # source
    <2>1. x = a /\ y = w
      BY <1>2, <1>8
    <2>2. {a, w} \in d.barred => {a, w} \in e.barred
      BY <1>1, <1>3
    <2>3. (Identities!UserLocked(d, a) => Identities!UserLocked(e, a))
            /\ (Identities!UserLocked(d, w) => Identities!UserLocked(e, w))
      BY <1>1, <1>2
    <2> QED BY <1>3, <1>5, <2>1, <2>2, <2>3
  <1> QED BY <1>6, <1>7, <1>8

LEMMA SameSeparate ==
  ASSUME NEW d, NEW e, e.occ = d.occ, e.ident = d.ident, d.barred \subseteq e.barred, NEW A,
         Separate(d, A)
  PROVE  Separate(e, A)
  <1> SUFFICES ASSUME NEW p \in A
               PROVE  \E o, k \in DOMAIN e.occ : p = {o, k} /\ Parted(e, o, k)
    BY DEF Separate
  <1>1. PICK o \in DOMAIN d.occ, k \in DOMAIN d.occ : p = {o, k} /\ Parted(d, o, k)
    BY DEF Separate
  <1>2. Parted(e, o, k)
    BY <1>1 DEF Parted, Identities!UserLocked
  <1> QED BY <1>1, <1>2

\* What is in none of the two identities stays apart when they are merged.
LEMMA SeparateStays ==
  ASSUME NEW d, Tables(d), NEW e, DOMAIN e.occ = DOMAIN d.occ,
         NEW i \in DOMAIN d.ident, NEW j \in DOMAIN d.ident, NEW byUser \in BOOLEAN,
         Joined(d, e, i, j, byUser), byUser
           \/ ~ (Identities!UserLocked(d, i) \/ Identities!UserLocked(d, j)),
         NEW A, NEW B \in SUBSET A, Separate(d, A),
         byUser => B \cap Identities!Across(d, i, j) = {}, ~ byUser => {i, j} \notin d.barred
  PROVE  Separate(e, B)
  <1> SUFFICES ASSUME NEW p \in B
               PROVE  \E o, k \in DOMAIN e.occ : p = {o, k} /\ Parted(e, o, k)
    BY DEF Separate
  <1>1. PICK o \in DOMAIN d.occ, k \in DOMAIN d.occ : p = {o, k} /\ Parted(d, o, k)
    BY DEF Separate
  <1> DEFINE a == d.occ[o].identity
             w == d.occ[k].identity
  <1>2. SUFFICES ASSUME {a, w} = {i, j} PROVE FALSE
    <2> HIDE DEF a, w
    <2>1. ASSUME {a, w} # {i, j} PROVE Parted(e, o, k)
      BY <1>1, <2>1, PartedStays DEF a, w
    <2> QED BY <1>1, <2>1
  <1>3. a # w /\ ({a, w} \in d.barred \/ Identities!UserLocked(d, a) \/ Identities!UserLocked(d, w))
    BY <1>1 DEF Parted
  <1>4. o \in Identities!Holding(d, a) /\ k \in Identities!Holding(d, w)
    BY DEF Identities!Holding
  <1> HIDE DEF a, w
  <1>5. (a = i /\ w = j) \/ (a = j /\ w = i)
    BY <1>2, <1>3
  <1>6. p \in Identities!Across(d, i, j)
    <2>1. CASE a = i /\ w = j
      BY <1>1, <1>4, <2>1 DEF Identities!Across
    <2>2. CASE a = j /\ w = i
      <3>1. p = {k, o}
        BY <1>1
      <3> QED BY <1>4, <2>2, <3>1 DEF Identities!Across
    <2> QED BY <1>5, <2>1, <2>2
  <1> QED BY <1>2, <1>3, <1>5, <1>6

-----------------------------------------------------------------------------
(* Storing a candidate                                                     *)

\* The row of a pair of identities is written.
Proposed(d, c, pair, key) ==
  /\ DOMAIN c = DOMAIN d.cand \cup {pair} /\ c = [p \in DOMAIN c |-> c[p]]
  /\ c[pair] \in Candidate /\ c[pair].key = key
  /\ \A p \in DOMAIN d.cand : p # pair => c[p] = d.cand[p]

LEMMA ProposedHolds ==
  ASSUME NEW d, Tables(d), Related(d, {}), Offered(d, {}), NEW pair \in Twos(d), NEW key, NEW c,
         Proposed(d, c, pair, key), NEW e, e = [d EXCEPT !.cand = c]
  PROVE  /\ Tables(e) /\ Related(e, {}) /\ Offered(e, {key}) /\ e.occ = d.occ /\ e.ident = d.ident
         /\ e.cand = c /\ e.barred = d.barred /\ e.rel = d.rel /\ e.listed = d.listed
  <1>1. d \in Db /\ Home(d) /\ Forest(d) /\ Paired(d) /\ d.cand \in Candidates
    BY Fields DEF Tables, Db
  <1>2. c \in Candidates
    <2>1. DOMAIN d.cand \in SUBSET SUBSET Nat /\ d.cand \in [DOMAIN d.cand -> Candidate]
      BY <1>1, Rows
    <2>2. pair \in SUBSET Nat
      BY <1>1, Fields DEF Twos
    <2>3. \A p \in DOMAIN c : c[p] \in Candidate
      BY <2>1 DEF Proposed
    <2>4. DOMAIN c \in SUBSET SUBSET Nat
      BY <2>1, <2>2 DEF Proposed
    <2>5. c \in [DOMAIN c -> Candidate]
      BY <2>3 DEF Proposed
    <2> QED BY <2>4, <2>5 DEF Candidates
  <1>3. /\ e \in Db /\ e.occ = d.occ /\ e.ident = d.ident /\ e.cand = c /\ e.barred = d.barred
        /\ e.rel = d.rel /\ e.listed = d.listed
    BY <1>1, <1>2, NewCand
  <1>4. Home(e) /\ Forest(e) /\ Twos(e) = Twos(d)
          /\ \A i : Identities!ActiveIdentity(e, i) = Identities!ActiveIdentity(d, i)
    BY <1>1, <1>3, SameTables
  <1>5. Tables(e)
    BY <1>1, <1>3, <1>4 DEF Tables, Paired, Proposed
  <1>6. Related(e, {})
    BY <1>3, SameRelated
  <1>7. Offered(e, {key})
    <2> SUFFICES ASSUME NEW p \in DOMAIN c, Open(e, p), c[p].key # key PROVE c[p].key \in d.listed
      BY <1>3 DEF Offered
    <2>1. p # pair /\ p \in DOMAIN d.cand /\ c[p] = d.cand[p]
      BY DEF Proposed
    <2>2. Open(d, p)
      BY <1>3, <1>4, <2>1 DEF Open
    <2> QED BY <2>1, <2>2 DEF Offered
  <1> QED BY <1>3, <1>5, <1>6, <1>7

\* The review group that the row belongs to is made current again.
LEMMA RegroupedHolds ==
  ASSUME NEW d, Tables(d), Related(d, {}), NEW keys, Offered(d, keys), NEW e,
         e = Identities!RefreshGroups(d, keys)
  PROVE  Sound(e) /\ e.occ = d.occ /\ e.ident = d.ident /\ e.cand = d.cand /\ e.barred = d.barred
  <1>1. d \in Db /\ Home(d) /\ Forest(d) /\ Paired(d)
    BY DEF Tables
  <1>2. /\ e \in Db /\ e.occ = d.occ /\ e.ident = d.ident /\ e.cand = d.cand
        /\ e.barred = d.barred /\ e.rel = d.rel /\ Offered(e, {})
    BY <1>1, GroupsHold
  <1>3. Home(e) /\ Forest(e) /\ Twos(e) = Twos(d)
    BY <1>1, <1>2, SameTables
  <1>4. Related(e, {})
    BY <1>2, SameRelated
  <1> QED BY <1>1, <1>2, <1>3, <1>4 DEF Sound, Tables, Paired

\* An identity that was merged away closes its candidates.
LEMMA MergedOffers ==
  ASSUME NEW d, Tables(d), NEW e, e.cand = d.cand, e.listed = d.listed, NEW keys, Offered(d, keys),
         Fewer(d, e)
  PROVE  Offered(e, keys)
  <1>1. \A p \in DOMAIN d.cand : p \subseteq DOMAIN d.ident
    BY DEF Tables, Paired, Twos
  <1>2. \A p \in DOMAIN d.cand : Open(e, p) => Open(d, p)
    BY <1>1 DEF Open, Fewer
  <1> QED BY <1>2 DEF Offered

LEMMA KeyIs ==
  ASSUME Identities!IdentityAssumption, NEW m \in Identities!Names, NEW n \in Identities!Names
  PROVE  Identities!Lower({CoreOf[m], CoreOf[n]}) \in Identities!Names
  <1>1. CoreOf[m] \in Identities!Names /\ CoreOf[n] \in Identities!Names
          /\ Identities!Names \subseteq Nat
    BY DEF Identities!IdentityAssumption
  <1>2. {CoreOf[m], CoreOf[n]} \in SUBSET Nat /\ {CoreOf[m], CoreOf[n]} # {}
    BY <1>1
  <1>3. Identities!Lower({CoreOf[m], CoreOf[n]}) \in {CoreOf[m], CoreOf[n]}
    BY <1>2, LowerIn
  <1> QED BY <1>1, <1>3

LEMMA StoreCandidateHolds ==
  ASSUME Identities!IdentityAssumption, NEW d, Sound(d), Len(d.ident) <= MaxIdentities,
         NEW l \in DOMAIN d.occ, NEW r \in DOMAIN d.occ, NEW A, Separate(d, A),
         NEW e, e = Identities!StoreCandidate(d, l, r)
  PROVE  /\ Sound(e) /\ Same(d, e) /\ Separate(e, A)
         /\ \A o \in DOMAIN d.occ : e.occ[o].identity # d.occ[o].identity =>
              ~ Identities!UserLocked(d, d.occ[o].identity)
                  /\ ~ Identities!UserLocked(d, e.occ[o].identity)
  <1> DEFINE i == d.occ[l].identity
             j == d.occ[r].identity
             pair == {i, j}
             key == Identities!Lower({CoreOf[d.occ[l].name], CoreOf[d.occ[r].name]})
             allowed == ~ Identities!UserLocked(d, i) /\ ~ Identities!UserLocked(d, j)
             assessed == Identities!Assess(d.occ[l], d.occ[r])
             mark == IF assessed = "auto_linked" /\ ~ allowed THEN "candidate" ELSE assessed
             c == [p \in DOMAIN d.cand \cup {pair} |->
                     IF p = pair THEN [status |-> mark, key |-> key] ELSE d.cand[p]]
             stored == [d EXCEPT !.cand = c]
             linked == IF mark = "auto_linked" THEN Identities!Merge(stored, i, j, FALSE)
               ELSE stored
  <1>1. /\ Tables(d) /\ Related(d, {}) /\ Offered(d, {}) /\ d \in Db /\ Forest(d)
             /\ MaxIdentities \in Nat
        /\ i \in DOMAIN d.ident /\ Identities!ActiveIdentity(d, i) /\ j \in DOMAIN d.ident
             /\ Identities!ActiveIdentity(d, j)
    BY DEF Sound, Tables, Home, Identities!IdentityAssumption
  <1>2. Identities!Canonical(d, i) = i /\ Identities!Canonical(d, j) = j
    BY <1>1, CanonicalIs
  <1>3. e = IF Identities!Settled(d, i, j) THEN d ELSE Identities!RefreshGroups(linked, {key})
    BY ZenonT(40), <1>2, OnlyIs DEF Identities!StoreCandidate
  <1>4. CASE Identities!Settled(d, i, j)
    BY <1>3, <1>4 DEF Same
  <1>5. CASE ~ Identities!Settled(d, i, j)
    <2>1. e = Identities!RefreshGroups(linked, {key}) /\ i # j /\ {i, j} \notin d.barred
      BY <1>3, <1>5 DEF Identities!Settled
    <2>2. key \in Identities!Names /\ mark \in Identities!Statuses
      <3>1. d.occ[l].name \in Identities!Names /\ d.occ[r].name \in Identities!Names
        BY <1>1, Fields DEF Occurrence
      <3>2. key \in Identities!Names
        BY <3>1, KeyIs
      <3>3. mark \in Identities!Statuses
        BY SMTT(20) DEF Identities!Assess, Identities!Statuses, Identities!OpenStatuses
      <3> QED BY <3>2, <3>3
    <2>3. pair \in Twos(d)
      BY <1>1, <2>1 DEF Twos
    <2>4. Proposed(d, c, pair, key)
      <3> DEFINE row == [status |-> mark, key |-> key]
      <3>1. row \in Candidate /\ row.key = key
        BY <2>2 DEF Candidate
      <3> HIDE DEF row, pair, mark, key
      <3>2. /\ DOMAIN c = DOMAIN d.cand \cup {pair} /\ c[pair] = row
            /\ \A p \in DOMAIN d.cand : p # pair => c[p] = d.cand[p]
        BY DEF row
      <3>3. c = [p \in DOMAIN c |-> c[p]]
        OBVIOUS
      <3> HIDE DEF c
      <3> QED BY <3>1, <3>2, <3>3 DEF Proposed
    <2>5. mark = "auto_linked" => allowed
      OBVIOUS
    <2>6. stored = [d EXCEPT !.cand = c] /\ pair = {i, j}
      OBVIOUS
    <2>7. linked = IF mark = "auto_linked" THEN Identities!Merge(stored, i, j, FALSE) ELSE stored
      OBVIOUS
    <2> HIDE DEF linked, stored, c, key, mark, pair
    <2>8. /\ Tables(stored) /\ Related(stored, {}) /\ Offered(stored, {key})
          /\ stored.occ = d.occ /\ stored.ident = d.ident /\ stored.barred = d.barred
      BY <1>1, <2>3, <2>4, <2>6, ProposedHolds
    <2>9. stored \in Db /\ Home(stored) /\ Forest(stored) /\ Paired(stored)
      BY <2>8 DEF Tables
    <2>10. \A m : Identities!ActiveIdentity(stored, m) = Identities!ActiveIdentity(d, m)
             /\ Identities!UserLocked(stored, m) = Identities!UserLocked(d, m)
      BY <2>8, SameTables
    <2>11. Separate(stored, A)
      BY <2>8, SameSeparate
    <2>12. /\ Tables(linked) /\ Related(linked, {}) /\ Offered(linked, {key}) /\ Same(d, linked)
           /\ Separate(linked, A)
           /\ \A o \in DOMAIN d.occ : linked.occ[o].identity # d.occ[o].identity =>
                ~ Identities!UserLocked(d, d.occ[o].identity)
                    /\ ~ Identities!UserLocked(d, linked.occ[o].identity)
      <3>1. CASE mark # "auto_linked"
        BY <2>7, <2>8, <2>11, <3>1 DEF Same
      <3>2. CASE mark = "auto_linked"
        <4>1. linked = Identities!Merge(stored, i, j, FALSE)
          BY <2>7, <3>2
        <4> DEFINE s == stored.ident
        <4>2. /\ i \in DOMAIN stored.ident /\ j \in DOMAIN stored.ident
              /\ Identities!ActiveIdentity(stored, i) /\ Identities!ActiveIdentity(stored, j)
          BY <1>1, <2>8, <2>10
        <4> HIDE DEF i, j
        <4>3. /\ Tables(linked) /\ Related(linked, {}) /\ linked.cand = stored.cand
                   /\ linked.listed = stored.listed
              /\ Same(stored, linked) /\ Fewer(stored, linked)
                   /\ Joined(stored, linked, i, j, FALSE)
          BY <2>1, <2>8, <2>9, <4>1, <4>2, MergeHolds
        <4>6. Same(d, linked) /\ DOMAIN linked.occ = DOMAIN stored.occ
          BY <2>8, <4>3 DEF Same
        <4>7. Offered(linked, {key})
          BY <2>8, <4>3, MergedOffers
        <4>8. ~ Identities!UserLocked(d, i) /\ ~ Identities!UserLocked(d, j)
          BY <2>5, <3>2
        <4>9. Separate(linked, A)
          BY <2>1, <2>8, <2>10, <2>11, <4>2, <4>3, <4>6, <4>8, SeparateStays
        <4>10. ASSUME NEW o \in DOMAIN d.occ, linked.occ[o].identity # d.occ[o].identity
               PROVE  ~ Identities!UserLocked(d, d.occ[o].identity)
                          /\ ~ Identities!UserLocked(d, linked.occ[o].identity)
          <5>1. linked.occ[o].identity \in {i, j} /\ d.occ[o].identity \in {i, j}
            BY <2>8, <4>3, <4>10 DEF Joined
          <5> QED BY <4>8, <5>1
        <4> QED BY <4>3, <4>6, <4>7, <4>9, <4>10
      <3> QED BY <3>1, <3>2
    <2>13. Sound(e) /\ e.occ = linked.occ /\ e.ident = linked.ident /\ e.barred = linked.barred
      BY <2>1, <2>12, RegroupedHolds
    <2>14. Same(d, e)
      BY <2>12, <2>13 DEF Same
    <2>15. Separate(e, A)
      BY <2>12, <2>13, SameSeparate
    <2> QED BY <2>12, <2>13, <2>14, <2>15
  <1> QED BY <1>4, <1>5

LEMMA BestIn ==
  ASSUME NEW d, NEW o, NEW S \in SUBSET Nat, S # {}
  PROVE  Identities!Best(d, o, S) \in S
  <1> DEFINE rank(k) == Identities!BlockRank(d.occ[o], d.occ[k])
             ranks == {rank(k) : k \in S}
  <1>1. \A k : rank(k) \in {0, 1, 2}
    BY DEF Identities!BlockRank
  <1>2. Identities!Best(d, o, S) = CHOOSE x \in S : \A y \in S : rank(x) < rank(y)
          \/ (rank(x) = rank(y) /\ x <= y)
    BY DEF Identities!Best
  <1> HIDE DEF rank
  <1>3. ranks \in SUBSET Nat /\ ranks # {}
    <2>1. \A k \in S : rank(k) \in Nat
      BY <1>1
    <2>2. PICK k \in S : TRUE
      OBVIOUS
    <2>3. rank(k) \in ranks
      OBVIOUS
    <2> QED BY <2>1, <2>3
  <1>4. PICK m \in ranks : \A n \in ranks : m <= n
    BY <1>3, Least
  <1> DEFINE first == {k \in S : rank(k) = m}
  <1>5. first \in SUBSET Nat /\ first # {}
    BY <1>4
  <1>6. PICK x \in first : \A y \in first : x <= y
    BY <1>5, Least
  <1>7. ASSUME NEW y \in S PROVE rank(x) < rank(y) \/ (rank(x) = rank(y) /\ x <= y)
    <2>1. m <= rank(y) /\ rank(x) = m /\ rank(y) \in {0, 1, 2}
      BY <1>1, <1>4, <1>6
    <2>2. rank(y) = m => x <= y
      BY <1>6
    <2> QED BY <1>3, <1>4, <2>1, <2>2
  <1> QED BY <1>2, <1>6, <1>7

-----------------------------------------------------------------------------
(* The user's decisions                                                    *)

\* The two identities of a candidate.
Other(pair, l) == CHOOSE x \in pair : x # l

LEMMA EndsAre ==
  ASSUME Identities!IdentityAssumption, NEW d, Tables(d), Len(d.ident) <= MaxIdentities,
         NEW pair \in DOMAIN d.cand,
         NEW l, l = Identities!Lower(pair), NEW i, i = Identities!Canonical(d, l),
         NEW j, j = Identities!Canonical(d, Other(pair, l))
  PROVE  /\ i \in DOMAIN d.ident /\ Identities!ActiveIdentity(d, i)
         /\ j \in DOMAIN d.ident /\ Identities!ActiveIdentity(d, j) /\ pair \in Twos(d)
  <1>1. d \in Db /\ Forest(d) /\ Paired(d) /\ MaxIdentities \in Nat /\ DOMAIN d.ident \subseteq Nat
    <2>1. d \in Db /\ Forest(d) /\ Paired(d)
      BY DEF Tables
    <2>2. MaxIdentities \in Nat
      BY DEF Identities!IdentityAssumption
    <2> QED BY <2>1, <2>2, Fields
  <1>2. PICK a \in DOMAIN d.ident, w \in DOMAIN d.ident : a # w /\ pair = {a, w}
    BY <1>1 DEF Paired, Twos
  <1>3. l \in pair
    BY <1>1, <1>2, LowerIn
  <1>4. Other(pair, l) \in pair
    <2>1. \E x \in pair : x # l
      BY <1>2, <1>3
    <2> QED BY <2>1 DEF Other
  <1>5. l \in DOMAIN d.ident /\ Other(pair, l) \in DOMAIN d.ident
    BY <1>2, <1>3, <1>4
  <1> QED BY <1>1, <1>5, CanonicalIs DEF Paired

\* A candidate's row with another status is a row.
LEMMA StatusHolds ==
  ASSUME NEW d, Tables(d), NEW pair \in DOMAIN d.cand, NEW mark \in Identities!Statuses,
         NEW c, c = [d.cand EXCEPT ![pair].status = mark]
  PROVE  Proposed(d, c, pair, d.cand[pair].key)
  <1>1. d.cand \in [DOMAIN d.cand -> Candidate]
    BY Rows DEF Tables, Db
  <1>2. c \in [DOMAIN d.cand -> Candidate] /\ c[pair].key = d.cand[pair].key
        /\ \A p \in DOMAIN d.cand : p # pair => c[p] = d.cand[p]
    BY <1>1 DEF Candidate
  <1> QED BY <1>2 DEF Proposed

Marked(d, pair, mark) == [d EXCEPT !.cand[pair].status = mark]

LEMMA MarkedHolds ==
  ASSUME NEW d, Tables(d), Related(d, {}), Offered(d, {}), NEW pair \in DOMAIN d.cand,
         NEW mark \in Identities!Statuses, NEW x, x = Marked(d, pair, mark)
  PROVE  /\ Tables(x) /\ Related(x, {}) /\ Offered(x, {d.cand[pair].key}) /\ x.occ = d.occ
         /\ x.ident = d.ident /\ x.barred = d.barred
  <1> DEFINE key == d.cand[pair].key
  <1> DEFINE c == [d.cand EXCEPT ![pair].status = mark]
  <1>1. x = [d EXCEPT !.cand = c]
    BY DEF Marked, Tables, Db
  <1>2. Proposed(d, c, pair, key)
    BY StatusHolds
  <1>3. pair \in Twos(d)
    BY DEF Tables, Paired
  <1> HIDE DEF c, key
  <1>4. /\ Tables(x) /\ Related(x, {}) /\ Offered(x, {key}) /\ x.occ = d.occ /\ x.ident = d.ident
        /\ x.barred = d.barred
    BY <1>1, <1>2, <1>3, ProposedHolds
  <1> QED BY <1>4 DEF key

\* merge_identity_records leaves the candidates as they are.
LEMMA UserMergeHolds ==
  ASSUME NEW d, Sound(d), NEW i \in DOMAIN d.ident, Identities!ActiveIdentity(d, i),
         NEW j \in DOMAIN d.ident, Identities!ActiveIdentity(d, j), i # j, NEW A, Separate(d, A),
         NEW e, e = Identities!Merge(d, i, j, TRUE)
  PROVE  Sound(e) /\ Same(d, e) /\ Separate(e, A \ Identities!Across(d, i, j)) /\ e.cand = d.cand
  <1>1. Tables(d) /\ Related(d, {}) /\ Offered(d, {}) /\ d \in Db /\ Home(d) /\ Forest(d)
          /\ Paired(d)
    BY DEF Sound, Tables
  <1>2. /\ Tables(e) /\ Related(e, {}) /\ e.cand = d.cand /\ e.listed = d.listed
        /\ Same(d, e) /\ Fewer(d, e) /\ Joined(d, e, i, j, TRUE)
    <2> DEFINE byUser == TRUE
    <2>1. byUser \in BOOLEAN /\ e = Identities!Merge(d, i, j, byUser)
      OBVIOUS
    <2> HIDE DEF byUser
    <2>2. /\ Tables(e) /\ Related(e, {}) /\ e.cand = d.cand /\ e.listed = d.listed
          /\ Same(d, e) /\ Fewer(d, e) /\ Joined(d, e, i, j, byUser)
      BY <1>1, <2>1, MergeHolds
    <2> QED BY <2>2 DEF byUser
  <1>3. Offered(e, {}) /\ DOMAIN e.occ = DOMAIN d.occ
    BY <1>1, <1>2, MergedOffers DEF Same
  <1> DEFINE B == A \ Identities!Across(d, i, j)
  <1>4. B \in SUBSET A /\ B \cap Identities!Across(d, i, j) = {}
    OBVIOUS
  <1> HIDE DEF B
  <1>5. Separate(e, B)
    BY <1>1, <1>2, <1>3, <1>4, SeparateStays
  <1> QED BY <1>2, <1>3, <1>5 DEF B, Sound

\* The status of a candidate is stored after the merge.
LEMMA ConfirmHolds ==
  ASSUME NEW d, Sound(d), NEW pair \in DOMAIN d.cand, NEW key, key = d.cand[pair].key,
         NEW A, Separate(d, A), NEW mark \in Identities!Statuses,
         NEW x, x = Marked(d, pair, mark), NEW e, e = Identities!RefreshGroups(x, {key})
  PROVE  Sound(e) /\ Same(d, e) /\ Separate(e, A)
  <1> DEFINE keys == {key}
  <1>1. Tables(d) /\ Related(d, {}) /\ Offered(d, {}) /\ e = Identities!RefreshGroups(x, keys)
    BY DEF Sound
  <1>2. /\ Tables(x) /\ Related(x, {}) /\ Offered(x, {key}) /\ x.occ = d.occ
        /\ x.ident = d.ident /\ x.barred = d.barred
    BY <1>1, MarkedHolds
  <1>3. Offered(x, keys)
    BY <1>2
  <1> HIDE DEF keys
  <1>4. Sound(e) /\ e.occ = d.occ /\ e.ident = d.ident /\ e.barred = d.barred
    BY <1>1, <1>2, <1>3, RegroupedHolds
  <1>5. Same(d, e)
    BY <1>4 DEF Same
  <1>6. Separate(e, A)
    BY <1>4, SameSeparate
  <1> QED BY <1>4, <1>5, <1>6

LEMMA BarHolds ==
  ASSUME NEW d, Tables(d), Offered(d, {}), NEW fs, Related(d, fs),
         NEW i \in DOMAIN d.ident, NEW j \in DOMAIN d.ident, i
           # j, NEW e, e = Identities!Bar(d, i, j)
  PROVE  /\ Tables(e) /\ Offered(e, {}) /\ Related(e, fs)
         /\ e.occ = d.occ /\ e.ident = d.ident /\ e.cand = d.cand
         /\ e.barred = d.barred \cup {{i, j}} /\ e.rel = d.rel
  <1>1. d \in Db /\ Home(d) /\ Forest(d) /\ Paired(d)
    BY DEF Tables
  <1> DEFINE x == d.barred \cup {{i, j}}
  <1>2. e = [d EXCEPT !.barred = x]
    BY DEF Identities!Bar
  <1>3. {i, j} \in Twos(d)
    BY DEF Twos
  <1>4. x \in SUBSET SUBSET Nat
    BY <1>1, Fields
  <1>5. x \subseteq Twos(d)
    BY <1>1, <1>3 DEF Paired
  <1>6. x = d.barred \cup {{i, j}}
    OBVIOUS
  <1> HIDE DEF x
  <1>7. /\ e \in Db /\ e.occ = d.occ /\ e.ident = d.ident /\ e.cand = d.cand /\ e.barred = x
        /\ e.rel = d.rel /\ e.listed = d.listed
    BY <1>1, <1>2, <1>4, NewBarred
  <1>8. Home(e) /\ Forest(e) /\ Twos(e) = Twos(d)
    BY <1>1, <1>7, SameTables
  <1>9. Related(e, fs)
    BY <1>7, SameRelated
  <1>10. Offered(e, {})
    BY <1>7, SameOffered
  <1> QED BY <1>1, <1>5, <1>6, <1>7, <1>8, <1>9, <1>10 DEF Tables, Paired

LEMMA RejectHolds ==
  ASSUME NEW d, Sound(d), NEW pair \in DOMAIN d.cand, NEW key, key = d.cand[pair].key,
         NEW i \in DOMAIN d.ident, NEW j \in DOMAIN d.ident, i # j, NEW A, Separate(d, A),
         NEW w, w = Identities!Bar(d, i, j), NEW x, x = Marked(w, pair, "user_rejected"),
         NEW e, e = Identities!RefreshGroups(x, {key})
  PROVE  Sound(e) /\ Same(d, e) /\ Separate(e, A \cup Identities!Across(d, i, j))
  <1>1. Tables(d) /\ Related(d, {}) /\ Offered(d, {})
    BY DEF Sound
  <1>2. /\ Tables(w) /\ Related(w, {}) /\ Offered(w, {})
        /\ w.occ = d.occ /\ w.ident = d.ident /\ w.cand = d.cand
             /\ w.barred = d.barred \cup {{i, j}}
    BY <1>1, BarHolds
  <1>3. Sound(e) /\ e.occ = d.occ /\ e.ident = d.ident /\ e.barred = d.barred \cup {{i, j}}
    <2> DEFINE mark == "user_rejected"
               keys == {key}
    <2>1. /\ mark \in Identities!Statuses /\ pair \in DOMAIN w.cand /\ key = w.cand[pair].key
          /\ x = Marked(w, pair, mark) /\ e = Identities!RefreshGroups(x, keys)
      BY <1>2 DEF Identities!Statuses
    <2> HIDE DEF mark
    <2>2. /\ Tables(x) /\ Related(x, {}) /\ Offered(x, {key}) /\ x.occ = w.occ
          /\ x.ident = w.ident /\ x.barred = w.barred
      <3>1. Tables(w) /\ Related(w, {}) /\ Offered(w, {})
        BY <1>2
      <3> QED BY <2>1, <3>1, MarkedHolds
    <2>3. Tables(x) /\ Related(x, {}) /\ Offered(x, keys)
      BY <2>2
    <2> HIDE DEF keys
    <2>4. Sound(e) /\ e.occ = x.occ /\ e.ident = x.ident /\ e.barred = x.barred
      BY <2>1, <2>3, RegroupedHolds
    <2> QED BY <1>2, <2>2, <2>4
  <1>4. Same(d, e)
    BY <1>3 DEF Same
  <1>5. Separate(e, A)
    BY <1>3, SameSeparate
  <1>6. ASSUME NEW p \in Identities!Across(d, i, j)
        PROVE  \E o, k \in DOMAIN e.occ : p = {o, k} /\ Parted(e, o, k)
    <2>1. PICK o \in Identities!Holding(d, i), k \in Identities!Holding(d, j) : p = {o, k}
      BY DEF Identities!Across
    <2>2. /\ o \in DOMAIN d.occ /\ d.occ[o].identity = i
          /\ k \in DOMAIN d.occ /\ d.occ[k].identity = j
      BY DEF Identities!Holding
    <2>3. Parted(e, o, k)
      BY <1>3, <2>2 DEF Parted
    <2> QED BY <1>3, <2>1, <2>2, <2>3
  <1>7. Separate(e, A \cup Identities!Across(d, i, j))
    BY <1>5, <1>6 DEF Separate
  <1> QED BY <1>3, <1>4, <1>7

\* The merges are the same.
SameLinks(d, e) ==
  /\ DOMAIN e.ident = DOMAIN d.ident
  /\ \A i \in DOMAIN d.ident : e.ident[i].into = d.ident[i].into

LEMMA LinksHold ==
  ASSUME NEW d, NEW e, SameLinks(d, e)
  PROVE  /\ Forest(d) => Forest(e)
         /\ Twos(e) = Twos(d)
         /\ \A i \in DOMAIN d.ident : Identities!ActiveIdentity(e, i)
              = Identities!ActiveIdentity(d, i)
  <1>1. \A i \in DOMAIN d.ident : Identities!ActiveIdentity(e, i) = Identities!ActiveIdentity(d, i)
    BY DEF Identities!ActiveIdentity, SameLinks
  <1>2. Inactive(e) = Inactive(d)
    BY <1>1 DEF Inactive, SameLinks
  <1>3. Twos(e) = Twos(d)
    BY DEF Twos, SameLinks
  <1>4. ASSUME Forest(d) PROVE Forest(e)
    <2>1. PICK h \in [DOMAIN d.ident -> 0..Cardinality(Inactive(d))] : Leads(d, h)
      BY <1>4 DEF Forest
    <2>2. Leads(e, h)
      BY <1>2, <2>1 DEF Leads, SameLinks, Inactive
    <2> QED BY <1>2, <2>1, <2>2 DEF Forest, SameLinks
  <1> QED BY <1>1, <1>3, <1>4

\* The occurrence leaves for an identity of its own, and the user has locked
\* both.
Split(d, o, i, new) == [Identities!WithIdentity(d, TRUE) EXCEPT !.occ[o].identity
                        = new, !.ident[i].locked = TRUE]

Rowed(d, e, o, i) ==
  \A k \in DOMAIN d.occ : /\ e.occ[k].file = d.occ[k].file /\ e.occ[k].name = d.occ[k].name
                          /\ e.occ[k].identity = IF k = o THEN i ELSE d.occ[k].identity
Locks(d, e) == \A k \in DOMAIN d.ident : Identities!UserLocked(d, k) => Identities!UserLocked(e, k)

IsSplit(d, e, o, i, new, fs) ==
  /\ Tables(e) /\ Offered(e, {}) /\ Related(e, fs) /\ e.barred = d.barred
  /\ Len(e.ident) = Len(d.ident) + 1 /\ DOMAIN e.occ = DOMAIN d.occ
  /\ i \in DOMAIN e.ident /\ new \in DOMAIN e.ident /\ i # new
  /\ Rowed(d, e, o, new) /\ Locks(d, e) /\ Identities!UserLocked(e, new)

LEMMA SplitHolds ==
  ASSUME NEW d, Sound(d), NEW o \in DOMAIN d.occ, NEW i, i = d.occ[o].identity,
         NEW new, new = Len(d.ident) + 1, NEW e, e = Split(d, o, i, new),
         NEW fs, fs = {d.occ[o].file}
  PROVE  IsSplit(d, e, o, i, new, fs)
  <1> DEFINE a == Identities!WithIdentity(d, TRUE)
             x == [a.occ EXCEPT ![o].identity = new]
             s == [a.ident EXCEPT ![i].locked = TRUE]
             y == [a EXCEPT !.occ = x]
  <1>1. /\ Tables(d) /\ Related(d, {}) /\ Offered(d, {}) /\ d \in Db /\ Home(d)
        /\ i \in DOMAIN d.ident /\ Identities!ActiveIdentity(d, i) /\ Len(d.ident) \in Nat
        /\ \A k \in DOMAIN d.occ : d.occ[k].identity \in DOMAIN d.ident
             /\ Identities!ActiveIdentity(d, d.occ[k].identity)
    BY Fields DEF Sound, Tables, Home
  <1>2. /\ Tables(a) /\ Offered(a, {}) /\ a.occ = d.occ /\ a.barred = d.barred /\ a.rel = d.rel
        /\ Keeps(d, a) /\ Len(a.ident) = new /\ DOMAIN a.ident = DOMAIN d.ident \cup {new}
        /\ new \notin DOMAIN d.ident /\ Identities!ActiveIdentity(a, new)
             /\ Identities!UserLocked(a, new) = TRUE
    <2> DEFINE locked == TRUE
    <2>1. locked \in BOOLEAN /\ a = Identities!WithIdentity(d, locked) /\ locked = TRUE
      OBVIOUS
    <2> HIDE DEF locked, a
    <2>2. /\ Tables(a) /\ Offered(a, {}) /\ a.occ = d.occ /\ a.barred = d.barred /\ a.rel = d.rel
          /\ Keeps(d, a) /\ Len(a.ident) = new /\ DOMAIN a.ident = DOMAIN d.ident \cup {new}
          /\ new \notin DOMAIN d.ident /\ Identities!ActiveIdentity(a, new)
               /\ Identities!UserLocked(a, new) = locked
      BY <1>1, <2>1, AddHolds
    <2> QED BY <2>1, <2>2
  <1>3. e = [y EXCEPT !.ident = s]
    BY <1>2 DEF Split, Tables, Db
  <1>4. a \in Db /\ a.ident \in Seq(Identity) /\ a.occ \in Seq(Occurrence) /\ Home(a) /\ Forest(a)
          /\ Paired(a)
    BY <1>2, Fields DEF Tables
  <1>5. new \in Nat /\ i \in DOMAIN a.ident /\ o \in DOMAIN a.occ
    <2>1. new \in Nat
      BY <1>1
    <2>2. i \in DOMAIN a.ident /\ o \in DOMAIN a.occ
      <3>1. i \in DOMAIN d.ident /\ DOMAIN a.ident = DOMAIN d.ident \cup {new} /\ a.occ = d.occ
        BY <1>1, <1>2
      <3> QED BY <3>1
    <2> QED BY <2>1, <2>2
  <1>6. x = [a.occ EXCEPT ![o].identity = new] /\ s = [a.ident EXCEPT ![i].locked = TRUE]
        /\ y = [a EXCEPT !.occ = x]
    OBVIOUS
  <1> HIDE DEF a, x, s, y
  <1>7. /\ x \in Seq(Occurrence) /\ DOMAIN x = DOMAIN d.occ
        /\ \A k \in DOMAIN d.occ : /\ x[k].file = d.occ[k].file /\ x[k].name = d.occ[k].name
                                   /\ x[k].identity = IF k = o THEN new ELSE d.occ[k].identity
                                   /\ k # o => x[k] = d.occ[k]
    <2>1. DOMAIN x = DOMAIN a.occ /\ x = [k \in DOMAIN a.occ |-> x[k]]
      BY <1>6
    <2>2. \A k \in DOMAIN a.occ : a.occ[k] \in Occurrence
      BY <1>4
    <2>3. ASSUME NEW k \in DOMAIN a.occ
          PROVE  /\ x[k] \in Occurrence /\ x[k].file = a.occ[k].file /\ x[k].name = a.occ[k].name
                 /\ x[k].identity = IF k = o THEN new ELSE a.occ[k].identity
                 /\ k # o => x[k] = a.occ[k]
      BY <1>5, <1>6, <2>2 DEF Occurrence
    <2>4. x \in Seq(Occurrence)
      BY <1>4, <2>1, <2>3, Mapped
    <2> QED BY <1>2, <2>1, <2>3, <2>4
  <1>8. /\ s \in Seq(Identity) /\ DOMAIN s = DOMAIN a.ident /\ Len(s) = Len(a.ident)
        /\ \A k \in DOMAIN a.ident : s[k].into = a.ident[k].into
             /\ (a.ident[k].locked => s[k].locked)
    <2>1. DOMAIN s = DOMAIN a.ident /\ s = [k \in DOMAIN a.ident |-> s[k]]
      BY <1>6
    <2>2. \A k \in DOMAIN a.ident : a.ident[k] \in Identity
      BY <1>4
    <2>3. ASSUME NEW k \in DOMAIN a.ident
          PROVE  s[k] \in Identity /\ s[k].into = a.ident[k].into
                   /\ (a.ident[k].locked => s[k].locked)
      BY <1>5, <1>6, <2>2 DEF Identity
    <2>4. \A k \in DOMAIN a.ident : s[k] \in Identity
      BY <2>3
    <2>5. a.ident \in Seq(Identity)
      BY <1>4
    <2> DEFINE r == a.ident
    <2>6. r \in Seq(Identity) /\ s = [k \in DOMAIN r |-> s[k]]
            /\ \A k \in DOMAIN r : s[k] \in Identity
      BY <2>1, <2>4, <2>5
    <2> HIDE DEF r
    <2>7. s \in Seq(Identity) /\ Len(s) = Len(r)
      BY <2>6, Mapped
    <2> QED BY SMTT(20), <2>1, <2>3, <2>7 DEF r
  <1>9. /\ y \in Db /\ y.occ = x /\ y.ident = a.ident /\ y.cand = a.cand /\ y.barred = a.barred
        /\ y.rel = a.rel /\ y.listed = a.listed
    <2>1. a \in Db /\ x \in Seq(Occurrence) /\ y = [a EXCEPT !.occ = x]
      BY <1>4, <1>6, <1>7
    <2> QED BY <2>1, NewOcc
  <1>10. /\ e \in Db /\ e.occ = x /\ e.ident = s /\ e.cand = a.cand /\ e.barred = a.barred
         /\ e.rel = a.rel /\ e.listed = a.listed
    BY <1>3, <1>8, <1>9, NewIdent
  <1>11. SameLinks(a, e)
    BY <1>8, <1>10 DEF SameLinks
  <1>12. Forest(e) /\ Twos(e) = Twos(a)
           /\ \A k \in DOMAIN a.ident : Identities!ActiveIdentity(e, k)
                = Identities!ActiveIdentity(a, k)
    BY <1>4, <1>11, LinksHold
  <1>13. \A k \in DOMAIN d.ident : Identities!ActiveIdentity(d, k) =>
           Identities!ActiveIdentity(a, k)
    BY <1>2 DEF Keeps, Identities!ActiveIdentity
  <1>14. Home(e)
    <2>1. ASSUME NEW k \in DOMAIN d.occ
          PROVE  x[k].identity \in DOMAIN a.ident /\ Identities!ActiveIdentity(a, x[k].identity)
      BY <1>1, <1>2, <1>7, <1>13
    <2> QED BY <1>7, <1>8, <1>10, <1>12, <2>1 DEF Home
  <1>15. Paired(e)
    BY <1>4, <1>10, <1>12 DEF Paired
  <1>16. Offered(e, {})
    <2>1. Fewer(a, e)
      BY <1>12 DEF Fewer
    <2> QED BY <1>2, <1>10, <2>1, MergedOffers
  <1>17. Related(e, fs)
    <2>1. Elsewhere(d, e, d.occ[o].file)
      BY <1>7, <1>10 DEF Elsewhere
    <2> QED BY <1>1, <1>2, <1>10, <2>1, ElsewhereRelated
  <1>18. \A k \in DOMAIN a.ident : Identities!UserLocked(a, k) => Identities!UserLocked(e, k)
    BY <1>8, <1>10 DEF Identities!UserLocked
  <1>19. \A k \in DOMAIN d.ident : Identities!UserLocked(d, k) => Identities!UserLocked(e, k)
    BY <1>2, <1>18 DEF Keeps, Identities!UserLocked
  <1>20. Identities!UserLocked(e, new)
    BY <1>2, <1>18
  <1>21. Tables(e)
    BY <1>10, <1>12, <1>14, <1>15 DEF Tables
  <1>22. /\ Len(e.ident) = Len(d.ident) + 1 /\ DOMAIN e.occ = DOMAIN d.occ
         /\ i \in DOMAIN e.ident /\ new \in DOMAIN e.ident /\ i # new /\ e.barred = d.barred
    BY <1>1, <1>2, <1>5, <1>7, <1>8, <1>10
  <1>23. Rowed(d, e, o, new)
    BY <1>7, <1>10 DEF Rowed
  <1>24. Locks(d, e)
    BY <1>19 DEF Locks
  <1> QED BY <1>16, <1>17, <1>20, <1>21, <1>22, <1>23, <1>24 DEF IsSplit

LEMMA RefreshedHolds ==
  ASSUME NEW d, Tables(d), Offered(d, {}), NEW fs, Related(d, fs), NEW e,
         e = Identities!RefreshFiles(d, fs)
  PROVE  Sound(e) /\ e.occ = d.occ /\ e.ident = d.ident /\ e.cand = d.cand /\ e.barred = d.barred
  <1>1. d \in Db /\ Home(d) /\ Forest(d) /\ Paired(d)
    BY DEF Tables
  <1>2. /\ e \in Db /\ e.occ = d.occ /\ e.ident = d.ident /\ e.cand = d.cand
        /\ e.barred = d.barred /\ e.listed = d.listed /\ Related(e, {})
    BY <1>1, FilesHold
  <1>3. Home(e) /\ Forest(e) /\ Twos(e) = Twos(d)
    BY <1>1, <1>2, SameTables
  <1>4. Offered(e, {})
    BY SMTT(20), <1>2, SameOffered
  <1> QED BY <1>1, <1>2, <1>3, <1>4 DEF Sound, Tables, Paired

\* The occurrence is unlinked, its file's relations are those of its rows
\* again, and it is apart from the occurrences that it was with.
Leaving(d, o, i) == {{o, k} : k \in Identities!Holding(d, i) \ {o}}
Unlinked(d, e, o, i, new, s, w, fs, A) ==
  /\ Sound(e) /\ Len(e.ident) = Len(d.ident) + 1 /\ DOMAIN e.occ = DOMAIN d.occ
  /\ \A k \in DOMAIN d.occ : e.occ[k].file = d.occ[k].file /\ e.occ[k].name = d.occ[k].name
  /\ Separate(e, A \cup Leaving(d, o, i))

LEMMA UnlinkHolds ==
  ASSUME NEW d, Sound(d), NEW o \in DOMAIN d.occ, NEW i, i = d.occ[o].identity,
         NEW new, new = Len(d.ident) + 1, NEW A, Separate(d, A),
         NEW s, s = Split(d, o, i, new), NEW w, w = Identities!Bar(s, i, new),
         NEW fs, fs = {d.occ[o].file}, NEW e, e = Identities!RefreshFiles(w, fs)
  PROVE  Unlinked(d, e, o, i, new, s, w, fs, A)
  <1>1. /\ Tables(s) /\ Offered(s, {}) /\ Related(s, fs) /\ s.barred = d.barred
        /\ Len(s.ident) = Len(d.ident) + 1 /\ DOMAIN s.occ = DOMAIN d.occ
        /\ i \in DOMAIN s.ident /\ new \in DOMAIN s.ident /\ i # new
             /\ Identities!UserLocked(s, new)
    <2>1. IsSplit(d, s, o, i, new, fs)
      BY SplitHolds
    <2> QED BY <2>1 DEF IsSplit
  <1>2. Rowed(d, s, o, new) /\ Locks(d, s)
    <2>1. IsSplit(d, s, o, i, new, fs)
      BY SplitHolds
    <2> QED BY <2>1 DEF IsSplit
  <1>5. /\ d \in Db /\ DOMAIN d.ident = 1..Len(d.ident) /\ Len(d.ident) \in Nat
        /\ \A k \in DOMAIN d.occ : d.occ[k].identity \in DOMAIN d.ident
    BY Fields DEF Sound, Tables, Home
  <1>6. new \notin DOMAIN d.ident
    BY <1>5
  <1>7. /\ Tables(w) /\ Offered(w, {}) /\ Related(w, fs) /\ w.occ = s.occ /\ w.ident = s.ident
        /\ w.barred = s.barred \cup {{i, new}}
    BY SMTT(20), <1>1, BarHolds
  <1>8. Sound(e) /\ e.occ = s.occ /\ e.ident = s.ident /\ e.barred = d.barred \cup {{i, new}}
    <2>1. Sound(e) /\ e.occ = w.occ /\ e.ident = w.ident /\ e.barred = w.barred
      BY SMTT(20), <1>7, RefreshedHolds
    <2> QED BY ZenonT(40), <1>1, <1>7, <2>1
  <1>9. /\ \A k \in DOMAIN d.ident : Identities!UserLocked(d, k) => Identities!UserLocked(e, k)
        /\ Identities!UserLocked(e, new)
    BY ZenonT(40), <1>1, <1>2, <1>8 DEF Identities!UserLocked, Locks
  <1>10. ASSUME NEW p \in A PROVE \E k, m \in DOMAIN e.occ : p = {k, m} /\ Parted(e, k, m)
    <2>1. PICK k \in DOMAIN d.occ, m \in DOMAIN d.occ : p = {k, m} /\ Parted(d, k, m)
      BY DEF Separate
    <2>2. Parted(e, k, m)
      <3> DEFINE u == d.occ[k].identity
                 v == d.occ[m].identity
                 x == e.occ[k].identity
                 y == e.occ[m].identity
      <3>1. x = (IF k = o THEN new ELSE u) /\ y = (IF m = o THEN new ELSE v)
            /\ u \in DOMAIN d.ident /\ v \in DOMAIN d.ident
        <4>1. s.occ[k].identity = (IF k = o THEN new ELSE u)
              /\ s.occ[m].identity = (IF m = o THEN new ELSE v)
          BY SMTT(20), <1>2 DEF Rowed
        <4> QED BY <1>5, <1>8, <4>1
      <3>2. u # v /\ ({u, v} \in d.barred \/ Identities!UserLocked(d, u)
                      \/ Identities!UserLocked(d, v)) /\ k # m
        BY <2>1 DEF Parted
      <3>3. Parted(e, k, m) <=>
              x # y /\ ({x, y} \in e.barred \/ Identities!UserLocked(e, x)
                        \/ Identities!UserLocked(e, y))
        BY SMTT(20) DEF Parted
      <3> HIDE DEF u, v, x, y
      <3> QED BY <1>6, <1>8, <1>9, <3>1, <3>2, <3>3
    <2> QED BY <1>1, <1>8, <2>1, <2>2
  <1>11. ASSUME NEW k \in Identities!Holding(d, i) \ {o}
         PROVE  {o, k} \subseteq DOMAIN e.occ /\ Parted(e, o, k)
    <2>1. e.occ[o].identity = new /\ e.occ[k].identity = i
      <3>1. k \in DOMAIN d.occ /\ d.occ[k].identity = i /\ k # o
        BY DEF Identities!Holding
      <3>2. s.occ[o].identity = new /\ s.occ[k].identity = d.occ[k].identity
        BY <1>2, <3>1 DEF Rowed
      <3> QED BY <1>8, <3>1, <3>2
    <2>2. {new, i} \in e.barred
      BY <1>8
    <2>3. k \in DOMAIN d.occ /\ new # i
      BY SMTT(20), <1>1 DEF Identities!Holding
    <2> QED BY ZenonT(40), <1>1, <1>8, <2>1, <2>2, <2>3 DEF Parted
  <1>12. Separate(e, A \cup {{o, k} : k \in Identities!Holding(d, i) \ {o}})
    <2> SUFFICES ASSUME NEW p \in A \cup {{o, k} : k \in Identities!Holding(d, i) \ {o}}
                 PROVE  \E k, m \in DOMAIN e.occ : p = {k, m} /\ Parted(e, k, m)
      BY DEF Separate
    <2>1. CASE p \in A
      BY ZenonT(40), <1>10, <2>1
    <2>2. CASE p \notin A
      <3>1. PICK k \in Identities!Holding(d, i) \ {o} : p = {o, k}
        BY <2>2
      <3>2. o \in DOMAIN e.occ /\ k \in DOMAIN e.occ /\ Parted(e, o, k)
        BY <1>11
      <3> QED BY <3>1, <3>2
    <2> QED BY <2>1, <2>2
  <1>13. \A k \in DOMAIN d.occ : e.occ[k].file = d.occ[k].file /\ e.occ[k].name = d.occ[k].name
    <2>1. \A k \in DOMAIN d.occ : s.occ[k].file = d.occ[k].file /\ s.occ[k].name = d.occ[k].name
      BY <1>2 DEF Rowed
    <2>2. e.occ = s.occ
      BY <1>8
    <2> QED BY ZenonT(40), <2>1, <2>2
  <1> QED BY <1>1, <1>8, <1>12, <1>13 DEF Unlinked, Leaving

-----------------------------------------------------------------------------
(* There are identities left for every step                                *)

LEMMA Counting ==
  ASSUME NEW S, IsFiniteSet(S), NEW f, NEW T
  PROVE  /\ Cardinality(S) \in Nat
         /\ T \subseteq S \cup {f} => Cardinality(T) \in Nat /\ Cardinality(T) <= Cardinality(S) + 1
         /\ T \subseteq S => Cardinality(T) \in Nat /\ Cardinality(T) <= Cardinality(S)
         /\ T \subseteq S \ {f} /\ f \in S =>
              Cardinality(T) \in Nat /\ Cardinality(T) + 1 <= Cardinality(S)
  <1>1. Cardinality(S) \in Nat
    BY FS_CardinalityType
  <1>2. ASSUME T \subseteq S \cup {f} PROVE Cardinality(T) \in Nat
                 /\ Cardinality(T) <= Cardinality(S) + 1
    <2>1. IsFiniteSet(S \cup {f}) /\ Cardinality(S \cup {f}) <= Cardinality(S) + 1
          /\ Cardinality(S \cup {f}) \in Nat
      <3>1. IsFiniteSet(S \cup {f})
            /\ Cardinality(S \cup {f}) = IF f \in S THEN Cardinality(S) ELSE Cardinality(S) + 1
        BY FS_AddElement
      <3> QED BY <1>1, <3>1
    <2>2. IsFiniteSet(T) /\ Cardinality(T) <= Cardinality(S \cup {f})
      BY <1>2, <2>1, FS_Subset
    <2>3. Cardinality(T) \in Nat
      BY <2>2, FS_CardinalityType
    <2> QED BY <1>1, <2>1, <2>2, <2>3
  <1>3. ASSUME T \subseteq S PROVE Cardinality(T) \in Nat /\ Cardinality(T) <= Cardinality(S)
    <2>1. IsFiniteSet(T) /\ Cardinality(T) <= Cardinality(S)
      BY <1>3, FS_Subset
    <2> QED BY <2>1, FS_CardinalityType
  <1>4. ASSUME T \subseteq S \ {f},
               f \in S PROVE Cardinality(T) \in Nat /\ Cardinality(T) + 1 <= Cardinality(S)
    <2>1. IsFiniteSet(S \ {f}) /\ Cardinality(S \ {f}) = Cardinality(S) - 1
      BY <1>4, FS_RemoveElement
    <2>2. IsFiniteSet(T) /\ Cardinality(T) <= Cardinality(S \ {f})
      BY <1>4, <2>1, FS_Subset
    <2>3. Cardinality(T) \in Nat
      BY <2>2, FS_CardinalityType
    <2> QED BY <1>1, <2>1, <2>2, <2>3
  <1> QED BY <1>1, <1>2, <1>3, <1>4

LEMMA MissingFinite ==
  ASSUME Identities!IdentityAssumption, Inputs PROVE IsFiniteSet(Missing)
  <1>1. Missing \subseteq Documents /\ IsFiniteSet(Documents)
    <2>1. Missing \subseteq Documents
      BY DEF Missing, Inputs
    <2>2. IsFiniteSet(Documents)
      BY IdentitiesCardinality DEF Identities!IdentityAssumption
    <2> QED BY <2>1, <2>2
  <1> QED BY <1>1, FS_Subset

\* The rows have the files and values that they had.
SameRows(d, e) ==
  /\ DOMAIN e.occ = DOMAIN d.occ
  /\ \A o \in DOMAIN d.occ : e.occ[o].file = d.occ[o].file /\ e.occ[o].name = d.occ[o].name

LEMMA MissingSame ==
  ASSUME UNCHANGED <<analysis, corrected>>, SameRows(db, db')
  PROVE  Missing' = Missing
  BY DEF Missing, Identities!EffectiveName, SameRows

\* The bounds of the behaviour leave room for what is created.
LEMMA RoomIs ==
  ASSUME Identities!IdentityAssumption, IdentityInv
  PROVE  /\ Len(db.ident) \in Nat /\ Cardinality(Missing) \in Nat /\ MaxIdentities \in Nat
         /\ budget.analyses \in Nat /\ budget.corrections \in Nat /\ budget.decisions \in Nat
         /\ Len(db.ident) + Cardinality(Missing) + budget.analyses + budget.corrections
              + budget.decisions <= MaxIdentities
         /\ Len(db.ident) <= MaxIdentities
  <1>1. Len(db.ident) \in Nat
    BY Fields DEF IdentityInv, Sound, Tables
  <1>2. Cardinality(Missing) \in Nat
    BY MissingFinite, FS_CardinalityType DEF IdentityInv
  <1>3. MaxIdentities \in Nat /\ budget.analyses \in Nat /\ budget.corrections \in Nat
        /\ budget.decisions \in Nat
    BY DEF Identities!IdentityAssumption, IdentityInv, Inputs
  <1>4. Room
    BY DEF IdentityInv
  <1> QED BY <1>1, <1>2, <1>3, <1>4 DEF Room

LEMMA RoomStep ==
  ASSUME Identities!IdentityAssumption, IdentityInv,
         NEW n \in Nat, NEW m \in Nat, NEW a \in Nat, NEW c \in Nat, NEW x \in Nat,
         n + m + a + c + x <= Len(db.ident) + Cardinality(Missing) + budget.analyses
                                + budget.corrections + budget.decisions
  PROVE  n + m + a + c + x <= MaxIdentities /\ n <= MaxIdentities
  BY RoomIs

LEMMA RoomKept ==
  ASSUME Identities!IdentityAssumption, IdentityInv,
         Len(db'.ident) \in Nat, Cardinality(Missing') \in Nat, budget'.analyses \in Nat,
         budget'.corrections \in Nat, budget'.decisions \in Nat,
         Len(db'.ident) + Cardinality(Missing') + budget'.analyses + budget'.corrections
           + budget'.decisions
           <= Len(db.ident) + Cardinality(Missing) + budget.analyses + budget.corrections
                + budget.decisions
  PROVE  Room'
  <1>1. Len(db'.ident) + Cardinality(Missing') + budget'.analyses + budget'.corrections
          + budget'.decisions <= MaxIdentities
    BY RoomStep
  <1> QED BY <1>1 DEF Room

-----------------------------------------------------------------------------
(* Every step                                                              *)

\* Steps that leave the tables and the inputs as they are.
LEMMA QuietStep ==
  ASSUME IdentityInv, UNCHANGED <<analysis, corrected, db, budget, apart>>, run' \in Run,
         run'.queue \subseteq DOMAIN analysis, run'.rights \subseteq DOMAIN db.occ,
         run'.phase = "pair" => run'.queue # {} /\ run'.left \in DOMAIN db.occ
  PROVE  IdentityInv'
  <1>1. SameRows(db, db')
    BY DEF SameRows
  <1>2. Missing' = Missing
    BY <1>1, MissingSame
  <1>3. Room' /\ Inputs' /\ Runs'
    BY <1>2 DEF IdentityInv, Room, Inputs, Runs
  <1>4. Sound(db') /\ Separate(db', apart')
    BY DEF IdentityInv
  <1> QED BY <1>3, <1>4 DEF IdentityInv

\* A decision of the user.
LEMMA DecisionStep ==
  ASSUME Identities!IdentityAssumption, IdentityInv, UNCHANGED <<analysis, corrected, run>>,
         Identities!Decides,
         Sound(db'), Separate(db', apart'), SameRows(db, db'),
         Len(db'.ident) \in {Len(db.ident), Len(db.ident) + 1}
  PROVE  IdentityInv'
  <1>1. Missing' = Missing
    BY MissingSame
  <1>2. budget' = [budget EXCEPT !.decisions = @ - 1] /\ budget.decisions > 0 /\ Inputs /\ Runs
    BY DEF Identities!Decides, IdentityInv
  <1>3. Inputs' /\ budget'.analyses = budget.analyses /\ budget'.corrections = budget.corrections
        /\ budget'.decisions = budget.decisions - 1
    BY <1>2 DEF Inputs
  <1>4. Room'
    <2>1. Len(db'.ident) \in Nat /\ Len(db'.ident) <= Len(db.ident) + 1
      BY RoomIs
    <2>2. budget'.analyses \in Nat /\ budget'.corrections \in Nat /\ budget'.decisions \in Nat
          /\ Cardinality(Missing') \in Nat /\ Cardinality(Missing') = Cardinality(Missing)
      BY <1>1, <1>3, RoomIs DEF Inputs
    <2> DEFINE n == Len(db.ident)
              m == Cardinality(Missing)
              a == budget.analyses
              c == budget.corrections
              x == budget.decisions
              p == Len(db'.ident)
              q == Cardinality(Missing')
              aa == budget'.analyses
              cc == budget'.corrections
              xx == budget'.decisions
    <2>3. n \in Nat /\ m \in Nat /\ a \in Nat /\ c \in Nat /\ x \in Nat
      BY RoomIs
    <2>4. p \in Nat /\ q \in Nat /\ aa \in Nat /\ cc \in Nat /\ xx \in Nat
      BY <2>1, <2>2
    <2>5. p <= n + 1 /\ q = m /\ aa = a /\ cc = c /\ xx = x - 1
      BY <1>3, <2>1, <2>2
    <2>6. p + q + aa + cc + xx <= n + m + a + c + x
      <3> HIDE DEF n, m, a, c, x, p, q, aa, cc, xx
      <3> QED BY <2>3, <2>4, <2>5
    <2> QED BY <2>4, <2>6, RoomKept
  <1>5. Runs'
    BY <1>2 DEF Runs, SameRows
  <1> QED BY <1>3, <1>4, <1>5 DEF IdentityInv

LEMMA AnalyseStep ==
  ASSUME Identities!IdentityAssumption, IdentityInv, NEW f \in DOMAIN analysis,
         NEW c \in budget.contents, Identities!Analyse(f, c)
  PROVE  IdentityInv'
  <1>1. /\ analysis' = [analysis EXCEPT ![f]
                        = [number |-> @.number + 1, name |-> c.name, ids |-> c.ids]]
        /\ budget' = [budget EXCEPT !.analyses = @ - 1] /\ budget.analyses > 0
        /\ UNCHANGED <<corrected, db, run, apart>> /\ Inputs /\ Runs
    BY DEF Identities!Analyse, IdentityInv
  <1>2. c \in Identities!Content
          /\ analysis[f] \in [number : Nat, name : Identities!Names, ids : SUBSET Nat]
    BY <1>1 DEF Inputs
  <1>3. [number |-> analysis[f].number + 1, name |-> c.name, ids |-> c.ids]
          \in [number : Nat, name : Identities!Names, ids : SUBSET Nat]
    BY <1>2 DEF Identities!Content
  <1>4. DOMAIN analysis' = DOMAIN analysis
        /\ analysis' \in [DOMAIN analysis -> [number : Nat, name : Identities!Names,
                                              ids : SUBSET Nat]]
        /\ \A g \in DOMAIN analysis : g # f => analysis'[g] = analysis[g]
    BY <1>1, <1>3 DEF Inputs
  <1>5. Inputs' /\ budget'.analyses = budget.analyses - 1
          /\ budget'.corrections = budget.corrections
        /\ budget'.decisions = budget.decisions
    BY <1>1, <1>4 DEF Inputs
  <1>6. Missing' \subseteq Missing \cup {f}
    BY <1>1, <1>4 DEF Missing, Identities!EffectiveName
  <1>7. Cardinality(Missing') \in Nat /\ Cardinality(Missing') <= Cardinality(Missing) + 1
    BY <1>1, <1>6, MissingFinite, Counting
  <1>8. Room'
    <2>1. budget'.analyses \in Nat /\ budget'.corrections \in Nat /\ budget'.decisions \in Nat
          /\ Len(db'.ident) = Len(db.ident) /\ Len(db'.ident) \in Nat
      BY <1>1, <1>5, RoomIs DEF Inputs
    <2> DEFINE n == Len(db.ident)
              m == Cardinality(Missing)
              a == budget.analyses
              cr == budget.corrections
              x == budget.decisions
              p == Len(db'.ident)
              q == Cardinality(Missing')
              aa == budget'.analyses
              cc == budget'.corrections
              xx == budget'.decisions
    <2>3. n \in Nat /\ m \in Nat /\ a \in Nat /\ cr \in Nat /\ x \in Nat
      BY RoomIs
    <2>4. p \in Nat /\ q \in Nat /\ aa \in Nat /\ cc \in Nat /\ xx \in Nat
      BY <1>7, <2>1
    <2>5. p = n /\ q <= m + 1 /\ aa = a - 1 /\ cc = cr /\ xx = x
      BY <1>5, <1>7, <2>1
    <2>6. p + q + aa + cc + xx <= n + m + a + cr + x
      <3> HIDE DEF n, m, a, cr, x, p, q, aa, cc, xx
      <3> QED BY <2>3, <2>4, <2>5
    <2> QED BY <2>4, <2>6, RoomKept
  <1>9. Runs'
    BY <1>1, <1>4 DEF Runs
  <1>10. Sound(db') /\ Separate(db', apart')
    BY <1>1 DEF IdentityInv
  <1> QED BY <1>5, <1>8, <1>9, <1>10 DEF IdentityInv

LEMMA CorrectStep ==
  ASSUME Identities!IdentityAssumption, IdentityInv, NEW f \in DOMAIN analysis,
         NEW n \in Corrections, Identities!Correct(f, n)
  PROVE  IdentityInv'
  <1>1. /\ corrected' = [corrected EXCEPT ![f] = n]
        /\ budget' = [budget EXCEPT !.corrections = @ - 1] /\ budget.corrections > 0
        /\ UNCHANGED <<analysis, db, run, apart>> /\ Inputs /\ Runs
    BY DEF Identities!Correct, IdentityInv
  <1>2. n \in Identities!Names /\ f \in Documents
    BY <1>1 DEF Identities!IdentityAssumption, Inputs
  <1>3. Inputs' /\ budget'.analyses = budget.analyses
          /\ budget'.corrections = budget.corrections - 1
        /\ budget'.decisions = budget.decisions
    BY <1>1, <1>2 DEF Inputs
  <1>4. Missing' \subseteq Missing \cup {f}
    BY <1>1, <1>2 DEF Missing, Identities!EffectiveName, Inputs
  <1>5. Cardinality(Missing') \in Nat /\ Cardinality(Missing') <= Cardinality(Missing) + 1
    BY <1>1, <1>4, MissingFinite, Counting
  <1>6. Room'
    <2>1. budget'.analyses \in Nat /\ budget'.corrections \in Nat /\ budget'.decisions \in Nat
          /\ Len(db'.ident) = Len(db.ident) /\ Len(db'.ident) \in Nat
      BY <1>1, <1>3, RoomIs DEF Inputs
    <2> DEFINE nn == Len(db.ident)
              m == Cardinality(Missing)
              a == budget.analyses
              c == budget.corrections
              x == budget.decisions
              p == Len(db'.ident)
              q == Cardinality(Missing')
              aa == budget'.analyses
              cc == budget'.corrections
              xx == budget'.decisions
    <2>3. nn \in Nat /\ m \in Nat /\ a \in Nat /\ c \in Nat /\ x \in Nat
      BY RoomIs
    <2>4. p \in Nat /\ q \in Nat /\ aa \in Nat /\ cc \in Nat /\ xx \in Nat
      BY <1>5, <2>1
    <2>5. p = nn /\ q <= m + 1 /\ aa = a /\ cc = c - 1 /\ xx = x
      BY <1>3, <1>5, <2>1
    <2>6. p + q + aa + cc + xx <= nn + m + a + c + x
      <3> HIDE DEF nn, m, a, c, x, p, q, aa, cc, xx
      <3> QED BY <2>3, <2>4, <2>5
    <2> QED BY <2>4, <2>6, RoomKept
  <1>7. Runs'
    BY <1>1 DEF Runs
  <1>8. Sound(db') /\ Separate(db', apart')
    BY <1>1 DEF IdentityInv
  <1> QED BY <1>3, <1>6, <1>7, <1>8 DEF IdentityInv

\* What stays apart although a file's row changes: the pairs of rows that keep
\* their value.
LEMMA CarriedSeparate ==
  ASSUME NEW d, Tables(d), NEW e, NEW f, Keeps(d, e), Carried(d, e, f), e.barred = d.barred,
         NEW A, Separate(d, A), NEW B, B = {p \in A : \A o \in p : d.occ[o].name = e.occ[o].name}
  PROVE  Separate(e, B)
  <1> SUFFICES ASSUME NEW p \in B
               PROVE  \E o, k \in DOMAIN e.occ : p = {o, k} /\ Parted(e, o, k)
    BY DEF Separate
  <1>1. p \in A /\ \A o \in p : d.occ[o].name = e.occ[o].name
    OBVIOUS
  <1>2. PICK o \in DOMAIN d.occ, k \in DOMAIN d.occ : p = {o, k} /\ Parted(d, o, k)
    BY <1>1 DEF Separate
  <1>3. /\ o \in DOMAIN e.occ /\ e.occ[o].identity = d.occ[o].identity
        /\ k \in DOMAIN e.occ /\ e.occ[k].identity = d.occ[k].identity
    BY <1>1, <1>2 DEF Carried
  <1>4. d.occ[o].identity \in DOMAIN d.ident /\ d.occ[k].identity \in DOMAIN d.ident
    BY DEF Tables, Home
  <1>5. Parted(e, o, k)
    BY <1>2, <1>3, <1>4 DEF Parted, Identities!UserLocked, Keeps
  <1> QED BY <1>2, <1>3, <1>5

LEMMA MissingCarried ==
  ASSUME UNCHANGED <<analysis, corrected>>, NEW f \in DOMAIN analysis,
         Carried(db, db', f), Valued(db', f)
  PROVE  Missing' \subseteq Missing /\ f \notin Missing' /\ (~ Valued(db, f) => f \in Missing)
  <1>1. \A g : Identities!EffectiveName(g)' = Identities!EffectiveName(g)
    BY DEF Identities!EffectiveName
  <1>2. f \notin Missing'
    BY <1>1 DEF Missing, Valued
  <1>3. ASSUME NEW g \in Missing' PROVE g \in Missing
    <2>1. g \in DOMAIN analysis /\ g # f
      BY <1>2 DEF Missing
    <2>2. ASSUME NEW o \in DOMAIN db.occ, db.occ[o].file = g,
                 db.occ[o].name = Identities!EffectiveName(g)
          PROVE  FALSE
      <3>1. o \in DOMAIN db'.occ /\ db'.occ[o].file = g
              /\ db'.occ[o].name = Identities!EffectiveName(g)
        BY <2>1, <2>2 DEF Carried
      <3> QED BY <1>1, <3>1 DEF Missing
    <2> QED BY <2>1, <2>2 DEF Missing
  <1>4. ~ Valued(db, f) => f \in Missing
    BY DEF Missing, Valued
  <1> QED BY <1>2, <1>3, <1>4

LEMMA SynchronizeStep ==
  ASSUME Identities!IdentityAssumption, IdentityInv, Identities!SynchronizeFile
  PROVE  /\ IdentityInv'
         /\ \A o \in DOMAIN db.occ : db'.occ[o].identity # db.occ[o].identity =>
              ~ Identities!UserLocked(db, db.occ[o].identity)
                  /\ db'.occ[o].identity \notin DOMAIN db.ident
  <1> DEFINE f == Identities!Lower(run.queue)
             o == Identities!Existing(db', f)
  <1>1. /\ run.phase = "file" /\ run.queue # {}
        /\ db' = Identities!Synchronized(db, f) /\ apart' = Identities!Unchanged(db, db')
        /\ run' = [run EXCEPT !.phase = "pair", !.left = o, !.rights = Identities!Blocked(db', o),
                              !.seen = @ \cup {f}]
        /\ UNCHANGED <<analysis, corrected, budget>>
    BY DEF Identities!SynchronizeFile
  <1>2. Inputs /\ Runs /\ Tables(db) /\ Offered(db, {}) /\ Related(db, {}) /\ Separate(db, apart)
    BY DEF IdentityInv, Sound
  <1>3. run \in Run /\ run.queue \subseteq DOMAIN analysis /\ run.queue \in SUBSET Nat
          /\ run.queue \subseteq Documents
    BY <1>2 DEF Runs, Run, Identities!IdentityAssumption
  <1>4. f \in run.queue /\ f \in DOMAIN analysis /\ f \in Documents
    BY <1>1, <1>3, LowerIn
  <1>5. o = Identities!Existing(db', f)
    OBVIOUS
  <1> HIDE DEF f, o
  <1>6. /\ Tables(db') /\ Offered(db', {}) /\ Related(db', {}) /\ db'.barred = db.barred
        /\ Keeps(db, db') /\ Carried(db, db', f) /\ Valued(db', f) /\ Grown(db, db', f)
    BY <1>1, <1>2, <1>4, RoomIs, SynchronizedHolds
  <1>7. db' \in Db
    BY <1>6 DEF Tables
  <1>8. o \in DOMAIN db'.occ
    BY <1>5, <1>6, <1>7, ExistingIs
  <1>9. Sound(db') /\ Separate(db', apart')
    <2>1. apart' = {p \in apart : \A k \in p : db.occ[k].name = db'.occ[k].name}
      BY <1>1 DEF Identities!Unchanged
    <2>2. Separate(db', apart')
      BY <1>2, <1>6, <2>1, CarriedSeparate
    <2> QED BY <1>6, <2>2 DEF Sound
  <1>10. Inputs'
    BY <1>1, <1>2 DEF Inputs
  <1>11. Runs'
    <2>1. DOMAIN db'.occ \subseteq Nat /\ Identities!Blocked(db', o) \subseteq DOMAIN db'.occ
      BY <1>7, Fields DEF Identities!Blocked
    <2>2. run' \in Run
      BY <1>1, <1>3, <1>4, <1>8, <2>1 DEF Run
    <2>3. run'.queue = run.queue /\ run'.left = o /\ run'.rights = Identities!Blocked(db', o)
            /\ analysis' = analysis
      BY <1>1, <1>3 DEF Run
    <2> QED BY <1>1, <1>3, <1>8, <2>1, <2>2, <2>3 DEF Runs
  <1>12. Room'
    <2>1. Missing' \subseteq Missing /\ f \notin Missing' /\ (~ Valued(db, f) => f \in Missing)
      BY <1>1, <1>4, <1>6, MissingCarried
    <2> DEFINE S == Missing
               T == Missing'
               n == Len(db.ident)
               m == Cardinality(S)
               a == budget.analyses
               c == budget.corrections
               x == budget.decisions
               p == Len(db'.ident)
               q == Cardinality(T)
    <2>2. IsFiniteSet(S)
      BY <1>2, MissingFinite
    <2>3. n \in Nat /\ m \in Nat /\ a \in Nat /\ c \in Nat /\ x \in Nat
      BY RoomIs
    <2>4. p \in Nat
      BY <1>7, Fields
    <2>5. p = n \/ (p = n + 1 /\ f \in S)
      BY <1>6, <2>1 DEF Grown
    <2>6. T \subseteq S \ {f} /\ T \subseteq S
      BY <2>1
    <2>7. q \in Nat /\ q <= m /\ (f \in S => q + 1 <= m)
      <3> HIDE DEF S, T
      <3> QED BY <2>2, <2>6, Counting
    <2>8. p + q + a + c + x <= n + m + a + c + x
      <3> HIDE DEF n, m, a, c, x, p, q, S, T
      <3> QED BY <2>3, <2>4, <2>5, <2>7
    <2>9. budget' = budget
      BY <1>1
    <2> QED BY <2>3, <2>4, <2>7, <2>8, <2>9, RoomKept
  <1>13. \A k \in DOMAIN db.occ : db'.occ[k].identity # db.occ[k].identity =>
            ~ Identities!UserLocked(db, db.occ[k].identity)
                /\ db'.occ[k].identity \notin DOMAIN db.ident
    BY <1>6 DEF Carried
  <1> QED BY <1>9, <1>10, <1>11, <1>12, <1>13 DEF IdentityInv

LEMMA CompareStep ==
  ASSUME Identities!IdentityAssumption, IdentityInv, Identities!ComparePair
  PROVE  /\ IdentityInv'
         /\ \A o \in DOMAIN db.occ : db'.occ[o].identity # db.occ[o].identity =>
              ~ Identities!UserLocked(db, db.occ[o].identity)
                  /\ ~ Identities!UserLocked(db, db'.occ[o].identity)
  <1> DEFINE l == run.left
             r == Identities!Best(db, l, run.rights)
             pair == {l, r}
  <1>1. /\ run.phase = "pair" /\ run.rights # {}
        /\ db' = db \/ db' = Identities!StoreCandidate(db, l, r)
        /\ run' = [run EXCEPT !.rights = @ \ {r}, !.assessed = @ \cup {pair}]
        /\ UNCHANGED <<analysis, corrected, budget, apart>>
    BY DEF Identities!ComparePair
  <1>2. Inputs /\ Runs /\ Sound(db) /\ Separate(db, apart) /\ run \in Run
          /\ Len(db.ident) <= MaxIdentities
    BY RoomIs DEF IdentityInv, Runs
  <1>3. l \in DOMAIN db.occ /\ run.rights \subseteq DOMAIN db.occ /\ run.rights \in SUBSET Nat
    BY <1>1, <1>2 DEF Runs, Run
  <1>4. r = Identities!Best(db, l, run.rights) /\ pair = {l, r} /\ l = run.left
    OBVIOUS
  <1> HIDE DEF l, r, pair
  <1>5. r \in run.rights
    BY <1>1, <1>3, <1>4, BestIn
  <1>6. r \in DOMAIN db.occ /\ r \in Nat /\ l \in Nat /\ pair \in SUBSET Nat
    BY <1>2, <1>3, <1>4, <1>5 DEF Run
  <1>7. /\ Sound(db') /\ Same(db, db') /\ Separate(db', apart)
        /\ \A o \in DOMAIN db.occ : db'.occ[o].identity # db.occ[o].identity =>
              ~ Identities!UserLocked(db, db.occ[o].identity)
                  /\ ~ Identities!UserLocked(db, db'.occ[o].identity)
    <2>1. CASE db' = db
      BY <1>2, <2>1 DEF Same
    <2>2. CASE db' = Identities!StoreCandidate(db, l, r)
      BY <1>2, <1>3, <1>6, <2>2, StoreCandidateHolds
    <2> QED BY <1>1, <2>1, <2>2
  <1>8. SameRows(db, db') /\ Len(db'.ident) = Len(db.ident)
    BY <1>7 DEF Same, SameRows
  <1>9. Missing' = Missing
    BY <1>1, <1>8, MissingSame
  <1>10. Room' /\ Inputs'
    BY <1>1, <1>8, <1>9 DEF IdentityInv, Room, Inputs
  <1>11. Runs'
    <2>1. run' \in Run
      BY <1>1, <1>2, <1>6 DEF Run
    <2>2. run'.queue = run.queue /\ run'.left = run.left /\ run'.rights = run.rights \ {r}
          /\ run'.phase = run.phase /\ analysis' = analysis
      BY <1>1, <1>2 DEF Run
    <2> QED BY <1>2, <1>3, <1>8, <2>1, <2>2 DEF Runs, SameRows
  <1> QED BY <1>1, <1>7, <1>10, <1>11 DEF IdentityInv

\* The steps of a run and of a command that leave the tables as they are.
QuietSteps ==
  \/ Identities!Invalidate \/ Identities!BeginAfterCorrection
       \/ (\E force \in BOOLEAN : Identities!Resolve(force)) \/ Identities!Cancel
  \/ Identities!ListFiles \/ Identities!NextPage \/ Identities!SynchronizeFails
       \/ Identities!MarkFile \/ Identities!Crash \/ UNCHANGED Identities!vars

LEMMA QuietStepsHold ==
  ASSUME Identities!IdentityAssumption, IdentityInv, QuietSteps
  PROVE  IdentityInv' /\ db' = db
  <1>1. run \in Run /\ Inputs /\ run.queue \subseteq DOMAIN analysis
          /\ run.rights \subseteq DOMAIN db.occ
        /\ (run.phase = "pair" => run.queue # {} /\ run.left \in DOMAIN db.occ)
             /\ DOMAIN analysis \subseteq Documents
    BY DEF IdentityInv, Runs, Inputs
  <1>2. Identities!NoRun \in Run /\ Identities!NoRun.queue = {} /\ Identities!NoRun.rights = {}
          /\ Identities!NoRun.phase = "idle"
    BY DEF Identities!NoRun, Run
  <1>3. \A force \in BOOLEAN : Identities!Begin(force) =>
          run' \in Run /\ run'.queue = {} /\ run'.rights = {} /\ run'.phase = "list"
    <2> TAKE force \in BOOLEAN
    <2> HAVE Identities!Begin(force)
    <2>1. run' = [Identities!NoRun EXCEPT !.phase = "list", !.force = force]
      BY DEF Identities!Begin
    <2>2. run' = [phase |-> "list", force |-> force, seen |-> {}, queue |-> {}, left |-> 0,
                  rights |-> {}, assessed |-> {}, cancelled |-> FALSE]
      BY <2>1 DEF Identities!NoRun
    <2> HIDE DEF Identities!Begin
    <2> QED BY <2>2 DEF Run
  <1>4. UNCHANGED <<analysis, corrected, db, budget, apart>>
    BY DEF QuietSteps, Identities!Invalidate, Identities!BeginAfterCorrection, Identities!Resolve,
           Identities!Cancel, Identities!ListFiles, Identities!NextPage,
           Identities!SynchronizeFails, Identities!MarkFile, Identities!Crash, Identities!vars
  <1>5. /\ run' \in Run
        /\ run'.queue \subseteq DOMAIN analysis /\ run'.rights \subseteq DOMAIN db.occ
        /\ run'.phase = "pair" => run'.queue # {} /\ run'.left \in DOMAIN db.occ
    <2>1. CASE Identities!Invalidate
      BY <1>1, <2>1 DEF Identities!Invalidate, Run
    <2>2. CASE Identities!BeginAfterCorrection
      BY <1>1, <1>3, <2>2 DEF Identities!BeginAfterCorrection
    <2>3. CASE \E force \in BOOLEAN : Identities!Resolve(force)
      BY <1>3, <2>3 DEF Identities!Resolve
    <2>4. CASE Identities!Cancel
      BY <1>1, <2>4 DEF Identities!Cancel, Run
    <2>5. CASE Identities!ListFiles
      <3>1. Identities!FilesToProcess(run.force) \subseteq DOMAIN analysis
        BY DEF Identities!FilesToProcess
      <3> QED BY <1>1, <1>2, <2>5, <3>1 DEF Identities!ListFiles, Run
    <2>6. CASE Identities!NextPage
      BY <1>1, <2>6 DEF Identities!NextPage, Run
    <2>7. CASE Identities!SynchronizeFails
      BY <1>2, <2>7 DEF Identities!SynchronizeFails
    <2>8. CASE Identities!MarkFile
      <3> DEFINE f == Identities!Lower(run.queue)
      <3>1. /\ run.phase = "pair"
            /\ run' = [run EXCEPT !.phase = "file", !.queue = @ \ {f}, !.left = 0,
                                  !.rights = {}, !.seen = @ \cup {f}]
        BY <2>8 DEF Identities!MarkFile
      <3>2. run.queue \in SUBSET Nat /\ run.queue # {} /\ run.queue \subseteq Documents
        BY <1>1, <3>1 DEF Identities!IdentityAssumption
      <3>3. f \in Documents
        BY <3>2, LowerIn
      <3> HIDE DEF f
      <3> QED BY <1>1, <3>1, <3>3 DEF Run
    <2>9. CASE Identities!Crash
      BY <1>2, <2>9 DEF Identities!Crash, Identities!NoRun, Run
    <2>10. CASE UNCHANGED Identities!vars
      BY <1>1, <2>10 DEF Identities!vars
    <2> QED BY <2>1, <2>2, <2>3, <2>4, <2>5, <2>6, <2>7, <2>8, <2>9, <2>10 DEF QuietSteps
  <1> QED BY <1>4, <1>5, QuietStep

LEMMA ConfirmStep ==
  ASSUME Identities!IdentityAssumption, IdentityInv, NEW pair \in DOMAIN db.cand,
         Identities!Confirm(pair)
  PROVE  IdentityInv'
  <1> DEFINE l == Identities!Lower(pair)
             i == Identities!Canonical(db, l)
             j == Identities!Canonical(db, Other(pair, l))
             merged == Identities!Merge(db, i, j, TRUE)
             key == db.cand[pair].key
             mark == "user_confirmed"
             x == Marked(merged, pair, mark)
             A == apart \ Identities!Across(db, i, j)
  <1>1. Sound(db) /\ Separate(db, apart) /\ Tables(db) /\ Len(db.ident) <= MaxIdentities
    BY RoomIs DEF IdentityInv, Sound
  <1>2. /\ i # j /\ db' = Identities!RefreshGroups(x, {key}) /\ apart' = A /\ Identities!Decides
        /\ UNCHANGED <<analysis, corrected, run>>
    BY DEF Identities!Confirm, Other, Marked
  <1>3. l = Identities!Lower(pair) /\ i = Identities!Canonical(db, l)
          /\ j = Identities!Canonical(db, Other(pair, l))
    OBVIOUS
  <1>4. merged = Identities!Merge(db, i, j, TRUE) /\ A = apart \ Identities!Across(db, i, j)
          /\ x = Marked(merged, pair, mark)
        /\ mark \in Identities!Statuses /\ key = db.cand[pair].key
    BY DEF Identities!Statuses
  <1> HIDE DEF l, i, j, merged, key, mark, x, A
  <1>5. /\ i \in DOMAIN db.ident /\ Identities!ActiveIdentity(db, i)
        /\ j \in DOMAIN db.ident /\ Identities!ActiveIdentity(db, j)
    BY <1>1, <1>3, EndsAre
  <1>6. Sound(merged) /\ Same(db, merged) /\ Separate(merged, A) /\ merged.cand = db.cand
    BY <1>1, <1>2, <1>4, <1>5, UserMergeHolds
  <1>7. Sound(db') /\ Same(merged, db') /\ Separate(db', A)
    BY <1>2, <1>4, <1>6, ConfirmHolds
  <1>8. SameRows(db, db') /\ Len(db'.ident) = Len(db.ident)
    BY <1>6, <1>7 DEF Same, SameRows
  <1> QED BY <1>2, <1>7, <1>8, DecisionStep

LEMMA RejectStep ==
  ASSUME Identities!IdentityAssumption, IdentityInv, NEW pair \in DOMAIN db.cand,
         Identities!Reject(pair)
  PROVE  IdentityInv'
  <1> DEFINE l == Identities!Lower(pair)
             i == Identities!Canonical(db, l)
             j == Identities!Canonical(db, Other(pair, l))
             w == Identities!Bar(db, i, j)
             key == db.cand[pair].key
             x == Marked(w, pair, "user_rejected")
             A == apart \cup Identities!Across(db, i, j)
  <1>1. Sound(db) /\ Separate(db, apart) /\ Tables(db) /\ Len(db.ident) <= MaxIdentities
    BY RoomIs DEF IdentityInv, Sound
  <1>2. /\ i # j /\ db' = Identities!RefreshGroups(x, {key}) /\ apart' = A /\ Identities!Decides
        /\ UNCHANGED <<analysis, corrected, run>>
    BY DEF Identities!Reject, Other, Marked
  <1>3. l = Identities!Lower(pair) /\ i = Identities!Canonical(db, l)
          /\ j = Identities!Canonical(db, Other(pair, l))
    OBVIOUS
  <1>4. w = Identities!Bar(db, i, j) /\ A = apart \cup Identities!Across(db, i, j)
          /\ x = Marked(w, pair, "user_rejected")
        /\ key = db.cand[pair].key
    OBVIOUS
  <1> HIDE DEF l, i, j, w, key, x, A
  <1>5. i \in DOMAIN db.ident /\ j \in DOMAIN db.ident
    BY <1>1, <1>3, EndsAre
  <1>6. Sound(db') /\ Same(db, db') /\ Separate(db', apart \cup Identities!Across(db, i, j))
    BY <1>1, <1>2, <1>4, <1>5, RejectHolds
  <1>7. SameRows(db, db') /\ Len(db'.ident) = Len(db.ident)
    BY <1>6 DEF Same, SameRows
  <1> QED BY <1>2, <1>4, <1>6, <1>7, DecisionStep

LEMMA UserMergeStep ==
  ASSUME Identities!IdentityAssumption, IdentityInv, NEW i \in DOMAIN db.ident,
         NEW j \in DOMAIN db.ident, Identities!UserMerge(i, j)
  PROVE  IdentityInv'
  <1> DEFINE k == Identities!Canonical(db, j)
             A == apart \ Identities!Across(db, i, k)
  <1>1. Sound(db) /\ Separate(db, apart) /\ db \in Db /\ Forest(db)
          /\ Len(db.ident) <= MaxIdentities
        /\ MaxIdentities \in Nat
    BY RoomIs DEF IdentityInv, Sound, Tables
  <1>2. /\ k # i /\ Identities!ActiveIdentity(db, i) /\ db' = Identities!Merge(db, i, k, TRUE)
             /\ apart' = A /\ Identities!Decides
        /\ UNCHANGED <<analysis, corrected, run>>
    BY DEF Identities!UserMerge
  <1>3. k = Identities!Canonical(db, j) /\ A = apart \ Identities!Across(db, i, k)
    OBVIOUS
  <1> HIDE DEF k, A
  <1>4. k \in DOMAIN db.ident /\ Identities!ActiveIdentity(db, k)
    BY <1>1, <1>3, CanonicalIs
  <1>5. Sound(db') /\ Same(db, db') /\ Separate(db', apart \ Identities!Across(db, i, k))
    BY ZenonT(40), <1>1, <1>2, <1>4, UserMergeHolds
  <1>6. SameRows(db, db') /\ Len(db'.ident) = Len(db.ident)
    BY SMTT(20), <1>5 DEF Same, SameRows
  <1> QED BY <1>2, <1>3, <1>5, <1>6, DecisionStep

LEMMA UnlinkStep ==
  ASSUME Identities!IdentityAssumption, IdentityInv, NEW o \in DOMAIN db.occ, Identities!Unlink(o)
  PROVE  IdentityInv'
  <1> DEFINE i == db.occ[o].identity
             new == Len(db.ident) + 1
             split == Split(db, o, i, new)
             w == Identities!Bar(split, i, new)
             fs == {db.occ[o].file}
             A == apart \cup Leaving(db, o, i)
  <1>1. Sound(db) /\ Separate(db, apart)
    BY DEF IdentityInv
  <1>2. /\ db' = Identities!RefreshFiles(w, fs) /\ apart' = A /\ Identities!Decides
        /\ UNCHANGED <<analysis, corrected, run>>
    BY DEF Identities!Unlink, Split, Leaving
  <1>3. /\ i = db.occ[o].identity /\ new = Len(db.ident) + 1 /\ split = Split(db, o, i, new)
        /\ w = Identities!Bar(split, i, new) /\ fs = {db.occ[o].file}
        /\ A = apart \cup Leaving(db, o, i)
    OBVIOUS
  <1> HIDE DEF i, new, split, w, fs, A
  <1>4. Unlinked(db, db', o, i, new, split, w, fs, apart)
    BY <1>1, <1>2, <1>3, UnlinkHolds
  <1>5. SameRows(db, db')
    BY <1>4 DEF SameRows, Unlinked
  <1> QED BY <1>2, <1>3, <1>4, <1>5, DecisionStep DEF Unlinked

LEMMA IdentityInit ==
  ASSUME Identities!IdentityAssumption, Identities!Init PROVE IdentityInv
  <1>1. /\ budget \in [files : SUBSET Documents, contents : SUBSET Identities!Content,
                       analyses : Nat, corrections : Nat, decisions : Nat]
        /\ Cardinality(budget.files) + budget.analyses + budget.corrections + budget.decisions
             <= MaxIdentities
        /\ budget.files \subseteq Documents /\ IsFiniteSet(Documents) /\ MaxIdentities \in Nat
    BY IdentitiesCardinality DEF Identities!IdentityAssumption, Identities!Init
  <1>2. analysis \in [budget.files -> [number : Nat, name : Identities!Names, ids : SUBSET Nat]]
    <2>1. \A c \in budget.contents :
            [number |-> 1, name |-> c.name, ids |-> c.ids]
              \in [number : Nat, name : Identities!Names, ids : SUBSET Nat]
      BY <1>1 DEF Identities!Content
    <2> QED BY <2>1 DEF Identities!Init
  <1>3. /\ db.occ = <<>> /\ db.ident = <<>> /\ db.cand = <<>> /\ db.barred = {} /\ db.rel = {}
        /\ db.listed = {}
        /\ db = [occ |-> <<>>, ident |-> <<>>, cand |-> <<>>, barred |-> {}, rel |-> {},
                 listed |-> {}]
    BY DEF Identities!Init
  <1>4. db \in Db
    <2>1. <<>> \in [{} -> Candidate] /\ {} \in SUBSET SUBSET Nat
      OBVIOUS
    <2>2. <<>> \in Candidates
      BY <2>1 DEF Candidates
    <2>3. <<>> \in Seq(Occurrence) /\ <<>> \in Seq(Identity)
      OBVIOUS
    <2> QED BY <1>3, <2>2, <2>3 DEF Db
  <1>5. Inactive(db) = {} /\ DOMAIN db.ident = {} /\ DOMAIN db.occ = {} /\ DOMAIN db.cand = {}
          /\ Len(db.ident) = 0
    BY <1>3 DEF Inactive
  <1>6. Forest(db)
    <2>1. Cardinality(Inactive(db)) = 0
      BY <1>5, FS_EmptySet
    <2> DEFINE h == [x \in {} |-> 0]
    <2>2. h \in [DOMAIN db.ident -> 0..Cardinality(Inactive(db))]
      BY <1>5
    <2>3. Leads(db, h)
      BY <1>5 DEF Leads
    <2> QED BY <2>2, <2>3 DEF Forest
  <1>7. Home(db) /\ Paired(db) /\ Related(db, {}) /\ Offered(db, {})
    BY <1>3, <1>5 DEF Home, Paired, Related, Offered
  <1>8. Sound(db) /\ Separate(db, apart)
    BY <1>4, <1>6, <1>7 DEF Sound, Tables, Separate, Identities!Init
  <1>9. Inputs
    BY <1>1, <1>2 DEF Inputs, Identities!Init
  <1>10. Room
    <2>1. Missing \subseteq budget.files
      BY <1>2 DEF Missing
    <2>2. IsFiniteSet(budget.files)
      BY <1>1, FS_Subset
    <2>3. Cardinality(budget.files) \in Nat /\ Cardinality(Missing) \in Nat
          /\ Cardinality(Missing) <= Cardinality(budget.files)
      <3> DEFINE S == budget.files
                 T == Missing
      <3>1. IsFiniteSet(S) /\ T \subseteq S
        BY <2>1, <2>2
      <3> HIDE DEF S, T
      <3>2. Cardinality(S) \in Nat
        BY <3>1, FS_CardinalityType
      <3>3. IsFiniteSet(T) /\ Cardinality(T) <= Cardinality(S)
        BY <3>1, FS_Subset
      <3>4. Cardinality(T) \in Nat
        BY <3>3, FS_CardinalityType
      <3> QED BY <3>2, <3>3, <3>4 DEF S, T
    <2>4. budget.analyses \in Nat /\ budget.corrections \in Nat /\ budget.decisions \in Nat
      BY <1>1
    <2> QED BY <1>1, <1>5, <2>3, <2>4 DEF Room
  <1>11. Runs
    BY DEF Identities!Init, Runs, Run, Identities!NoRun
  <1> QED BY <1>8, <1>9, <1>10, <1>11 DEF IdentityInv

LEMMA LockedAlone ==
  ASSUME Identities!IdentityAssumption, IdentityInv PROVE Identities!LockedIsLeftAloneStep
  <1> SUFFICES ASSUME Identities!RunStep, NEW o \in DOMAIN db.occ,
                      db'.occ[o].identity # db.occ[o].identity
               PROVE  /\ ~ db.ident[db.occ[o].identity].locked
                      /\ db'.occ[o].identity \in DOMAIN db.ident =>
                           ~ db.ident[db'.occ[o].identity].locked
    BY DEF Identities!LockedIsLeftAloneStep
  <1>1. CASE Identities!SynchronizeFile
    BY <1>1, SynchronizeStep DEF Identities!UserLocked
  <1>2. CASE Identities!ComparePair
    BY <1>2, CompareStep DEF Identities!UserLocked
  <1>3. CASE Identities!ListFiles \/ Identities!NextPage \/ Identities!SynchronizeFails
               \/ Identities!MarkFile
    BY <1>3
    DEF Identities!ListFiles, Identities!NextPage, Identities!SynchronizeFails, Identities!MarkFile
  <1> QED BY <1>1, <1>2, <1>3 DEF Identities!RunStep

LEMMA IdentityStep ==
  ASSUME Identities!IdentityAssumption, IdentityInv, [Identities!Next]_(Identities!vars)
  PROVE  IdentityInv' /\ Identities!LockedIsLeftAloneStep
  <1>1. CASE \E f \in DOMAIN analysis, c \in budget.contents : Identities!Analyse(f, c)
    BY <1>1, AnalyseStep, LockedAlone
  <1>2. CASE \E f \in DOMAIN analysis, n \in Corrections : Identities!Correct(f, n)
    BY <1>2, CorrectStep, LockedAlone
  <1>3. CASE \E pair \in DOMAIN db.cand : Identities!Confirm(pair) \/ Identities!Reject(pair)
    BY <1>3, ConfirmStep, RejectStep, LockedAlone
  <1>4. CASE \E i, j \in DOMAIN db.ident : Identities!UserMerge(i, j)
    BY <1>4, UserMergeStep, LockedAlone
  <1>5. CASE \E o \in DOMAIN db.occ : Identities!Unlink(o)
    BY <1>5, UnlinkStep, LockedAlone
  <1>6. CASE Identities!SynchronizeFile
    BY <1>6, SynchronizeStep, LockedAlone
  <1>7. CASE Identities!ComparePair
    BY <1>7, CompareStep, LockedAlone
  <1>8. CASE QuietSteps
    BY <1>8, QuietStepsHold, LockedAlone
  <1> QED
    BY <1>1, <1>2, <1>3, <1>4, <1>5, <1>6, <1>7, <1>8
    DEF Identities!Next, Identities!UserStep, Identities!RunStep, QuietSteps

LEMMA IdentitySound ==
  ASSUME Identities!IdentityAssumption, IdentityInv
  PROVE  Identities!TypeOK /\ Identities!OccurrencesAreHome /\ Identities!KeptApart
           /\ Identities!RelationsAreCurrent /\ Identities!ProposalIsListed
  <1>1. /\ db \in Db /\ Home(db) /\ Forest(db) /\ Paired(db) /\ Related(db, {}) /\ Offered(db, {})
        /\ Separate(db, apart) /\ run \in Run /\ Len(db.ident) <= MaxIdentities
             /\ MaxIdentities \in Nat
    BY RoomIs DEF IdentityInv, Sound, Tables, Runs
  <1>2. /\ DOMAIN db.ident = 1..Len(db.ident) /\ Len(db.ident) \in Nat
        /\ \A o \in DOMAIN db.occ : db.occ[o] \in Occurrence
        /\ \A i \in DOMAIN db.ident : db.ident[i] \in Identity
        /\ \A p \in DOMAIN db.cand : db.cand[p].status \in Identities!Statuses
        /\ db.rel \subseteq Documents \X Nat /\ db.listed \subseteq Identities!Names
    BY <1>1, Fields
  <1>3. \A p \in Twos(db) : p \in Identities!Pairs
    <2> SUFFICES ASSUME NEW i \in DOMAIN db.ident, NEW j \in DOMAIN db.ident, i # j
                 PROVE  {i, j} \in Identities!Pairs
      BY DEF Twos
    <2> DEFINE q == <<i, j>>
    <2>1. q \in {r \in (1..MaxIdentities) \X (1..MaxIdentities) : r[1] # r[2]}
      BY <1>1, <1>2
    <2>2. {i, j} = {q[1], q[2]}
      OBVIOUS
    <2> QED BY <2>1, <2>2 DEF Identities!Pairs
  <1>4. \A i \in DOMAIN db.ident : db.ident[i].into \in 0..Len(db.ident)
    <2>1. PICK h \in [DOMAIN db.ident -> 0..Cardinality(Inactive(db))] : Leads(db, h)
      BY <1>1 DEF Forest
    <2> SUFFICES ASSUME NEW i \in DOMAIN db.ident PROVE db.ident[i].into \in 0..Len(db.ident)
      OBVIOUS
    <2>2. CASE Identities!ActiveIdentity(db, i)
      BY <1>2, <2>2 DEF Identities!ActiveIdentity
    <2>3. CASE ~ Identities!ActiveIdentity(db, i)
      BY <1>2, <2>1, <2>3 DEF Leads, Inactive
    <2> QED BY <2>2, <2>3
  <1>5. Identities!TypeOK
    <2>1. \A o \in DOMAIN db.occ : /\ db.occ[o].file \in Documents
            /\ db.occ[o].name \in Identities!Names
                                   /\ db.occ[o].identity \in DOMAIN db.ident
      BY <1>1, <1>2 DEF Occurrence, Home
    <2>2. DOMAIN db.cand \subseteq Identities!Pairs /\ db.barred \subseteq Identities!Pairs
      BY <1>1, <1>3 DEF Paired
    <2>3. run.seen \subseteq Documents
      BY <1>1 DEF Run
    <2> QED BY <1>1, <1>2, <1>4, <2>1, <2>2, <2>3 DEF Identities!TypeOK
  <1>6. Identities!OccurrencesAreHome
    BY <1>1 DEF Identities!OccurrencesAreHome, Home
  <1>7. Identities!KeptApart
    BY <1>1 DEF Identities!KeptApart, Separate, Parted
  <1>8. Identities!RelationsAreCurrent
    <2> DEFINE R == {<<db.occ[o].file, db.occ[o].identity>> : o
                     \in {k \in DOMAIN db.occ : db.occ[k].active}}
    <2>1. ASSUME NEW r \in db.rel PROVE r \in R
      <3>1. PICK f \in Documents, i \in Nat : r = <<f, i>>
        BY <1>2
      <3>2. PICK o \in DOMAIN db.occ : db.occ[o].active /\ db.occ[o].file = f
                   /\ db.occ[o].identity = i
        BY <1>1, <3>1 DEF Related
      <3> QED BY <3>1, <3>2
    <2>2. ASSUME NEW r \in R PROVE r \in db.rel
      <3>1. PICK o \in DOMAIN db.occ : db.occ[o].active
                   /\ r = <<db.occ[o].file, db.occ[o].identity>>
        OBVIOUS
      <3>2. db.occ[o].file \in Documents /\ db.occ[o].identity \in Nat
        BY <1>2 DEF Occurrence
      <3> QED BY <1>1, <3>1, <3>2 DEF Related
    <2> QED BY <2>1, <2>2 DEF Identities!RelationsAreCurrent
  <1>9. Identities!ProposalIsListed
    BY <1>1 DEF Identities!ProposalIsListed, Offered, Open
  <1> QED BY <1>5, <1>6, <1>7, <1>8, <1>9

-----------------------------------------------------------------------------
(* The parts together                                                      *)

OrganizingInv ==
  /\ part = "builders" => Store!IInv
  /\ part = "monitored" => Monitored!IInv
  /\ part = "rules" => RulesInv
  /\ part = "identities" => IdentityInv

LEMMA OrganizingInit == ASSUME Init PROVE OrganizingInv
  <1>1. CASE part \in {"office", "ruled", "desktop"}
    BY <1>1 DEF OrganizingInv
  <1>2. CASE part = "builders" /\ Store!Init
    BY <1>2, PartsAssumption, Store!InitHolds DEF OrganizingInv
  <1>3. CASE part = "monitored" /\ Monitored!Init
    BY <1>3, PartsAssumption, Monitored!InitHolds DEF OrganizingInv
  <1>4. CASE part = "rules" /\ Ruling!Init
    BY <1>4, PartsAssumption, RulesInit DEF OrganizingInv
  <1>5. CASE part = "identities" /\ Identities!Init
    BY <1>5, PartsAssumption, IdentityInit DEF OrganizingInv
  <1> QED BY <1>1, <1>2, <1>3, <1>4, <1>5 DEF Init

\* A step of the whole is one of the part that runs, or stutters.
LEMMA PartSteps ==
  ASSUME [Next]_vars
  PROVE  /\ part' = part
         /\ part = "builders" => [Store!Next]_(Store!vars)
         /\ part = "monitored" => [Monitored!Next]_(Monitored!vars)
         /\ part = "rules" => [Ruling!Next]_(Ruling!vars)
         /\ part = "identities" => [Identities!Next]_(Identities!vars)
  <1>1. CASE Next
    BY <1>1 DEF Next
  <1>2. CASE UNCHANGED vars
    <2>1. UNCHANGED <<part, storeVars, ruleVars, identityVars>>
      BY <1>2 DEF vars
    <2>2. UNCHANGED Store!vars
      BY <2>1 DEF storeVars, Store!vars, Store!store
    <2>3. UNCHANGED Monitored!vars
      BY <2>1 DEF storeVars, Monitored!vars, Monitored!store
    <2>4. UNCHANGED Ruling!vars
      BY <2>1 DEF ruleVars, Ruling!vars
    <2>5. UNCHANGED Identities!vars
      BY <2>1 DEF identityVars, Identities!vars
    <2> QED BY <2>1, <2>2, <2>3, <2>4, <2>5
  <1> QED BY <1>1, <1>2

LEMMA OrganizingStep == ASSUME OrganizingInv, [Next]_vars PROVE OrganizingInv'
  <1>1. part = "builders" => Store!IInv'
    BY PartSteps, PartsAssumption, Store!StepHolds DEF OrganizingInv
  <1>2. part = "monitored" => Monitored!IInv'
    BY PartSteps, PartsAssumption, Monitored!StepHolds DEF OrganizingInv
  <1>3. part = "rules" => RulesInv'
    BY PartSteps, PartsAssumption, RulesStep DEF OrganizingInv
  <1>4. part = "identities" => IdentityInv'
    BY PartSteps, PartsAssumption, IdentityStep DEF OrganizingInv
  <1> QED BY <1>1, <1>2, <1>3, <1>4, PartSteps DEF OrganizingInv

LEMMA OrganizingHolds == Spec => []OrganizingInv
  <1>1. Init => OrganizingInv
    BY OrganizingInit
  <1>2. OrganizingInv /\ [Next]_vars => OrganizingInv'
    BY OrganizingStep
  <1> QED BY <1>1, <1>2, PTL DEF Spec

\* The rule that decides for a file is the first enabled one that matches, in
\* the order the user was told (evaluate_rules, reorder_rules,
\* normalize_rule_positions), a rule that is gone boosts nothing once the
\* commands are done (refresh_rule_matches), and a suggestion becomes one rule
\* (accept_rule_suggestion), however commands on the rules overlap.
THEOREM RulesDecideHolds == Spec => []RulesDecide
  <1>1. OrganizingInv => RulesDecide
    <2> SUFFICES ASSUME OrganizingInv, part = "rules"
                 PROVE  /\ Ruling!TypeOK /\ Ruling!UserOrderDecides
                        /\ Ruling!NoDeadBoost /\ Ruling!LearnedOnce
      BY DEF RulesDecide, UserOrderDecides, NoDeadBoost, LearnedOnce
    <2> QED BY PartsAssumption, RulesSound DEF OrganizingInv
  <1> QED BY <1>1, OrganizingHolds, PTL

\* What the user separated stays separate through the merges, splits and
\* re-analyses that follow (merge_identities, unlink_occurrence,
\* synchronize_file), an occurrence is never with an identity that was merged
\* away (canonical_identity), and what files are related to and what awaits
\* the user are told as they are (refresh_file_relations, refresh_review_group).
THEOREM IdentitiesHold == Spec => []IdentitiesAreSound
  <1>1. OrganizingInv => IdentitiesAreSound
    <2> SUFFICES ASSUME OrganizingInv, part = "identities"
                 PROVE  /\ Identities!TypeOK /\ Identities!OccurrencesAreHome
                        /\ Identities!KeptApart /\ Identities!RelationsAreCurrent
                        /\ Identities!ProposalIsListed
      BY DEF IdentitiesAreSound, KeptApart, RelationsAreCurrent, ProposalIsListed,
             OccurrencesAreHome
    <2> QED BY PartsAssumption, IdentitySound DEF OrganizingInv
  <1> QED BY <1>1, OrganizingHolds, PTL

\* No step of a build changes a stored revision but to mark a drifted source
\* (persist_organization_proposal_with_meta), none of the learning asks again
\* what the user answered (record_organization_choice), and none of the
\* resolver moves an occurrence out of or into a locked identity
\* (synchronize_file, run_pair).
THEOREM DecisionsHold == Spec => DecisionsLast
  <1>1. ASSUME OrganizingInv, [Next]_vars
        PROVE  /\ part = "builders" => Store!HistoryIsKeptStep
               /\ part = "monitored" => Monitored!HistoryIsKeptStep
               /\ part = "rules" => Ruling!AnswerIsDurableStep
               /\ part = "identities" => Identities!LockedIsLeftAloneStep
    <2>1. part = "builders" => Store!HistoryIsKeptStep
      BY <1>1, PartSteps, PartsAssumption, Store!HistoryStep DEF OrganizingInv
    <2>2. part = "monitored" => Monitored!HistoryIsKeptStep
      BY <1>1, PartSteps, PartsAssumption, Monitored!HistoryStep DEF OrganizingInv
    <2>3. part = "rules" => Ruling!AnswerIsDurableStep
      BY <1>1, PartSteps, PartsAssumption, RulesStep DEF OrganizingInv
    <2>4. part = "identities" => Identities!LockedIsLeftAloneStep
      BY <1>1, PartSteps, PartsAssumption, IdentityStep DEF OrganizingInv
    <2> QED BY <2>1, <2>2, <2>3, <2>4
  <1>2. ASSUME OrganizingInv, [Next]_vars
        PROVE  /\ [/\ part = "builders" => Store!HistoryIsKeptStep
                   /\ part = "monitored" => Monitored!HistoryIsKeptStep]_vars
               /\ [part = "rules" => Ruling!AnswerIsDurableStep]_vars
               /\ [part = "identities" => Identities!LockedIsLeftAloneStep]_vars
    BY <1>1, <1>2
  <1> QED
    BY <1>2, OrganizingHolds, PTL
    DEF Spec, DecisionsLast, HistoryIsKept, AnswerIsDurable, LockedIsLeftAlone
=============================================================================

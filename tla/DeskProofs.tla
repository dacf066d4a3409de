------------------------------ MODULE DeskProofs ------------------------------
(***************************************************************************)
(* What is refused has no answer, what is recorded can be posted, what is  *)
(* posted was approved, and a verdict is true of the post: for all         *)
(* questions, replies, conversions, files and configurations.              *)
(*                                                                         *)
(* One decision approves and it binds what the record gives; the record    *)
(* was valid under the configuration of its run; and the platform holds    *)
(* forecasts of the question's type on its own options.  Sums are counted, *)
(* so that they are the same in any order.                                 *)
(***************************************************************************)
EXTENDS Desk, FiniteSetTheorems, TLAPS

\* Before the approval there is none, after it there is one in force.
OneApproval ==
    /\ stage \notin {"approved", "posted"} =>
        \A d \in decisions : d.decision # "approved"
    /\ stage \in {"approved", "posted"} => \E d \in decisions : Effective(d)

\* An approval binds a payload of the record.
ApprovalsAreDerived ==
    \A d \in decisions : d.decision = "approved" =>
        \E cfg \in Configs : Derives(cfg) /\ d.payload = Derived(cfg)

PostIsBound ==
    stage = "posted" => \E d \in decisions : Effective(d) /\ posted = d.payload

Inductive ==
    /\ config \in Configs
    /\ OneApproval
    /\ ApprovalsAreDerived
    /\ PostIsBound

\* What a record gives does not change with the record.
LEMMA DerivationIsKept ==
  ASSUME NEW cfg, UNCHANGED <<question, reply, sdk>>
  PROVE  Derives(cfg)' = Derives(cfg) /\ Derived(cfg)' = Derived(cfg)
<1>1. Derived(cfg)' = Derived(cfg)
  BY DEF Derived, PayloadOf, Cdf, IsChoice, IsBounded
<1>2. Converts(sdk, cfg)' = Converts(sdk, cfg)
  BY DEF Converts, Cdf, ArrayIsValid, StepFits, IsBounded, ZeroPointFits, GridIsConvertible,
         ExpectedPoints, NonDecreasing
<1>3. Plans(Derived(cfg))' = Plans(Derived(cfg))
  BY <1>1 DEF Plans, ExpectedPoints
<1> QED
  BY <1>1, <1>2, <1>3 DEF Derives, Derived

LEMMA EffectiveIsKept ==
  ASSUME NEW d, UNCHANGED decisions
  PROVE  Effective(d)' = Effective(d)
BY DEF Effective

\* Steps that decide nothing.
LEMMA NothingDecided ==
  ASSUME Inductive, config' \in Configs,
         UNCHANGED <<desk, reply, sdk, decisions, posted, stage>>
  PROVE  Inductive'
<1>1. OneApproval'
  BY EffectiveIsKept DEF Inductive, OneApproval
<1>2. ApprovalsAreDerived'
  BY DerivationIsKept DEF Inductive, ApprovalsAreDerived, desk
<1>3. PostIsBound'
  BY EffectiveIsKept DEF Inductive, PostIsBound
<1> QED
  BY <1>1, <1>2, <1>3 DEF Inductive

\* Steps before the record: nothing is approved, so nothing binds.
LEMMA BeforeTheRecord ==
  ASSUME Inductive, stage \notin {"approved", "posted"},
         stage' \notin {"approved", "posted"}, UNCHANGED <<config, decisions>>
  PROVE  Inductive'
BY DEF Inductive, OneApproval, ApprovalsAreDerived, PostIsBound

LEMMA PreflightStep == ASSUME Inductive, Preflight PROVE Inductive'
BY BeforeTheRecord DEF Preflight

LEMMA AnswerStep == ASSUME Inductive, Answer PROVE Inductive'
<1>1. stage' \in {"failed", "recorded", "generating"}
  BY DEF Answer, GiveUp, Repair, Keep
<1> QED
  BY <1>1, BeforeTheRecord DEF Answer

LEMMA ApproveStep == ASSUME Inductive, Approve PROVE Inductive'
<1>1. PICK new :
      /\ new.decision = "approved" /\ new.payload = Derived(config)
      /\ decisions' = decisions \cup {new}
      /\ stage = "recorded" /\ stage' = "approved"
      /\ Derives(config) /\ config' = config
      /\ UNCHANGED <<question, reply, sdk>>
  BY DEF Approve, Decide, desk, generation
<1>2. \A d \in decisions : d.decision # "approved"
  BY <1>1 DEF Inductive, OneApproval
<1>3. Effective(new)'
  BY <1>1, <1>2 DEF Effective
<1>4. OneApproval'
  BY <1>1, <1>3 DEF OneApproval
<1>5. ApprovalsAreDerived'
  BY <1>1, <1>2, DerivationIsKept DEF Inductive, ApprovalsAreDerived
<1> QED
  BY <1>1, <1>4, <1>5 DEF Inductive, PostIsBound

LEMMA RejectStep == ASSUME Inductive, Reject PROVE Inductive'
<1> DEFINE new == [seq |-> Cardinality(decisions) + 1, decision |-> "rejected",
                   payload |-> Nothing]
<1>1. /\ decisions' = decisions \cup {new}
      /\ stage = "recorded" /\ stage' = stage /\ config' = config
  BY DEF Reject, Decide
<1>2. \A d \in decisions' : d.decision # "approved"
  BY <1>1 DEF Inductive, OneApproval
<1> QED
  BY <1>1, <1>2 DEF Inductive, OneApproval, ApprovalsAreDerived, PostIsBound

LEMMA PostStep == ASSUME Inductive, Post PROVE Inductive'
<1>1. PICK payload \in Offered : IsAuthorized(payload) /\ posted' = payload
  BY DEF Post
<1>2. PICK d \in decisions : Effective(d) /\ payload = d.payload
  BY <1>1 DEF IsAuthorized
<1>3. /\ stage' = "posted" /\ config' = config
      /\ UNCHANGED <<question, reply, sdk, decisions>>
  BY DEF Post, desk, generation
<1>4. Effective(d)'
  BY <1>2, <1>3, EffectiveIsKept
<1>5. OneApproval' /\ PostIsBound'
  BY <1>1, <1>2, <1>3, <1>4 DEF OneApproval, PostIsBound
<1>6. ApprovalsAreDerived'
  BY <1>3, DerivationIsKept DEF Inductive, ApprovalsAreDerived
<1> QED
  BY <1>3, <1>5, <1>6 DEF Inductive

\* One decision at most approves, at every step from the preflight to the post.
THEOREM InductiveHolds == Spec => []Inductive
<1>1. Init => Inductive
  BY DEF Init, Inductive, OneApproval, ApprovalsAreDerived, PostIsBound
<1>2. ASSUME Inductive, [Next]_vars PROVE Inductive'
  <2>1. CASE Elsewhere \/ Rename \/ Refetch \/ Verify
    BY <1>2, <2>1, NothingDecided DEF Elsewhere, Rename, Refetch, Verify, generation, Inductive
  <2>2. CASE Deploy \/ UNCHANGED vars
    BY <1>2, <2>2, NothingDecided DEF Deploy, vars, generation, Inductive
  <2> QED
    BY <1>2, <2>1, <2>2, PreflightStep, AnswerStep, ApproveStep, RejectStep, PostStep DEF Next
<1> QED
  BY <1>1, <1>2, PTL DEF Spec

\* What is posted was shown at the approval and is what the record gives under
\* some configuration, whatever is deployed and whatever file is brought in
\* (submission.submission_key_for_approved_record).
THEOREM PostedIsApprovedHolds == Spec => []PostedIsApproved
<1>1. Inductive => PostedIsApproved
  BY DEF Inductive, PostIsBound, ApprovalsAreDerived, PostedIsApproved, Effective
<1> QED
  BY InductiveHolds, <1>1, PTL

-----------------------------------------------------------------------------
(* Sums, and labels in order.                                              *)

LEMMA UnitsAre ==
  ASSUME NEW S, NEW f \in [S -> Nat]
  PROVE  /\ \A x \in S, n \in Nat : <<x, n>> \in Units(f) <=> n \in 1 .. f[x]
         /\ \A u \in Units(f) : u = <<u[1], u[2]>> /\ u[1] \in S /\ u[2] \in 1 .. f[u[1]]
BY DEF Units

LEMMA OneToN ==
  ASSUME NEW n \in Nat
  PROVE  IsFiniteSet(1 .. n) /\ Cardinality(1 .. n) = n
<1>1. /\ IsFiniteSet(1 .. n)
      /\ Cardinality(1 .. n) = IF 1 > n THEN 0 ELSE n - 1 + 1
  <2>1. 1 \in Int /\ n \in Int
    OBVIOUS
  <2> QED
    BY <2>1, FS_Interval, Zenon
<1> QED
  BY <1>1

LEMMA UnitsAreFinite ==
  ASSUME NEW S, IsFiniteSet(S), NEW f \in [S -> Nat]
  PROVE  IsFiniteSet(Units(f)) /\ Total(f) \in Nat
<1> DEFINE Of(x) == {x} \X (1 .. f[x])
           F == {Of(x) : x \in S}
<1>1. IsFiniteSet(F)
  <2> DEFINE of == [x \in S |-> Of(x)]
  <2>1. of \in Surjection(S, F)
    BY DEF Surjection, Range
  <2> QED
    BY <2>1, FS_Surjection
<1>2. \A T \in F : IsFiniteSet(T)
  <2> SUFFICES ASSUME NEW x \in S PROVE IsFiniteSet(Of(x))
    OBVIOUS
  <2>1. IsFiniteSet({x}) /\ IsFiniteSet(1 .. f[x])
    BY FS_Singleton, OneToN
  <2> QED
    BY <2>1, FS_Product
<1>3. Units(f) = UNION F
  BY DEF Units
<1>4. IsFiniteSet(Units(f))
  BY <1>1, <1>2, <1>3, FS_UNION
<1> QED
  BY <1>4, FS_CardinalityType DEF Total

LEMMA TotalCarries ==
  ASSUME NEW S, NEW T, IsFiniteSet(T),
         NEW f \in [S -> Nat], NEW g \in [T -> Nat],
         NEW h \in [S -> T],
         \A x, y \in S : h[x] = h[y] => x = y,
         \A x \in S : f[x] <= g[h[x]]
  PROVE  Total(f) <= Total(g)
<1> DEFINE to == [u \in Units(f) |-> <<h[u[1]], u[2]>>]
<1>1. to \in [Units(f) -> Units(g)]
  BY UnitsAre DEF Units
<1>2. \A u, v \in Units(f) : to[u] = to[v] => u = v
  BY UnitsAre
<1>3. to \in Injection(Units(f), Units(g))
  BY <1>1, <1>2 DEF Injection, IsInjective
<1>4. IsFiniteSet(Units(g))
  BY UnitsAreFinite
<1> QED
  BY <1>3, <1>4, FS_Injection DEF Total
(* Reservations, and the initial state.                                    *)

\* A sum does not depend on the order of what is summed.
LEMMA TotalOfTheSame ==
  ASSUME NEW S, NEW T, IsFiniteSet(S), IsFiniteSet(T),
         NEW f \in [S -> Nat], NEW g \in [T -> Nat], NEW h \in Bijection(S, T),
         \A x \in S : g[h[x]] = f[x]
  PROVE  Total(f) = Total(g)
<1>1. h \in [S -> T] /\ \A x, y \in S : h[x] = h[y] => x = y
  BY DEF Bijection, Injection, IsInjective
<1>2. PICK k \in [T -> S] : \A y \in T : h[k[y]] = y
  <2> DEFINE back == [y \in T |-> CHOOSE x \in S : h[x] = y]
  <2>1. \A y \in T : \E x \in S : h[x] = y
    BY DEF Bijection, Surjection
  <2>2. back \in [T -> S] /\ \A y \in T : h[back[y]] = y
    BY <2>1
  <2> QED
    BY <2>2
<1>3. Total(f) <= Total(g)
  <2>1. \A x \in S : f[x] <= g[h[x]]
    BY <1>1
  <2> QED
    BY <1>1, <2>1, TotalCarries
<1>4. Total(g) <= Total(f)
  <2>1. \A x, y \in T : k[x] = k[y] => x = y
    BY <1>2
  <2>2. \A y \in T : g[y] <= f[k[y]]
    BY <1>2
  <2> QED
    BY <1>2, <2>1, <2>2, TotalCarries
<1> QED
  BY <1>3, <1>4, UnitsAreFinite

LEMMA TotalInOrder ==
  ASSUME NEW n \in Nat, NEW T, IsFiniteSet(T), NEW g \in [T -> Nat],
         NEW f \in [1 .. n -> Nat], NEW h \in Bijection(1 .. n, T),
         \A i \in 1 .. n : g[h[i]] = f[i]
  PROVE  Total(f) = Total(g)
<1>1. IsFiniteSet(1 .. n)
  BY OneToN
<1> QED
  BY <1>1, TotalOfTheSame

LEMMA SeqElement ==
  ASSUME NEW S, NEW s \in Seq(S), NEW i \in 1 .. Len(s)
  PROVE  s[i] \in S
OBVIOUS

LEMMA SeqOfItems ==
  ASSUME NEW S, NEW T, NEW s \in Seq(S), \A i \in 1 .. Len(s) : s[i] \in T
  PROVE  s \in Seq(T)
OBVIOUS

LEMMA TotalIsBounded ==
  ASSUME NEW S, IsFiniteSet(S), NEW low \in Nat, NEW high \in Nat, NEW f \in [S -> low .. high]
  PROVE  /\ Total(f) \in Nat /\ Cardinality(S) \in Nat
         /\ Cardinality(S) * low <= Total(f) /\ Total(f) <= Cardinality(S) * high
<1>1. f \in [S -> Nat]
  OBVIOUS
<1>2. IsFiniteSet(Units(f)) /\ Total(f) \in Nat
  BY <1>1, UnitsAreFinite
<1>3. Cardinality(S) \in Nat
  BY FS_CardinalityType
<1>4. S \X (1 .. low) \in SUBSET Units(f)
  BY DEF Units
<1>5. Units(f) \in SUBSET (S \X (1 .. high))
  BY DEF Units
<1>6. /\ IsFiniteSet(1 .. low) /\ Cardinality(1 .. low) = low
      /\ IsFiniteSet(1 .. high) /\ Cardinality(1 .. high) = high
  BY OneToN
<1>7. /\ Cardinality(S \X (1 .. low)) = Cardinality(S) * low
      /\ IsFiniteSet(S \X (1 .. high))
      /\ Cardinality(S \X (1 .. high)) = Cardinality(S) * high
  BY <1>6, FS_Product
<1>8. Cardinality(S) * low <= Total(f)
  BY <1>2, <1>4, <1>7, FS_Subset DEF Total
<1>9. Total(f) <= Cardinality(S) * high
  BY <1>5, <1>7, FS_Subset DEF Total
<1> QED
  BY <1>2, <1>3, <1>8, <1>9

LEMMA PlacesAre ==
  ASSUME NEW l \in ToSet(Alphabet)
  PROVE  Place(l) \in 1 .. Len(Alphabet) /\ Alphabet[Place(l)] = l
BY DeskInputs DEF Place, ToSet

LEMMA AlphabetIsFinite == IsFiniteSet(ToSet(Alphabet))
<1>1. Alphabet \in Surjection(1 .. Len(Alphabet), ToSet(Alphabet))
  BY DeskInputs DEF Surjection, ToSet
<1> QED
  BY <1>1, DeskInputs, OneToN, FS_Surjection

\* Each label has one place in the order, and each place one label.
LEMMA InOrderSorts ==
  ASSUME NEW S \in SUBSET ToSet(Alphabet)
  PROVE  /\ IsFiniteSet(S) /\ Cardinality(S) \in Nat
         /\ InOrder(S) \in Bijection(1 .. Cardinality(S), S)
<1> DEFINE upto(l) == {m \in S : Place(m) <= Place(l)}
           rank == [l \in S |-> Cardinality(upto(l))]
           n == Cardinality(S)
<1>1. IsFiniteSet(S) /\ n \in Nat
  BY AlphabetIsFinite, FS_Subset, FS_CardinalityType
<1>2. ASSUME NEW l \in S
      PROVE  /\ upto(l) \in SUBSET S /\ l \in upto(l) /\ IsFiniteSet(upto(l))
             /\ Cardinality(upto(l)) \in 1 .. n
  <2>1. upto(l) \in SUBSET S /\ l \in upto(l)
    BY PlacesAre, DeskInputs
  <2> HIDE DEF upto
  <2>2. IsFiniteSet(upto(l)) /\ Cardinality(upto(l)) <= n /\ Cardinality(upto(l)) \in Nat
    BY <1>1, <2>1, FS_Subset, FS_CardinalityType
  <2>3. Cardinality(upto(l)) # 0
    BY <2>1, <2>2, FS_EmptySet
  <2> QED
    BY <1>1, <2>1, <2>2, <2>3
<1>3. ASSUME NEW l \in S, NEW k \in S, Place(l) < Place(k)
      PROVE  rank[l] # rank[k]
  <2>1. upto(l) \in SUBSET upto(k) /\ k \notin upto(l)
    BY <1>3, PlacesAre, DeskInputs
  <2>2. k \in upto(k) /\ IsFiniteSet(upto(k))
    BY <1>2
  <2> HIDE DEF upto
  <2>3. Cardinality(upto(l)) # Cardinality(upto(k))
    BY <2>1, <2>2, FS_Subset
  <2> QED
    BY <2>3
<1>4. rank \in Injection(S, 1 .. n)
  <2>1. rank \in [S -> 1 .. n]
    <3> HIDE DEF upto, n
    <3> QED
      BY <1>2
  <2>2. ASSUME NEW l \in S, NEW k \in S, l # k PROVE rank[l] # rank[k]
    <3>1. Place(l) \in Nat /\ Place(k) \in Nat /\ Place(l) # Place(k)
      BY <2>2, PlacesAre, DeskInputs
    <3>2. CASE Place(l) < Place(k)
      BY <1>3, <3>2
    <3>3. CASE Place(k) < Place(l)
      BY <1>3, <3>3
    <3> QED
      BY <3>1, <3>2, <3>3
  <2> HIDE DEF rank
  <2> QED
    BY <2>1, <2>2 DEF Injection, IsInjective
<1>5. rank \in Surjection(S, 1 .. n)
  <2> HIDE DEF rank, n
  <2>1. IsFiniteSet(1 .. n) /\ Cardinality(1 .. n) = n
    BY <1>1, OneToN
  <2>2. Cardinality(S) = Cardinality(1 .. n)
    BY <2>1 DEF n
  <2> QED
    BY <1>4, <2>1, <2>2, FS_Injection
<1>6. \A i \in 1 .. n : InOrder(S)[i] \in S /\ rank[InOrder(S)[i]] = i
  <2> SUFFICES ASSUME NEW i \in 1 .. n
               PROVE  InOrder(S)[i] \in S /\ rank[InOrder(S)[i]] = i
    OBVIOUS
  <2>1. PICK l \in S : rank[l] = i
    BY <1>5 DEF Surjection
  <2>2. Cardinality(upto(l)) = i
    BY <2>1
  <2> DEFINE P(x) == x \in S /\ Cardinality(upto(x)) = i
  <2>3. InOrder(S)[i] = CHOOSE x : P(x)
    BY DEF InOrder
  <2> QED
    BY <2>2, <2>3
<1>7. DOMAIN InOrder(S) = 1 .. n /\ InOrder(S) \in [1 .. n -> S]
  <2>1. InOrder(S) = [i \in 1 .. n |-> InOrder(S)[i]]
    BY DEF InOrder
  <2> QED
    BY <1>6, <2>1
<1>8. InOrder(S) \in Injection(1 .. n, S)
  <2>1. \A i, j \in 1 .. n : InOrder(S)[i] = InOrder(S)[j] => i = j
    BY <1>6
  <2> QED
    BY <1>7, <2>1 DEF Injection, IsInjective
<1>9. \A l \in S : \E i \in 1 .. n : InOrder(S)[i] = l
  <2> SUFFICES ASSUME NEW l \in S PROVE \E i \in 1 .. n : InOrder(S)[i] = l
    OBVIOUS
  <2>1. rank[l] \in 1 .. n
    BY <1>2
  <2>2. InOrder(S)[rank[l]] \in S /\ rank[InOrder(S)[rank[l]]] = rank[l]
    BY <1>6, <2>1
  <2>3. InOrder(S)[rank[l]] = l
    BY <1>4, <2>2 DEF Injection, IsInjective
  <2> QED
    BY <2>1, <2>3
<1> QED
  BY <1>1, <1>7, <1>8, <1>9 DEF Bijection, Surjection

-----------------------------------------------------------------------------
(* What a recorded reply gives.                                            *)

LEMMA QuestionIs ==
  ASSUME question \in Questions
  PROVE  /\ question.qtype \in {"binary", "multiple_choice", "numeric", "discrete"}
         /\ IsChoice(question) =>
              /\ question.options \in Seq(ToSet(Alphabet)) /\ IsInjective(question.options)
              /\ Len(question.options) >= 2
         /\ IsBounded(question) => Curves[question] \subseteq Seq(Int)
BY DeskInputs DEF IsQuestion, IsChoice, IsBounded

LEMMA ConfigIs ==
  ASSUME NEW cfg \in Configs
  PROVE  /\ cfg.min_probability \in Floor .. Ceiling
         /\ cfg.max_probability \in Floor .. Ceiling
         /\ cfg.min_probability \in Nat /\ cfg.max_probability \in Nat
         /\ cfg.use_standardization \in BOOLEAN
BY DeskInputs, DeskNumbers DEF IsConfig

\* A reply splits the whole among the question's options.
LEMMA RepliesSplit ==
  ASSUME question \in Questions, NEW cfg \in Configs, IsChoice(question),
         NEW r, Parses(r, cfg), NEW s, NEW other,
         NEW c, c = PayloadOf(r, s, other).categories
  PROVE  /\ PayloadOf(r, s, other) = [question_type |-> "multiple_choice", categories |-> c]
         /\ ToSet(question.options) \in SUBSET ToSet(Alphabet)
         /\ c \in [ToSet(question.options) -> cfg.min_probability .. cfg.max_probability]
         /\ IsFiniteSet(ToSet(question.options))
         /\ Cardinality(ToSet(question.options)) = Len(question.options)
         /\ SumsToWhole(Total(c))
<1> DEFINE opts == r.options
           n == Len(opts)
           D == ToSet(question.options)
           labels == [i \in DOMAIN opts |-> opts[i].option]
           values == [i \in DOMAIN opts |-> opts[i].probability]
<1>1. /\ opts \in Seq([option : STRING, probability : 0 .. Whole])
      /\ n \in Nat /\ DOMAIN opts = 1 .. n
  BY DEF Parses, Conforms
<1>2. /\ ToSet(labels) = D /\ IsInjective(labels)
      /\ \A i \in DOMAIN values : Within(values[i], cfg)
      /\ SumsToWhole(Total(values))
  BY DEF Parses, OutputIsValid, ChoiceOutput, IsChoice, IsBounded
<1>3. D \in SUBSET ToSet(Alphabet) /\ IsFiniteSet(D) /\ Cardinality(D) = Len(question.options)
  <2>1. question.options \in Seq(ToSet(Alphabet)) /\ IsInjective(question.options)
    BY QuestionIs
  <2>2. D \in SUBSET ToSet(Alphabet)
    BY <2>1 DEF ToSet
  <2>3. question.options \in Bijection(1 .. Len(question.options), D)
    BY <2>1 DEF ToSet, Bijection, Injection, Surjection
  <2>4. /\ IsFiniteSet(1 .. Len(question.options))
        /\ Cardinality(1 .. Len(question.options)) = Len(question.options)
    BY <2>1, OneToN
  <2> HIDE DEF D
  <2>5. IsFiniteSet(D) /\ Cardinality(D) = Cardinality(1 .. Len(question.options))
    BY <2>3, <2>4, FS_Bijection DEF ExistsBijection
  <2> QED
    BY <2>2, <2>4, <2>5
<1>4. /\ labels \in Bijection(1 .. n, D)
  <2>1. labels = [i \in 1 .. n |-> labels[i]]
    BY <1>1
  <2> HIDE DEF labels, D, n
  <2> QED
    BY <1>2, <2>1 DEF ToSet, Bijection, Injection, Surjection
<1>5. /\ values \in [1 .. n -> Nat]
      /\ \A i \in 1 .. n : values[i] \in cfg.min_probability .. cfg.max_probability
  <2>1. Whole \in Nat
    BY DeskNumbers
  <2>2. ASSUME NEW i \in 1 .. n
        PROVE  values[i] \in Nat /\ values[i] \in cfg.min_probability .. cfg.max_probability
    <3>1. opts[i] \in [option : STRING, probability : 0 .. Whole]
      BY <1>1, SeqElement, Zenon
    <3>2. values[i] = opts[i].probability /\ i \in DOMAIN values
      BY <1>1
    <3> HIDE DEF opts, values
    <3>3. values[i] \in Nat /\ Within(values[i], cfg)
      BY <1>2, <2>1, <3>1, <3>2
    <3> QED
      BY <3>3, ConfigIs DEF Within
  <2>3. values = [i \in 1 .. n |-> values[i]]
    BY <1>1
  <2> HIDE DEF values, n
  <2> QED
    BY <2>2, <2>3
<1>6. PayloadOf(r, s, other) = [question_type |-> "multiple_choice", categories |-> c]
  BY DEF PayloadOf, IsChoice, IsBounded
<1>7. c = [l \in {opts[i].option : i \in DOMAIN opts} |->
             opts[CHOOSE i \in DOMAIN opts : opts[i].option = l].probability]
  BY DEF PayloadOf, IsChoice, IsBounded
<1>8. {opts[i].option : i \in DOMAIN opts} = D
  BY <1>2 DEF ToSet
<1>9. ASSUME NEW i \in 1 .. n
      PROVE  c[labels[i]] = values[i]
  <2>1. labels[i] \in D
    BY <1>4 DEF Bijection, Injection
  <2> DEFINE j == CHOOSE k \in DOMAIN opts : opts[k].option = labels[i]
  <2>2. j \in DOMAIN opts /\ opts[j].option = labels[i]
    BY <1>1
  <2> DEFINE Of(l) == opts[CHOOSE k \in DOMAIN opts : opts[k].option = l].probability
  <2>3. c[labels[i]] = opts[j].probability
    <3>1. c = [l \in D |-> Of(l)]
      BY <1>7, <1>8, Zenon
    <3>2. Of(labels[i]) = opts[j].probability
      OBVIOUS
    <3> HIDE DEF Of, labels, D, j
    <3> QED
      BY <2>1, <3>1, <3>2
  <2> HIDE DEF j
  <2>4. j = i
    BY <1>1, <1>2, <2>2 DEF IsInjective
  <2> QED
    BY <1>1, <2>3, <2>4
<1>10. c \in [D -> cfg.min_probability .. cfg.max_probability]
  <2> HIDE DEF opts, labels, values, n, D
  <2>1. \A l \in D : c[l] \in cfg.min_probability .. cfg.max_probability
    BY <1>4, <1>5, <1>9 DEF Bijection, Surjection
  <2>2. c = [l \in D |-> c[l]]
    BY <1>7, <1>8
  <2> QED
    BY <2>1, <2>2
<1>11. Total(values) = Total(c)
  <2> HIDE DEF opts, labels, values, n, D
  <2>1. PICK m, E, f, g, h :
          m \in Nat /\ m = n /\ E = D /\ f = values /\ g = c /\ h = labels
    BY <1>1
  <2>2. c \in [D -> Nat]
    BY <1>10, ConfigIs
  <2>3. /\ IsFiniteSet(E) /\ f \in [1 .. m -> Nat] /\ g \in [E -> Nat]
        /\ h \in Bijection(1 .. m, E)
        /\ \A i \in 1 .. m : g[h[i]] = f[i]
    BY <1>3, <1>4, <1>5, <1>9, <2>1, <2>2
  <2>4. m \in Nat
    BY <2>1
  <2>5. Total(f) = Total(g)
    BY <2>3, <2>4, TotalInOrder
  <2> QED
    BY <2>1, <2>5
<1> HIDE DEF opts, labels, values, n
<1> QED
  BY <1>2, <1>3, <1>6, <1>10, <1>11

\* In whatever order the categories are rendered, they come to the same sum.
LEMMA SortedTotal ==
  ASSUME NEW S \in SUBSET ToSet(Alphabet), NEW c \in [S -> Nat]
  PROVE  Total(Sorted(c)) = Total(c)
<1>1. /\ IsFiniteSet(S) /\ Cardinality(S) \in Nat
      /\ InOrder(S) \in Bijection(1 .. Cardinality(S), S)
  BY InOrderSorts
<1>2. DOMAIN InOrder(S) = 1 .. Cardinality(S) /\ InOrder(S) \in [1 .. Cardinality(S) -> S]
  BY <1>1 DEF Bijection, Injection
<1>3. Sorted(c) = [i \in 1 .. Cardinality(S) |-> c[InOrder(S)[i]]]
  BY <1>2 DEF Sorted
<1>4. Sorted(c) \in [1 .. Cardinality(S) -> Nat]
  BY <1>2, <1>3
<1>5. IsFiniteSet(1 .. Cardinality(S))
  BY <1>1, OneToN
<1>6. \A i \in 1 .. Cardinality(S) : c[InOrder(S)[i]] = Sorted(c)[i]
  BY <1>3
<1> QED
  BY <1>1, <1>4, <1>5, <1>6, TotalOfTheSame

IsRecord(r, s, cfg) ==
    /\ Parses(r, cfg)
    /\ s \in Outcomes
    /\ Converts(s, cfg)

Recorded == \E r, s, cfg : r = reply /\ s = sdk /\ cfg = used /\ IsRecord(r, s, cfg)

\* A recorded reply is a plan.
LEMMA RecordedDerives ==
  ASSUME question \in Questions, used \in Configs, IsRecord(reply, sdk, used),
         IsChoice(question) => Len(question.options) <= MaxCategories
  PROVE  Derives(used)
<1>1. question.qtype \in {"binary", "multiple_choice", "numeric", "discrete"}
  BY QuestionIs
<1> DEFINE payload == PayloadOf(reply, sdk, used)
<1>2. CASE question.qtype = "binary"
  <2>1. payload = [question_type |-> "binary", probability_yes |-> reply.probability_yes]
    BY <1>2 DEF PayloadOf, IsChoice, IsBounded
  <2>2. reply.probability_yes \in 0 .. Whole /\ Within(reply.probability_yes, used)
    BY <1>2 
    DEF IsRecord, Parses, Conforms, OutputIsValid, BinaryOutput, IsChoice, IsBounded
  <2>3. reply.probability_yes \in Floor .. Ceiling
    BY <2>2, ConfigIs, DeskNumbers DEF Within
  <2> HIDE DEF payload
  <2>4. Plans(payload)
    BY <2>1, <2>3 DEF Plans
  <2> QED
    BY <2>4 DEF Derives, IsRecord, payload
<1>3. CASE IsChoice(question)
  <2>1. PICK c : c = payload.categories
    OBVIOUS
  <2> DEFINE D == ToSet(question.options)
  <2>2. /\ payload = [question_type |-> "multiple_choice", categories |-> c]
        /\ D \in SUBSET ToSet(Alphabet)
        /\ c \in [D -> used.min_probability .. used.max_probability]
        /\ Cardinality(D) = Len(question.options)
        /\ SumsToWhole(Total(c))
    BY <1>3, <2>1, RepliesSplit DEF IsRecord
  <2> HIDE DEF payload, D
  <2>3. c \in [D -> Floor .. Ceiling] /\ c \in [D -> Nat]
    BY <2>2, ConfigIs, DeskNumbers
  <2>4. SumsToWhole(Total(Sorted(c)))
    BY <2>2, <2>3, SortedTotal
  <2>5. Cardinality(DOMAIN c) \in 1 .. MaxCategories
    BY <1>3, <2>2, <2>3, QuestionIs, DeskNumbers
  <2>6. AreCategories(c)
    BY <2>4, <2>5 DEF AreCategories
  <2>7. Plans(payload)
    BY <2>2, <2>3, <2>6 DEF Plans
  <2> QED
    BY <2>7 DEF Derives, IsRecord, payload
<1>4. CASE IsBounded(question)
  <2>1. PICK curve : curve = Cdf(sdk, used)
    OBVIOUS
  <2>2. payload = [question_type |-> question.qtype, continuous_cdf |-> curve]
    BY <1>4, <2>1 DEF PayloadOf, IsBounded, IsChoice
  <2>3. ArrayIsValid(curve, used)
    BY <1>4, <2>1 DEF IsRecord, Converts
  <2>4. curve \in Seq(Int)
    <3>1. sdk \in [BOOLEAN -> Curves[question] \cup {Refused}]
      BY <1>4 DEF IsRecord, Outcomes
    <3>2. curve \in Curves[question] \cup {Refused}
      BY <2>1, <3>1, ConfigIs DEF Cdf
    <3>3. Refused \in Seq(Int)
      BY DEF Refused
    <3>4. Curves[question] \subseteq Seq(Int)
      BY <1>4, QuestionIs
    <3> QED
      BY <3>2, <3>3, <3>4
  <2>5. curve \in Seq(0 .. Whole)
    <3>1. \A i \in 1 .. Len(curve) : curve[i] \in 0 .. Whole
      BY <2>3, <2>4 DEF ArrayIsValid, ToSet
    <3>2. PICK T : T = 0 .. Whole
      OBVIOUS
    <3>3. curve \in Seq(T)
      BY <2>4, <3>1, <3>2, SeqOfItems
    <3> QED
      BY <3>2, <3>3
  <2> HIDE DEF payload
  <2>6. Plans(payload)
    BY <1>4, <2>2, <2>3, <2>5 DEF Plans, ArrayIsValid, IsBounded
  <2> QED
    BY <2>6 DEF Derives, IsRecord, payload
<1> QED
  BY <1>1, <1>2, <1>3, <1>4 DEF IsChoice, IsBounded

-----------------------------------------------------------------------------
(* What is known of the record.                                            *)

\* The question, the configurations, and what they make of the reply.
Known ==
    /\ question \in Questions /\ supplied \in Sources
    /\ config \in Configs /\ used \in Configs
    /\ stage \in {"fresh", "refused", "generating", "failed", "recorded", "approved", "posted"}
    /\ stage \in {"recorded", "approved", "posted"} => Recorded
    /\ stage = "refused" => IsRefused(question, used)
    /\ stage = "generating" => ~IsRefused(question, used)

LEMMA RecordIsKept ==
  ASSUME NEW r, NEW s, NEW cfg, UNCHANGED desk
  PROVE  IsRecord(r, s, cfg)' = IsRecord(r, s, cfg)
<1>1. question' = question /\ supplied' = supplied
  BY DEF desk
<1>2. Conforms(r)' = Conforms(r)
  BY <1>1 DEF Conforms, Prediction, IsChoice, IsBounded
<1>3. Attributed(r, question, supplied)' = Attributed(r, question, supplied)
  BY <1>1 DEF Attributed
<1>4. OutputIsValid(r, cfg)' = OutputIsValid(r, cfg)
  BY <1>1 DEF OutputIsValid, BinaryOutput, ChoiceOutput, NumericOutput, IsChoice, IsBounded, InBounds
<1>5. (s \in Outcomes)' = (s \in Outcomes)
  BY <1>1 DEF Outcomes, IsBounded
<1>6. Converts(s, cfg)' = Converts(s, cfg)
  BY <1>1 DEF Converts, Cdf, ArrayIsValid, StepFits, IsBounded, ZeroPointFits, GridIsConvertible,
         ExpectedPoints, NonDecreasing
<1> QED
  BY <1>2, <1>3, <1>4, <1>5, <1>6 DEF IsRecord, Parses

\* Steps that leave the record as it is.
LEMMA NothingRecorded ==
  ASSUME Known, config' \in Configs, UNCHANGED <<desk, generation>>,
         stage' = stage \/ (stage \in {"recorded", "approved"} /\ stage' \in {"approved", "posted"})
  PROVE  Known'
<1>1. UNCHANGED <<question, supplied, used, reply, sdk>>
  BY DEF desk, generation
<1>2. Recorded => Recorded'
  <2> SUFFICES ASSUME Recorded PROVE Recorded'
    OBVIOUS
  <2>1. PICK r, s, cfg : r = reply /\ s = sdk /\ cfg = used /\ IsRecord(r, s, cfg)
    BY DEF Recorded
  <2>2. IsRecord(r, s, cfg)'
    BY <2>1, RecordIsKept
  <2>3. r = reply' /\ s = sdk' /\ cfg = used'
    BY <1>1, <2>1
  <2> QED
    BY <2>2, <2>3 DEF Recorded
<1>3. IsRefused(question, used) = IsRefused(question, used)'
  BY <1>1
<1> QED
  BY <1>1, <1>2, <1>3 DEF Known

LEMMA AnswerKnows == ASSUME Known, Answer PROVE Known'
<1>1. /\ stage = "generating" /\ UNCHANGED <<desk, config, used>>
      /\ stage' \in {"failed", "generating", "recorded"}
  BY DEF Answer, GiveUp, Repair, Keep
<1>2. CASE stage' = "recorded"
  <2>1. PICK r \in Replies[question] :
          Parses(r, used) /\ \E s \in Outcomes : Converts(s, used) /\ Keep(r, s)
    BY <1>1, <1>2 DEF Answer, GiveUp, Repair
  <2>2. PICK s \in Outcomes : Converts(s, used) /\ Keep(r, s)
    BY <2>1
  <2>3. PICK cfg : cfg = used
    OBVIOUS
  <2>4. IsRecord(r, s, cfg)
    BY <2>1, <2>2, <2>3 DEF IsRecord
  <2>5. IsRecord(r, s, cfg)'
    BY <1>1, <2>4, RecordIsKept
  <2>6. reply' = r /\ sdk' = s /\ used' = cfg
    BY <1>1, <2>2, <2>3 DEF Keep
  <2>7. Recorded'
    BY <2>5, <2>6 DEF Recorded
  <2> QED
    BY <1>1, <1>2, <2>7 DEF Known, desk
<1> QED
  BY <1>1, <1>2 DEF Known, desk

LEMMA NextKnows == ASSUME Known, [Next]_vars PROVE Known'
<1>1. CASE Preflight
  BY <1>1 DEF Known, Preflight, desk
<1>2. CASE Answer
  BY <1>2, AnswerKnows
<1>3. CASE Approve \/ Reject \/ Post
  BY <1>3, NothingRecorded DEF Approve, Reject, Decide, Post, Known
<1>4. CASE Elsewhere \/ Rename \/ Refetch \/ Verify
  BY <1>4, NothingRecorded DEF Elsewhere, Rename, Refetch, Verify, Known
<1>5. CASE Deploy \/ UNCHANGED vars
  BY <1>5, NothingRecorded DEF Deploy, vars, Known
<1> QED
  BY <1>1, <1>2, <1>3, <1>4, <1>5 DEF Next

\* What is recorded was parsed and converted under the configuration its run loaded,
\* and what is refused is refused by that configuration (generate._run_attempts).
THEOREM KnownHolds == Spec => []Known
<1>1. Init => Known
  BY DEF Init, Known
<1> QED
  BY <1>1, NextKnows, PTL DEF Spec

\* Whatever is recorded can be approved and posted under the configuration it was
\* generated under, but for more options than a payload may carry
\* (generate._conversion_problems, submission_payload._require_postable).
THEOREM RecordedIsPostableHolds == Spec => []RecordedIsPostable
<1>1. Known => RecordedIsPostable
  <2> SUFFICES ASSUME Known, stage \in {"recorded", "approved", "posted"},
                      IsChoice(question) => Len(question.options) <= MaxCategories
               PROVE  Derives(used)
    BY DEF RecordedIsPostable
  <2>1. IsRecord(reply, sdk, used)
    BY DEF Known, Recorded
  <2> QED
    BY <2>1, RecordedDerives DEF Known
<1> QED
  BY <1>1, KnownHolds, PTL

-----------------------------------------------------------------------------
(* What is refused.                                                        *)

\* Between an even split at one bound and one at the other lie all sums.
LEMMA SumsAdmit ==
  ASSUME NEW n \in Nat, NEW cfg, NEW total \in Nat, NEW low \in Nat, NEW high \in Nat,
         low = n * cfg.min_probability, high = n * cfg.max_probability,
         low <= total, total <= high, SumsToWhole(total)
  PROVE  Admits(n, cfg)
<1>1. Whole \in Nat /\ Tolerance \in Nat
  BY DeskNumbers
<1>2. \/ low <= Whole /\ Whole <= high
      \/ low > Whole /\ SumsToWhole(low)
      \/ high < Whole /\ SumsToWhole(high)
  BY <1>1 DEF SumsToWhole, Distance
<1> QED
  BY <1>2 DEF Admits

Splits(n, low, high) == [1 .. n -> low .. high]

LEMMA LeastNatural ==
  ASSUME NEW T \in SUBSET Nat, T # {}
  PROVE  \E p \in T : \A q \in T : p <= q
<1>1. IsWellFoundedOn(OpToRel(<, Nat), Nat)
  BY NatLessThanWellFounded
<1>2. PICK p \in T : \A q \in T : <<q, p>> \notin OpToRel(<, Nat)
  BY <1>1, WFMin, Zenon
<1>3. p \in Nat /\ \A q \in T : q \in Nat
  OBVIOUS
<1>4. \A q \in T : ~(q < p)
  BY <1>2, <1>3, Zenon DEF OpToRel
<1> QED
  BY <1>3, <1>4

LEMMA OneUnitMore ==
  ASSUME NEW S, IsFiniteSet(S), NEW f \in [S -> Nat], NEW x \in S,
         NEW g \in [S -> Nat], g = [f EXCEPT ![x] = f[x] + 1]
  PROVE  Total(g) = Total(f) + 1
<1> DEFINE unit == <<x, f[x] + 1>>
<1>1. /\ g[x] = f[x] + 1 /\ f[x] \in Nat
      /\ \A y \in S : y # x => g[y] = f[y]
  OBVIOUS
<1>2. Units(g) = Units(f) \cup {unit}
  <2>1. ASSUME NEW u \in Units(g) PROVE u \in Units(f) \cup {unit}
    BY <1>1 DEF Units
  <2>2. ASSUME NEW u \in Units(f) \cup {unit} PROVE u \in Units(g)
    BY <1>1 DEF Units
  <2> QED
    BY <2>1, <2>2
<1>3. unit \notin Units(f)
  BY <1>1, UnitsAre
<1>4. IsFiniteSet(Units(f)) /\ Total(f) \in Nat
  BY UnitsAreFinite
<1> QED
  BY <1>2, <1>3, <1>4, FS_AddElement DEF Total

LEMMA SplitOfOne ==
  ASSUME NEW n \in Nat, NEW v \in Nat, NEW f \in [1 .. n -> v .. v]
  PROVE  Total(f) = n * v
<1>1. IsFiniteSet(1 .. n) /\ Cardinality(1 .. n) = n
  BY OneToN
<1>2. n * v <= Total(f) /\ Total(f) <= n * v /\ Total(f) \in Nat
  BY <1>1, TotalIsBounded
<1>3. n * v \in Nat
  OBVIOUS
<1> QED
  BY <1>2, <1>3

\* Between all at the lower bound and all at the upper one, every sum is met.
LEMMA SplitsReach ==
  ASSUME NEW n \in Nat, NEW low \in Nat, NEW high \in Nat, low <= high,
         NEW least \in Nat, NEW most \in Nat, least = n * low, most = n * high,
         NEW sum \in Nat, least <= sum, sum <= most
  PROVE  \E f \in Splits(n, low, high) : Total(f) = sum
<1> DEFINE Missed == {t \in Nat : /\ least <= t /\ t <= sum
                                  /\ \A f \in Splits(n, low, high) : Total(f) # t}
<1>1. SUFFICES ASSUME sum \in Missed PROVE FALSE
  OBVIOUS
<1>2. PICK t \in Missed : \A u \in Missed : t <= u
  <2> HIDE DEF Missed
  <2>1. Missed \subseteq Nat
    BY DEF Missed
  <2> QED
    BY <1>1, <2>1, LeastNatural
<1> USE DEF Missed
<1>3. t \in Nat /\ least <= t /\ t <= sum /\ \A f \in Splits(n, low, high) : Total(f) # t
  OBVIOUS
<1>4. t # least
  <2>1. PICK f \in [1 .. n -> low .. low] : TRUE
    <3>1. [i \in 1 .. n |-> low] \in [1 .. n -> low .. low]
      OBVIOUS
    <3> QED
      BY <3>1
  <2>2. f \in Splits(n, low, high)
    BY <2>1 DEF Splits
  <2>3. Total(f) = least
    BY <2>1, SplitOfOne
  <2> QED
    BY <1>3, <2>2, <2>3
<1>5. t - 1 \in Nat /\ least <= t - 1 /\ t - 1 <= sum /\ t - 1 \notin Missed
  <2>1. t - 1 \in Nat /\ least <= t - 1 /\ t - 1 <= sum /\ ~(t <= t - 1)
    BY <1>3, <1>4
  <2> HIDE DEF Missed
  <2> QED
    BY <1>2, <2>1
<1>6. PICK f \in Splits(n, low, high) : Total(f) = t - 1
  BY <1>5
<1>7. f \in [1 .. n -> Nat] /\ f \in [1 .. n -> low .. high]
  BY <1>6 DEF Splits
<1>8. PICK i \in 1 .. n : f[i] < high
  <2>1. SUFFICES ASSUME \A i \in 1 .. n : ~(f[i] < high) PROVE FALSE
    OBVIOUS
  <2>2. f \in [1 .. n -> high .. high]
    BY <1>7, <2>1
  <2>3. Total(f) = most
    BY <2>2, SplitOfOne
  <2> QED
    BY <1>3, <1>6, <2>3
<1>9. PICK g : g = [f EXCEPT ![i] = f[i] + 1]
  OBVIOUS
<1>10. g \in Splits(n, low, high) /\ g \in [1 .. n -> Nat]
  BY <1>7, <1>8, <1>9 DEF Splits
<1>11. Total(g) = t
  <2>1. IsFiniteSet(1 .. n)
    BY OneToN
  <2>2. i \in 1 .. n
    BY <1>8
  <2>3. Total(g) = Total(f) + 1
    <3>1. PICK S : S = 1 .. n
      OBVIOUS
    <3>2. f \in [S -> Nat] /\ g \in [S -> Nat] /\ i \in S /\ IsFiniteSet(S)
      BY <1>7, <1>10, <2>1, <2>2, <3>1
    <3> HIDE DEF Missed
    <3> QED
      BY <1>9, <3>2, OneUnitMore
  <2> QED
    BY <1>3, <1>6, <2>3
<1> QED
  BY <1>3, <1>10, <1>11

\* The preflight asks of the bounds exactly what it should: some distribution over
\* the options lies within them, if and only if admits_a_distribution says so.
THEOREM AdmitsIsExact ==
  ASSUME NEW n \in Nat, NEW cfg \in Configs
  PROVE  Admits(n, cfg) <=>
           \E f \in Splits(n, cfg.min_probability, cfg.max_probability) : SumsToWhole(Total(f))
<1>1. PICK min \in Nat, max \in Nat : min = cfg.min_probability /\ max = cfg.max_probability
  BY ConfigIs
<1>2. min <= max
  BY <1>1, DeskInputs, DeskNumbers DEF IsConfig
<1>3. PICK least \in Nat, most \in Nat : least = n * min /\ most = n * max
  BY <1>1
<1>4. least <= most
  BY <1>1, <1>2, <1>3, SMTT(30)
<1>5. Whole \in Nat /\ Tolerance \in Nat
  BY DeskNumbers
<1>6. ASSUME Admits(n, cfg)
      PROVE  \E f \in Splits(n, min, max) : SumsToWhole(Total(f))
  <2>1. PICK sum \in Nat : least <= sum /\ sum <= most /\ SumsToWhole(sum)
    <3>1. \/ least <= Whole /\ Whole <= most
          \/ SumsToWhole(least)
          \/ SumsToWhole(most)
      BY <1>1, <1>3, <1>6 DEF Admits
    <3>2. SumsToWhole(Whole)
      BY <1>5 DEF SumsToWhole, Distance
    <3> QED
      BY <1>3, <1>4, <1>5, <3>1, <3>2
  <2> QED
    BY <1>1, <1>2, <1>3, <2>1, SplitsReach
<1>7. ASSUME NEW f \in Splits(n, min, max), SumsToWhole(Total(f))
      PROVE  Admits(n, cfg)
  <2>1. IsFiniteSet(1 .. n) /\ Cardinality(1 .. n) = n
    BY OneToN
  <2>2. PICK total : total = Total(f)
    OBVIOUS
  <2>3. total \in Nat /\ least <= total /\ total <= most
    BY <1>1, <1>3, <1>7, <2>1, <2>2, TotalIsBounded DEF Splits
  <2> QED
    BY <1>1, <1>3, <1>7, <2>2, <2>3, SumsAdmit
<1> QED
  BY <1>1, <1>6, <1>7

LEMMA RefusedIsUnanswerable ==
  ASSUME question \in Questions, NEW cfg \in Configs, IsRefused(question, cfg),
         question.qtype \in cfg.supported_question_types,
         NEW r, Parses(r, cfg), NEW s, Converts(s, cfg)
  PROVE  FALSE
<1>1. ~IsBounded(question)
  BY DEF IsRefused, Converts, IsBounded, IsChoice
<1>2. IsChoice(question) /\ ~Admits(Len(question.options), cfg)
  BY <1>1 DEF IsRefused
<1> DEFINE D == ToSet(question.options)
<1>3. PICK c : c = PayloadOf(r, s, cfg).categories
  OBVIOUS
<1>4. /\ c \in [D -> cfg.min_probability .. cfg.max_probability]
      /\ IsFiniteSet(D) /\ Cardinality(D) = Len(question.options)
      /\ SumsToWhole(Total(c))
  BY <1>2, <1>3, RepliesSplit
<1>5. PICK n, min, max, total, low, high :
        /\ n = Len(question.options) /\ min = cfg.min_probability /\ max = cfg.max_probability
        /\ total = Total(c) /\ low = n * min /\ high = n * max
  OBVIOUS
<1>6. min \in Nat /\ max \in Nat
  BY <1>5, ConfigIs
<1> HIDE DEF D
<1>7. /\ total \in Nat /\ n \in Nat
      /\ low <= total /\ total <= high
  BY <1>4, <1>5, <1>6, TotalIsBounded
<1>8. low \in Nat /\ high \in Nat
  BY <1>5, <1>6, <1>7
<1>9. Admits(n, cfg)
  BY <1>4, <1>5, <1>7, <1>8, SumsAdmit
<1> QED
  BY <1>2, <1>5, <1>9

\* A question that is refused has no reply that could have been recorded, however
\* its options' probabilities are chosen (generate.question_refusal,
\* multiple_choice.admits_a_distribution).
THEOREM RefusedHasNoAnswerHolds == Spec => []RefusedHasNoAnswer
<1>1. Known => RefusedHasNoAnswer
  BY RefusedIsUnanswerable DEF Known, RefusedHasNoAnswer, IsAnswerable
<1> QED
  BY <1>1, KnownHolds, PTL

-----------------------------------------------------------------------------
(* What is asked.                                                          *)

\* A gentle curve is converted under every cap that spans.
LEMMA GentleConverts ==
  ASSUME question \in Questions, NEW cfg \in Configs, Spans(cfg), IsBounded(question),
         ZeroPointFits(question), GridIsConvertible(question)
  PROVE  \E s \in Outcomes : Converts(s, cfg)
<1>1. PICK curve \in Curves[question] : IsGentle(curve, question)
  BY SdkMayConvert
<1>2. curve \in Seq(Int)
  BY <1>1, QuestionIs
<1>3. PICK s : s = [b \in BOOLEAN |-> curve]
  OBVIOUS
<1>4. s \in Outcomes
  BY <1>1, <1>3 DEF Outcomes
<1>5. Cdf(s, cfg) = curve
  BY <1>3, ConfigIs DEF Cdf
<1>6. ExpectedPoints(question) >= MinPoints
  BY DeskNumbers DEF ExpectedPoints, GridIsConvertible, IsBounded, MinPoints
<1>7. curve # Refused
  BY <1>1, <1>2, <1>6, Len(<<>>) = 0 DEF Refused, IsGentle, MinPoints
<1>8. \A i \in 1 .. Len(curve) - 1 : StepFits(curve, i, cfg)
  <2> SUFFICES ASSUME NEW i \in 1 .. Len(curve) - 1 PROVE StepFits(curve, i, cfg)
    OBVIOUS
  <2>1. PICK step, cap : /\ step = (curve[i + 1] - curve[i]) * (Len(curve) - 1)
                         /\ cap = cfg.max_adjacent_pmf * (Points - 1)
    OBVIOUS
  <2>2. step \in Int /\ cap \in Int
    <3>1. /\ curve[i + 1] \in Int /\ curve[i] \in Int /\ Len(curve) \in Int
          /\ cfg.max_adjacent_pmf \in Int /\ Points \in Int
      BY <1>2, DeskInputs, DeskNumbers DEF IsConfig
    <3> QED
      BY <2>1, <3>1
  <2>3. step <= Whole /\ Whole <= cap /\ Whole \in Int
    BY <1>1, <2>1, DeskNumbers DEF IsGentle, Spans
  <2> QED
    BY <2>1, <2>2, <2>3 DEF StepFits
<1>9. ArrayIsValid(curve, cfg)
  BY <1>1, <1>8 DEF ArrayIsValid, IsGentle
<1> QED
  BY <1>4, <1>5, <1>7, <1>9 DEF Converts

\* Among the replies to a question that is not refused is one that parses.
LEMMA BinaryAnswer ==
  ASSUME question \in Questions, supplied \in Sources, NEW cfg \in Configs,
         question.qtype = "binary"
  PROVE  \E r \in Replies[question] : Parses(r, cfg)
<1>1. PICK r \in Replies[question] :
        /\ InOrderBut(r, question, supplied, {"probability_yes"})
        /\ r.probability_yes \in cfg.min_probability .. cfg.max_probability
  BY ModelMayAnswer
<1>2. r.probability_yes \in 0 .. Whole /\ Within(r.probability_yes, cfg)
  BY <1>1, ConfigIs, DeskNumbers DEF Within
<1>3. Conforms(r)
  BY <1>1, <1>2 DEF Conforms, InOrderBut, Prediction, IsChoice, IsBounded
<1>4. OutputIsValid(r, cfg)
  BY <1>1, <1>2 DEF OutputIsValid, BinaryOutput, InOrderBut, IsChoice, IsBounded
<1> QED
  BY <1>1, <1>3, <1>4 DEF Parses, InOrderBut

LEMMA NumericAnswer ==
  ASSUME question \in Questions, supplied \in Sources, NEW cfg \in Configs,
         IsBounded(question), ZeroPointFits(question)
  PROVE  \E r \in Replies[question] : Parses(r, cfg)
<1>1. PICK r \in Replies[question] :
        /\ InOrderBut(r, question, supplied, {"levels", "values"})
        /\ r.levels = Levels
        /\ r.values \in Seq(question.lower_bound .. question.upper_bound)
        /\ NonDecreasing(r.values)
  BY ModelMayAnswer
<1>2. {question.lower_bound, question.upper_bound, question.zero_point} \subseteq Int
  BY DeskInputs DEF IsQuestion, IsBounded
<1>3. \A v \in ToSet(r.values) : InBounds(v)
  <2> SUFFICES ASSUME NEW v \in question.lower_bound .. question.upper_bound
               PROVE  InBounds(v)
    <3>1. PICK S : S = question.lower_bound .. question.upper_bound
      OBVIOUS
    <3>2. r.values \in Seq(S)
      BY <1>1, <3>1
    <3>3. ToSet(r.values) \subseteq S
      BY <3>2 DEF ToSet
    <3> QED
      BY <3>1, <3>3
  <2> QED
    BY <1>2 DEF InBounds, ZeroPointFits
<1>4. NumericOutput(r)
  BY <1>1, <1>3 DEF NumericOutput
<1>5. /\ question.qtype # "binary" /\ ~IsChoice(question)
      /\ question.qtype \in {"numeric", "discrete"}
  BY DEF IsBounded, IsChoice
<1>6. Conforms(r)
  BY <1>1, <1>5 DEF Conforms, InOrderBut, Prediction, IsBounded
<1>7. OutputIsValid(r, cfg)
  BY <1>4, <1>5 DEF OutputIsValid, IsBounded
<1> QED
  BY <1>1, <1>6, <1>7 DEF Parses, InOrderBut

\* The distribution that the preflight's arithmetic promises is the reply.
LEMMA ChoiceAnswer ==
  ASSUME question \in Questions, supplied \in Sources, NEW cfg \in Configs,
         IsChoice(question), Admits(Len(question.options), cfg)
  PROVE  \E r \in Replies[question] : Parses(r, cfg)
<1> DEFINE chances == cfg.min_probability .. cfg.max_probability
<1>1. PICK opts, n : opts = question.options /\ n = Len(opts)
  OBVIOUS
<1>2. /\ opts \in Seq(ToSet(Alphabet)) /\ IsInjective(opts) /\ n \in Nat /\ n >= 2
      /\ DOMAIN opts = 1 .. n
  BY <1>1, QuestionIs
<1>3. PICK g \in [DOMAIN opts -> chances] : SumsToWhole(Total(g))
  BY <1>1, <1>2, AdmitsIsExact DEF Splits
<1>4. PICK r \in Replies[question], f \in [DOMAIN opts -> chances] :
        /\ InOrderBut(r, question, supplied, {"options"})
        /\ SumsToWhole(Total(f))
        /\ r.options = [i \in DOMAIN opts |-> [option |-> opts[i], probability |-> f[i]]]
  <2>1. PICK splits : splits = {f \in [DOMAIN opts -> chances] : SumsToWhole(Total(f))}
    OBVIOUS
  <2>2. splits # {}
    BY <1>3, <2>1
  <2>3. splits = {f \in [DOMAIN question.options -> cfg.min_probability .. cfg.max_probability] :
                    SumsToWhole(Total(f))}
    BY <1>1, <2>1
  <2>4. \E r \in {x \in Replies[question] : InOrderBut(x, question, supplied, {"options"})},
           f \in splits :
             r.options = [i \in DOMAIN opts |-> [option |-> opts[i], probability |-> f[i]]]
    <3>1. LET Says(fields) ==
                {x \in Replies[question] : InOrderBut(x, question, supplied, fields)}
              range == cfg.min_probability .. cfg.max_probability
              all == {f \in [DOMAIN question.options -> range] : SumsToWhole(Total(f))} IN
          all # {} =>
            \E r \in Says({"options"}), f \in all :
              r.options = [i \in DOMAIN question.options |->
                             [option |-> question.options[i], probability |-> f[i]]]
      BY ModelMayAnswer, Zenon
    <3> HIDE DEF chances
    <3> QED
      BY <1>1, <2>2, <2>3, <3>1, Zenon
  <2> QED
    BY <2>1, <2>4
<1>5. \A i \in 1 .. n : /\ opts[i] \in STRING
                        /\ f[i] \in chances /\ f[i] \in 0 .. Whole
  <2>1. \A i \in 1 .. n : opts[i] \in ToSet(Alphabet)
    BY <1>2
  <2>2. ToSet(Alphabet) \subseteq STRING
    BY DeskInputs DEF ToSet
  <2> QED
    <3>1. \A i \in 1 .. n : f[i] \in chances
      BY <1>2, <1>4
    <3>2. chances \subseteq 0 .. Whole
      BY ConfigIs, DeskNumbers
    <3> QED
      BY <2>1, <2>2, <3>1, <3>2
<1>6. /\ DOMAIN r.options = 1 .. n
      /\ \A i \in 1 .. n : r.options[i] = [option |-> opts[i], probability |-> f[i]]
  BY <1>2, <1>4
<1>7. PICK Item : Item = [option : STRING, probability : 0 .. Whole]
  OBVIOUS
<1>8. r.options \in Seq(Item)
  <2>1. ASSUME NEW i \in 1 .. n PROVE r.options[i] \in Item
    <3>1. PICK o, p : o = opts[i] /\ p = f[i]
      OBVIOUS
    <3>2. o \in STRING /\ p \in 0 .. Whole
      BY <1>5, <3>1
    <3>3. r.options[i] = [option |-> o, probability |-> p]
      BY <1>6, <3>1
    <3> QED
      BY <1>7, <3>2, <3>3
  <2>2. r.options = [i \in 1 .. n |-> r.options[i]]
    BY <1>2, <1>4
  <2> QED
    BY <1>2, <2>1, <2>2
<1>9. Conforms(r)
  <2>1. Prediction = {"options"} /\ question.qtype # "binary"
    BY DEF Prediction, IsChoice, IsBounded
  <2>2. DOMAIN r = Said \cup Prediction /\ ~r.priors
    BY <1>4, <2>1 DEF InOrderBut
  <2> QED
    BY <1>7, <1>8, <2>1, <2>2 DEF Conforms
<1>10. ChoiceOutput(r, cfg)
  <2>1. PICK labels, values :
          /\ labels = [i \in DOMAIN r.options |-> r.options[i].option]
          /\ values = [i \in DOMAIN r.options |-> r.options[i].probability]
    OBVIOUS
  <2>2. labels = opts
    <3>1. /\ DOMAIN labels = 1 .. n /\ DOMAIN opts = 1 .. n
          /\ labels = [i \in 1 .. n |-> r.options[i].option]
      BY <1>2, <1>6, <2>1
    <3>2. ASSUME NEW i \in 1 .. n PROVE labels[i] = opts[i]
      <4>1. PICK o, p : o = opts[i] /\ p = f[i]
        OBVIOUS
      <4>2. r.options[i] = [option |-> o, probability |-> p]
        BY <1>6, <4>1
      <4>3. labels[i] = r.options[i].option
        BY <3>1
      <4> QED
        BY <4>1, <4>2, <4>3
    <3>3. opts = [i \in 1 .. n |-> opts[i]]
      BY <1>2
    <3> QED
      BY <3>1, <3>2, <3>3
  <2>3. values = f
    BY <1>2, <1>4, <1>6, <2>1
  <2>4. \A i \in DOMAIN values : Within(values[i], cfg)
    BY <1>2, <1>4, <1>5, <2>3, ConfigIs DEF Within
  <2> QED
    BY <1>1, <1>2, <1>4, <2>1, <2>2, <2>3, <2>4 DEF ChoiceOutput
<1>11. OutputIsValid(r, cfg)
  BY <1>10 DEF OutputIsValid, IsChoice, IsBounded
<1> QED
  BY <1>4, <1>9, <1>11 DEF Parses, InOrderBut

LEMMA AskedIsAnswerable ==
  ASSUME question \in Questions, supplied \in Sources, NEW cfg \in Configs, Spans(cfg),
         ~IsRefused(question, cfg)
  PROVE  IsAnswerable(cfg)
<1>1. CASE question.qtype = "binary" \/ IsChoice(question)
  <2>1. ~IsBounded(question) /\ (IsChoice(question) => Admits(Len(question.options), cfg))
    BY <1>1 DEF IsBounded, IsChoice, IsRefused
  <2>2. \E s \in Outcomes : Converts(s, cfg)
    BY <2>1 DEF Outcomes, Converts
  <2> QED
    BY <1>1, <2>1, <2>2, BinaryAnswer, ChoiceAnswer DEF IsAnswerable
<1>2. CASE IsBounded(question)
  <2>1. ZeroPointFits(question) /\ GridIsConvertible(question)
    BY <1>2 DEF IsRefused
  <2> QED
    BY <1>2, <2>1, NumericAnswer, GentleConverts DEF IsAnswerable
<1> QED
  BY <1>1, <1>2, QuestionIs DEF IsBounded, IsChoice

\* A question of a supported type is refused before any evidence is bought for it
\* if and only if no reply to it could be recorded, a cap that no curve can meet
\* apart (generate.question_refusal, multiple_choice.admits_a_distribution).
THEOREM RefusalIsExactHolds == Spec => []RefusalIsExact
<1>1. Known => AskedHasAnswer
  BY AskedIsAnswerable DEF Known, AskedHasAnswer
<1> QED
  BY <1>1, RefusedHasNoAnswerHolds, KnownHolds, PTL DEF RefusalIsExact

-----------------------------------------------------------------------------
(* The platform, and the verdict.                                          *)

\* A forecast as the platform holds it: of the question's type, on its options.
IsForecast(f, q, labels) ==
    \/ /\ q.qtype = "binary"
       /\ f \in [question_type : {"binary"}, probability_yes : Floor .. Ceiling]
    \/ /\ q.qtype = "multiple_choice"
       /\ f \in [question_type : {"multiple_choice"}, categories : [labels -> Floor .. Ceiling]]
    \/ /\ q.qtype \in {"numeric", "discrete"}
       /\ f \in [question_type : {q.qtype}, continuous_cdf : Seq(0 .. Whole)]

OptionsAre ==
    IsChoice(question) =>
        /\ options \in Seq(ToSet(options)) /\ IsInjective(options) /\ options # <<>>
        /\ stage # "posted" => ToSet(options) = ToSet(question.options)

EntriesAre ==
    /\ IsFiniteSet(entries)
    /\ \A e \in entries :
        /\ e = [start_time |-> e.start_time, forecast |-> e.forecast]
        /\ e.start_time \in {1, 2}
        /\ IsForecast(e.forecast, question, ToSet(options))

\* What is judged is the post, and before the post nothing is.
JudgedIsPosted ==
    /\ stage = "posted" => Plans(posted) /\ posted.question_type = question.qtype
    /\ stage # "posted" => verdict.outcome = "none"
    /\ verdict.outcome # "none" =>
         snapshot = [expected |-> ExpectedValues(posted), labels |-> Labels(posted)]

Judged == OptionsAre /\ EntriesAre /\ JudgedIsPosted /\ VerdictIsTrue

LEMMA LatestIsAnEntry ==
  ASSUME EntriesAre, entries # {}
  PROVE  Latest \in entries
<1>1. \E e \in entries : \A other \in entries : other.start_time <= e.start_time
  <2>1. CASE \E e \in entries : e.start_time = 2
    BY <2>1 DEF EntriesAre
  <2>2. CASE \A e \in entries : e.start_time # 2
    BY <2>2 DEF EntriesAre
  <2> QED
    BY <2>1, <2>2
<1> QED
  BY <1>1 DEF Latest

LEMMA PlanIsForecast ==
  ASSUME question \in Questions, NEW f, Plans(f), f.question_type = question.qtype,
         NEW labels, IsChoice(question) => DOMAIN f.categories = labels
  PROVE  IsForecast(f, question, labels)
<1>1. CASE f \in [question_type : {"binary"}, probability_yes : Floor .. Ceiling]
  BY <1>1 DEF IsForecast
<1>2. CASE f \in [question_type : {"numeric", "discrete"}, continuous_cdf : Seq(0 .. Whole)]
  BY <1>2 DEF IsForecast
<1>3. CASE \E S \in SUBSET ToSet(Alphabet) :
             f \in [question_type : {"multiple_choice"}, categories : [S -> Floor .. Ceiling]]
  BY <1>3 DEF IsForecast, IsChoice
<1> QED
  BY <1>1, <1>2, <1>3 DEF Plans

\* Option for option: the values read by label are those expected if and only if
\* the two distributions are one.
LEMMA ReadByLabel ==
  ASSUME IsChoice(question), OptionsAre,
         NEW S \in SUBSET ToSet(Alphabet), S = ToSet(options),
         NEW c \in [S -> Floor .. Ceiling], NEW d \in [S -> Floor .. Ceiling]
  PROVE  ObservedValues([i \in DOMAIN options |-> d[options[i]]], InOrder(S)) = Sorted(c)
           <=> d = c
<1> DEFINE values == [i \in DOMAIN options |-> d[options[i]]]
           labels == InOrder(S)
           N == 1 .. Cardinality(S)
           at(i) == CHOOSE j \in DOMAIN options : options[j] = labels[i]
<1>1. labels \in Bijection(N, S)
  BY InOrderSorts
<1>2. DOMAIN labels = N /\ labels \in [N -> S] /\ \A l \in S : \E i \in N : labels[i] = l
  BY <1>1 DEF Bijection, Injection, Surjection
<1>3. ASSUME NEW i \in N
      PROVE  values[at(i)] = d[labels[i]]
  <2>1. \E j \in DOMAIN options : options[j] = labels[i]
    <3>1. labels[i] \in S
      BY <1>2
    <3> HIDE DEF labels
    <3>2. labels[i] \in ToSet(options)
      BY <3>1
    <3> QED
      BY <3>2 DEF ToSet
  <2>2. at(i) \in DOMAIN options /\ options[at(i)] = labels[i]
    BY <2>1
  <2> HIDE DEF at
  <2> QED
    BY <2>2
<1>4. ObservedValues(values, labels) = [i \in N |-> values[at(i)]]
  BY <1>2 DEF ObservedValues, IsChoice, IsBounded
<1>5. Sorted(c) = [i \in N |-> c[labels[i]]]
  BY <1>2 DEF Sorted
<1> HIDE DEF values, labels, N, at
<1>6. ObservedValues(values, labels) = [i \in N |-> d[labels[i]]]
  BY <1>3, <1>4
<1>7. ASSUME ObservedValues(values, labels) = Sorted(c) PROVE d = c
  <2>1. \A i \in N : d[labels[i]] = c[labels[i]]
    BY <1>5, <1>6, <1>7
  <2>2. \A l \in S : d[l] = c[l]
    BY <1>2, <2>1
  <2> QED
    BY <2>2
<1>8. ObservedValues(values, labels) = Sorted(c) <=> d = c
  BY <1>5, <1>6, <1>7
<1> QED
  BY <1>8 DEF values, labels

\* A verdict confirms the post and nothing but the post.
LEMMA VerdictJudges ==
  ASSUME question \in Questions, OptionsAre, EntriesAre, Plans(posted),
         posted.question_type = question.qtype, NEW outcome,
         outcome = Classified(ExpectedValues(posted), Labels(posted))
  PROVE  /\ outcome = "confirmed" => Found(outcome).latest = posted
         /\ outcome \in {"absent", "mismatched"} => Found(outcome).latest # posted
<1>1. CASE entries = {}
  <2>1. outcome = "absent" /\ Found(outcome).latest = Nothing
    BY <1>1 DEF Classified, Found
  <2>2. posted.question_type # "none"
    BY QuestionIs
  <2> QED
    BY <2>1, <2>2 DEF Nothing
<1>2. CASE entries # {}
  <2>1. PICK f : f = Latest.forecast
    OBVIOUS
  <2>2. IsForecast(f, question, ToSet(options))
    BY <1>2, <2>1, LatestIsAnEntry DEF EntriesAre
  <2>3. Found(outcome).latest = f
    BY <1>2, <2>1 DEF Found
  <2> DEFINE agree == ObservedValues(ForecastValues(f), Labels(posted)) = ExpectedValues(posted)
             listed == ToSet(options) = ToSet(Labels(posted))
  <2>4. outcome = IF ~listed THEN "unreadable" ELSE IF agree THEN "confirmed" ELSE "mismatched"
    BY <1>2, <2>1 DEF Classified
  <2>5. listed => (agree <=> f = posted)
    <3>1. CASE question.qtype = "binary"
      <4>1. /\ f = [question_type |-> "binary", probability_yes |-> f.probability_yes]
            /\ posted = [question_type |-> "binary", probability_yes |-> posted.probability_yes]
        BY <2>2, <3>1 DEF IsForecast, Plans
      <4>2. ForecastValues(f) = <<Whole - f.probability_yes, f.probability_yes>>
        BY <4>1 DEF ForecastValues
      <4>3. ExpectedValues(posted) = <<posted.probability_yes>>
        BY <4>1 DEF ExpectedValues
      <4>4. ObservedValues(ForecastValues(f), Labels(posted)) = <<f.probability_yes>>
        BY <3>1, <4>2 DEF ObservedValues, IsChoice, IsBounded
      <4>5. agree <=> f.probability_yes = posted.probability_yes
        BY <4>3, <4>4
      <4> QED
        BY <4>1, <4>5
    <3>2. CASE question.qtype \in {"numeric", "discrete"}
      <4>1. /\ f = [question_type |-> question.qtype, continuous_cdf |-> f.continuous_cdf]
            /\ posted = [question_type |-> question.qtype,
                         continuous_cdf |-> posted.continuous_cdf]
        BY <2>2, <3>2 DEF IsForecast, Plans
      <4>2. ForecastValues(f) = f.continuous_cdf
        BY <3>2, <4>1 DEF ForecastValues
      <4>3. ExpectedValues(posted) = posted.continuous_cdf
        BY <3>2, <4>1 DEF ExpectedValues
      <4>4. ObservedValues(ForecastValues(f), Labels(posted)) = f.continuous_cdf
        BY <3>2, <4>2 DEF ObservedValues, IsChoice, IsBounded
      <4>5. agree <=> f.continuous_cdf = posted.continuous_cdf
        BY <4>3, <4>4
      <4> QED
        BY <4>1, <4>5
    <3>3. CASE IsChoice(question)
      <4>1. PICK d : d = f.categories
        OBVIOUS
      <4>2. /\ f = [question_type |-> "multiple_choice", categories |-> d]
            /\ d \in [ToSet(options) -> Floor .. Ceiling]
        BY <2>2, <3>3, <4>1 DEF IsForecast, IsChoice
      <4>3. PICK S \in SUBSET ToSet(Alphabet) :
              posted \in [question_type : {"multiple_choice"}, categories : [S -> Floor .. Ceiling]]
        BY <3>3 DEF Plans, IsChoice
      <4>4. PICK c \in [S -> Floor .. Ceiling] :
              posted = [question_type |-> "multiple_choice", categories |-> c]
        BY <4>3
      <4>5. Labels(posted) = InOrder(S) /\ ExpectedValues(posted) = Sorted(c)
        BY <4>4 DEF Labels, ExpectedValues
      <4>6. ToSet(InOrder(S)) = S
        <5>1. PICK s, N : s = InOrder(S) /\ N = 1 .. Cardinality(S)
          OBVIOUS
        <5>2. s \in Bijection(N, S)
          BY <5>1, InOrderSorts
        <5>3. DOMAIN s = N /\ s \in [N -> S] /\ \A l \in S : \E i \in N : s[i] = l
          BY <5>2 DEF Bijection, Injection, Surjection
        <5>4. ToSet(s) = S
          BY <5>3 DEF ToSet
        <5> QED
          BY <5>1, <5>4
      <4>7. ForecastValues(f) = [i \in DOMAIN options |-> d[options[i]]]
        BY <4>2 DEF ForecastValues
      <4>8. ASSUME listed PROVE agree <=> d = c
        <5>1. S = ToSet(options)
          BY <4>5, <4>6, <4>8
        <5>2. d \in [S -> Floor .. Ceiling]
          BY <4>2, <5>1
        <5>3. ObservedValues([i \in DOMAIN options |-> d[options[i]]], InOrder(S)) = Sorted(c)
                <=> d = c
          BY <3>3, <4>3, <4>4, <5>1, <5>2, ReadByLabel
        <5> QED
          BY <4>5, <4>7, <5>3
      <4>9. f = posted <=> d = c
        BY <4>2, <4>4
      <4> QED
        BY <4>8, <4>9
    <3> QED
      BY <3>1, <3>2, <3>3, QuestionIs DEF IsChoice
  <2> HIDE DEF agree, listed
  <2> QED
    BY <2>3, <2>4, <2>5
<1> QED
  BY <1>1, <1>2

\* Steps the platform and the verdict do not see.
LEMMA NothingJudged ==
  ASSUME Judged, UNCHANGED <<question, posted, platform, judgement>>,
         stage # "posted", stage' # "posted"
  PROVE  Judged'
<1>1. UNCHANGED <<options, entries, verdict, snapshot>>
  BY DEF platform, judgement
<1> QED
  BY <1>1 DEF Judged, OptionsAre, EntriesAre, JudgedIsPosted, VerdictIsTrue, IsChoice

LEMMA SameVerdict ==
  ASSUME JudgedIsPosted, VerdictIsTrue, UNCHANGED <<question, stage, posted, verdict, snapshot>>
  PROVE  JudgedIsPosted' /\ VerdictIsTrue'
<1>1. Plans(posted)' = Plans(posted)
  BY DEF Plans, ExpectedPoints
<1> QED
  BY <1>1 DEF JudgedIsPosted, VerdictIsTrue

LEMMA SameJudged ==
  ASSUME Judged, UNCHANGED <<question, posted, platform, judgement, stage>>
  PROVE  Judged'
<1>1. UNCHANGED <<options, entries, verdict, snapshot>>
  BY DEF platform, judgement
<1> QED
  BY <1>1, SameVerdict DEF Judged, OptionsAre, EntriesAre, IsChoice

\* An entry more.
LEMMA EntryIsAdded ==
  ASSUME EntriesAre, UNCHANGED <<question, options>>, NEW f,
         IsForecast(f, question, ToSet(options)), NEW at \in {1, 2},
         entries' = entries \cup {[start_time |-> at, forecast |-> f]}
  PROVE  EntriesAre'
<1>1. IsFiniteSet(entries')
  BY FS_AddElement DEF EntriesAre
<1>2. PICK new : new = [start_time |-> at, forecast |-> f]
  OBVIOUS
<1>3. ASSUME NEW e \in entries'
      PROVE  /\ e = [start_time |-> e.start_time, forecast |-> e.forecast]
             /\ e.start_time \in {1, 2}
             /\ IsForecast(e.forecast, question, ToSet(options))
  BY <1>2, <1>3 DEF EntriesAre
<1> QED
  BY <1>1, <1>3 DEF EntriesAre

LEMMA PostJudges == ASSUME Inductive, Known, Judged, Post PROVE Judged'
<1>1. PICK payload :
        /\ IsAuthorized(payload) /\ posted' = payload
        /\ \/ entries' = {[start_time |-> 1, forecast |-> payload]}
           \/ UNCHANGED entries
  BY DEF Post
<1>2. /\ stage = "approved" /\ stage' = "posted" /\ entries = {}
      /\ UNCHANGED <<question, options, verdict, snapshot>>
  BY DEF Post, desk, judgement
<1>3. Plans(payload) /\ payload.question_type = question.qtype
  BY <1>1 DEF IsAuthorized
<1>4. verdict.outcome = "none"
  BY <1>2 DEF Judged, JudgedIsPosted
<1>5. ASSUME IsChoice(question) PROVE DOMAIN payload.categories = ToSet(options)
  <2>1. PICK cfg \in Configs : payload = PayloadOf(reply, sdk, cfg)
    BY <1>1 DEF IsAuthorized, Effective, Inductive, ApprovalsAreDerived, Derived
  <2>2. Parses(reply, used)
    BY <1>2 DEF Known, Recorded, IsRecord
  <2>3. PICK c : c = payload.categories
    OBVIOUS
  <2>4. c \in [ToSet(question.options) -> used.min_probability .. used.max_probability]
    BY <1>5, <2>1, <2>2, <2>3, RepliesSplit DEF Known
  <2>5. ToSet(question.options) = ToSet(options)
    BY <1>2, <1>5 DEF Judged, OptionsAre
  <2> QED
    BY <2>3, <2>4, <2>5
<1>6. EntriesAre'
  <2>1. CASE UNCHANGED entries
    BY <1>2, <2>1 DEF EntriesAre, Judged
  <2>2. CASE entries' = {[start_time |-> 1, forecast |-> payload]}
    <3>1. IsForecast(payload, question, ToSet(options))
      BY <1>3, <1>5, PlanIsForecast DEF Known
    <3>2. entries' = entries \cup {[start_time |-> 1, forecast |-> payload]}
      BY <1>2, <2>2
    <3> QED
      BY <1>2, <3>1, <3>2, EntryIsAdded DEF Judged
  <2> QED
    BY <1>1, <2>1, <2>2
<1>7. OptionsAre'
  BY <1>2 DEF Judged, OptionsAre, IsChoice
<1>8. JudgedIsPosted' /\ VerdictIsTrue'
  BY <1>1, <1>2, <1>3, <1>4 DEF JudgedIsPosted, VerdictIsTrue, Plans, ExpectedPoints
<1> QED
  BY <1>6, <1>7, <1>8 DEF Judged

LEMMA ElsewhereJudges == ASSUME Known, Judged, Elsewhere PROVE Judged'
<1>1. UNCHANGED <<question, options, verdict, snapshot, stage, posted>>
  BY DEF Elsewhere, desk, judgement
<1>2. Cardinality(entries) + 1 \in {1, 2}
  BY FS_CardinalityType DEF Elsewhere, Judged, EntriesAre
<1>3. PICK payload \in Files[question] :
        /\ Plans(payload) /\ payload.question_type = question.qtype
        /\ IsChoice(question) => DOMAIN payload.categories = ToSet(options)
        /\ entries' = entries \cup
             {[start_time |-> Cardinality(entries) + 1, forecast |-> payload]}
  BY DEF Elsewhere
<1>4. IsForecast(payload, question, ToSet(options))
  BY <1>3, PlanIsForecast DEF Known
<1>5. EntriesAre'
  BY <1>1, <1>2, <1>3, <1>4, EntryIsAdded DEF Judged
<1> QED
  BY <1>1, <1>5, SameVerdict DEF Judged, OptionsAre, IsChoice

LEMMA RenameJudges == ASSUME Known, Judged, Rename PROVE Judged'
<1>1. /\ UNCHANGED <<question, verdict, snapshot, stage, posted>> /\ stage = "posted"
      /\ IsChoice(question) /\ Renamed \notin ToSet(options)
      /\ options' = [options EXCEPT ![1] = Renamed]
      /\ entries' = {[e EXCEPT !.forecast = Relabel(options[1], @)] : e \in entries}
  BY DEF Rename, desk, judgement
<1>2. /\ options \in Seq(ToSet(options)) /\ IsInjective(options)
      /\ 1 \in 1 .. Len(options) /\ DOMAIN options = 1 .. Len(options)
  <2>1. options \in Seq(ToSet(options)) /\ IsInjective(options) /\ options # <<>>
    BY <1>1 DEF Judged, OptionsAre
  <2> QED
    BY <2>1
<1>3. DOMAIN options' = 1 .. Len(options) /\ options'[1] = Renamed
      /\ \A i \in 1 .. Len(options) : i # 1 => options'[i] = options[i]
  BY <1>1, <1>2
<1>4. ToSet(options)' = (ToSet(options) \ {options[1]}) \cup {Renamed}
  BY <1>2, <1>3 DEF ToSet, IsInjective
<1>5. IsInjective(options)' /\ (options \in Seq(ToSet(options)))' /\ options' # <<>>
  <2>1. \A i \in 1 .. Len(options) : i # 1 => options[i] # Renamed
    BY <1>1, <1>2 DEF ToSet
  <2>2. IsInjective(options)'
    BY <1>2, <1>3, <2>1 DEF IsInjective
  <2>3. (options \in Seq(ToSet(options)))'
    <3>1. options' = [i \in 1 .. Len(options) |-> options'[i]]
      BY <1>1, <1>2
    <3>2. \A i \in 1 .. Len(options) : options'[i] \in ToSet(options)'
      BY <1>3 DEF ToSet
    <3>3. Len(options) \in Nat
      BY <1>2
    <3> QED
      BY <3>1, <3>2, <3>3
  <2>4. options' # <<>>
    BY <1>2, <1>3
  <2> QED
    BY <2>2, <2>3, <2>4
<1>6. OptionsAre'
  BY <1>1, <1>5 DEF OptionsAre
<1>7. ASSUME NEW e \in entries
      PROVE  LET new == [e EXCEPT !.forecast = Relabel(options[1], @)] IN
             /\ new = [start_time |-> new.start_time, forecast |-> new.forecast]
             /\ new.start_time \in {1, 2}
             /\ IsForecast(new.forecast, question, ToSet(options)')
  <2>1. PICK at, f : at \in {1, 2} /\ e = [start_time |-> at, forecast |-> f]
    BY DEF Judged, EntriesAre
  <2>2. IsForecast(f, question, ToSet(options))
    BY <2>1 DEF Judged, EntriesAre
  <2>3. PICK d \in [ToSet(options) -> Floor .. Ceiling] :
          f = [question_type |-> "multiple_choice", categories |-> d]
    BY <1>1, <2>2 DEF IsForecast, IsChoice
  <2>4. options[1] \in ToSet(options)
    BY <1>2 DEF ToSet
  <2>5. PICK old : old = options[1]
    OBVIOUS
  <2>6. PICK g : g = [label \in (ToSet(options) \ {old}) \cup {Renamed} |->
                        IF label = Renamed THEN d[old] ELSE d[label]]
    OBVIOUS
  <2>7. g \in [ToSet(options)' -> Floor .. Ceiling]
    BY <1>4, <2>3, <2>4, <2>5, <2>6
  <2>8. Relabel(old, f) = [question_type |-> "multiple_choice", categories |-> g]
    BY <2>3, <2>4, <2>5, <2>6 DEF Relabel
  <2>9. [e EXCEPT !.forecast = Relabel(options[1], @)]
          = [start_time |-> at, forecast |-> [question_type |-> "multiple_choice",
                                              categories |-> g]]
    BY <2>1, <2>5, <2>8
  <2>10. IsForecast([question_type |-> "multiple_choice", categories |-> g],
                    question, ToSet(options)')
    BY <1>1, <2>7 DEF IsForecast, IsChoice
  <2> QED
    BY <2>1, <2>9, <2>10
<1>8. IsFiniteSet(entries')
  <2> DEFINE to == [e \in entries |-> [e EXCEPT !.forecast = Relabel(options[1], @)]]
  <2>1. to \in Surjection(entries, entries')
    BY <1>1 DEF Surjection
  <2> QED
    BY <2>1, FS_Surjection DEF Judged, EntriesAre
<1>9. EntriesAre'
  BY <1>1, <1>7, <1>8 DEF EntriesAre
<1> QED
  BY <1>1, <1>6, <1>9, SameVerdict DEF Judged

LEMMA RefetchJudges == ASSUME Known, Judged, Refetch \/ Verify PROVE Judged'
<1>1. /\ stage = "posted"
      /\ UNCHANGED <<question, options, entries, stage, posted>>
  BY DEF Refetch, Verify, desk, platform, Judged, JudgedIsPosted
<1>2. PICK outcome :
        /\ outcome \in {Classified(ExpectedValues(posted), Labels(posted)), "unreadable"}
        /\ verdict' = Found(outcome)
        /\ snapshot' = [expected |-> ExpectedValues(posted), labels |-> Labels(posted)]
  <2>1. CASE Refetch
    BY <2>1 DEF Refetch
  <2>2. CASE Verify
    <3>1. snapshot = [expected |-> ExpectedValues(posted), labels |-> Labels(posted)]
      BY <2>2 DEF Verify, Judged, JudgedIsPosted
    <3> QED
      BY <2>2, <3>1 DEF Verify
  <2> QED
    BY <2>1, <2>2
<1>3. Plans(posted) /\ posted.question_type = question.qtype
  BY <1>1 DEF Judged, JudgedIsPosted
<1>4. /\ outcome = "confirmed" => Found(outcome).latest = posted
      /\ outcome \in {"absent", "mismatched"} => Found(outcome).latest # posted
  BY <1>2, <1>3, VerdictJudges DEF Known, Judged
<1>5. Found(outcome).outcome = outcome
  BY DEF Found
<1>6. VerdictIsTrue'
  BY <1>1, <1>2, <1>4, <1>5 DEF VerdictIsTrue
<1>7. JudgedIsPosted'
  BY <1>1, <1>2, <1>3 DEF JudgedIsPosted, Plans, ExpectedPoints
<1> QED
  BY <1>1, <1>6, <1>7 DEF Judged, OptionsAre, EntriesAre, IsChoice

LEMMA NextJudges == ASSUME Inductive, Known, Judged, [Next]_vars PROVE Judged'
<1>1. CASE Preflight \/ Answer \/ Approve \/ Reject
  BY <1>1, NothingJudged DEF Preflight, Answer, GiveUp, Repair, Keep, Approve, Reject, Decide, desk
<1>2. CASE Deploy \/ UNCHANGED vars
  BY <1>2, SameJudged DEF Deploy, vars, desk
<1> QED
  BY <1>1, <1>2, PostJudges, ElsewhereJudges, RenameJudges, RefetchJudges DEF Next

\* The options' order on the platform is the question's or the reverse.
LEMMA InitJudges == ASSUME Init PROVE Judged
<1>1. question \in Questions
  BY DEF Init
<1>2. OptionsAre
  <2> SUFFICES ASSUME IsChoice(question)
               PROVE  /\ options \in Seq(ToSet(options)) /\ IsInjective(options)
                      /\ options # <<>> /\ ToSet(options) = ToSet(question.options)
    BY DEF OptionsAre
  <2>1. PICK s, S : s = question.options /\ S = ToSet(Alphabet)
    OBVIOUS
  <2>2. s \in Seq(S) /\ IsInjective(s) /\ Len(s) >= 2
    BY <1>1, <2>1, QuestionIs
  <2>3. options \in {s, Reverse(s)}
    BY <2>1 DEF Init
  <2>4. CASE options = s
    <3>1. s \in Seq(ToSet(s)) /\ s # <<>>
      BY <2>2 DEF ToSet
    <3> QED
      BY <2>1, <2>2, <2>4, <3>1
  <2>5. CASE options = Reverse(s)
    <3>1. PICK n \in Nat : n = Len(s) /\ n >= 2
      BY <2>2
    <3>2. /\ DOMAIN s = 1 .. n
          /\ options = [i \in 1 .. n |-> s[(n - i) + 1]]
      BY <2>2, <2>5, <3>1 DEF Reverse
    <3>3. \A i \in 1 .. n : (n - i) + 1 \in 1 .. n
      BY <3>1
    <3>4. ToSet(options) = ToSet(s)
      <4>1. ASSUME NEW i \in 1 .. n PROVE s[i] \in ToSet(options)
        <5>1. (n - i) + 1 \in 1 .. n /\ (n - ((n - i) + 1)) + 1 = i
          BY <3>1
        <5>2. options[(n - i) + 1] = s[i]
          BY <3>2, <5>1
        <5> QED
          BY <3>2, <5>1, <5>2 DEF ToSet
      <4>2. ASSUME NEW i \in 1 .. n PROVE options[i] \in ToSet(s)
        BY <3>2, <3>3 DEF ToSet
      <4> QED
        BY <3>2, <4>1, <4>2 DEF ToSet
    <3>5. IsInjective(options)
      <4> SUFFICES ASSUME NEW i \in 1 .. n, NEW j \in 1 .. n, options[i] = options[j]
                   PROVE  i = j
        BY <3>2 DEF IsInjective
      <4>1. s[(n - i) + 1] = s[(n - j) + 1]
        BY <3>2
      <4>2. (n - i) + 1 = (n - j) + 1
        BY <2>2, <3>2, <3>3, <4>1 DEF IsInjective
      <4> QED
        BY <3>1, <4>2
    <3>6. options \in Seq(ToSet(options)) /\ options # <<>>
      <4>1. \A i \in 1 .. n : options[i] \in ToSet(options)
        BY <3>2 DEF ToSet
      <4>2. options \in [1 .. n -> ToSet(options)]
        BY <3>2, <4>1
      <4> QED
        BY <3>1, <4>2
    <3> QED
      BY <2>1, <3>4, <3>5, <3>6
  <2> QED
    BY <2>3, <2>4, <2>5
<1> QED
  BY <1>2, FS_EmptySet DEF Init, Judged, EntriesAre, JudgedIsPosted, VerdictIsTrue

\* A post is confirmed if and only if what the platform holds last is that post,
\* option for option, in whatever order the platform lists them and whatever they
\* are renamed to (submission_live.classify_refetch, verify_uncertain_attempt).
THEOREM VerdictIsTrueHolds == Spec => []VerdictIsTrue
<1>1. Judged => VerdictIsTrue
  BY DEF Judged
<1> QED
  BY <1>1, InitJudges, NextJudges, InductiveHolds, KnownHolds, PTL DEF Spec

=============================================================================

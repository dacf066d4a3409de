--------------------------- MODULE SpendingProofs ---------------------------
(***************************************************************************)
(* Inductive holds at every step of Spending, and what follows from it:    *)
(* nothing is bought twice, everything bought stays counted, and no        *)
(* ceiling is passed.                                                      *)
(***************************************************************************)
EXTENDS SpendingInvariant, FiniteSetTheorems, TLAPS

-----------------------------------------------------------------------------
(* Totals.                                                                 *)

LEMMA UnitsAre ==
  ASSUME NEW S, NEW f \in [S -> Nat]
  PROVE  /\ \A x \in S, n \in Nat : <<x, n>> \in Units(f) <=> n \in 1 .. f[x]
         /\ \A u \in Units(f) : u = <<u[1], u[2]>> /\ u[1] \in S /\ u[2] \in 1 .. f[u[1]]
BY DEF Units

LEMMA OneToN ==
  ASSUME NEW n \in Nat
  PROVE  IsFiniteSet(1 .. n) /\ Cardinality(1 .. n) = n
<1>1. /\ IsFiniteSet(1 .. n)
      /\ Cardinality(1 .. n) = IF 1 > n THEN 0 ELSE n - 1 + 1
  <2>1. 1 \in Int /\ n \in Int
    OBVIOUS
  <2> QED
    BY <2>1, FS_Interval, Zenon
<1> QED
  BY <1>1

LEMMA UnitsAreFinite ==
  ASSUME NEW S, IsFiniteSet(S), NEW f \in [S -> Nat]
  PROVE  IsFiniteSet(Units(f)) /\ Total(f) \in Nat
<1> DEFINE Of(x) == {x} \X (1 .. f[x])
           F == {Of(x) : x \in S}
<1>1. IsFiniteSet(F)
  <2> DEFINE of == [x \in S |-> Of(x)]
  <2>1. of \in Surjection(S, F)
    BY DEF Surjection, Range
  <2> QED
    BY <2>1, FS_Surjection
<1>2. \A T \in F : IsFiniteSet(T)
  <2> SUFFICES ASSUME NEW x \in S PROVE IsFiniteSet(Of(x))
    OBVIOUS
  <2>1. IsFiniteSet({x}) /\ IsFiniteSet(1 .. f[x])
    BY FS_Singleton, OneToN
  <2> QED
    BY <2>1, FS_Product
<1>3. Units(f) = UNION F
  BY DEF Units
<1>4. IsFiniteSet(Units(f))
  BY <1>1, <1>2, <1>3, FS_UNION
<1> QED
  BY <1>4, FS_CardinalityType DEF Total

LEMMA TotalOfNothing ==
  ASSUME NEW f \in [{} -> Nat]
  PROVE  Total(f) = 0
<1>1. Units(f) = {}
  BY DEF Units
<1> QED
  BY <1>1, FS_EmptySet DEF Total

LEMMA TotalGrows ==
  ASSUME NEW S, NEW T, IsFiniteSet(T), S \subseteq T,
         NEW f \in [S -> Nat], NEW g \in [T -> Nat],
         \A x \in S : f[x] <= g[x]
  PROVE  Total(f) <= Total(g)
<1>1. Units(f) \subseteq Units(g)
  BY DEF Units
<1>2. IsFiniteSet(Units(g))
  BY UnitsAreFinite
<1> QED
  BY <1>1, <1>2, FS_Subset DEF Total

LEMMA TotalWithOne ==
  ASSUME NEW S, IsFiniteSet(S), NEW x, x \notin S,
         NEW f \in [S -> Nat], NEW g \in [S \cup {x} -> Nat],
         \A y \in S : g[y] = f[y]
  PROVE  Total(g) = Total(f) + g[x]
<1> DEFINE new == {x} \X (1 .. g[x])
<1>1. Units(g) = Units(f) \cup new /\ Units(f) \cap new = {}
  BY DEF Units
<1>2. IsFiniteSet(new) /\ Cardinality(new) = g[x]
  <2>1. IsFiniteSet({x}) /\ Cardinality({x}) = 1
    BY FS_Singleton
  <2>2. IsFiniteSet(1 .. g[x]) /\ Cardinality(1 .. g[x]) = g[x]
    BY OneToN
  <2>3. IsFiniteSet(new) /\ Cardinality(new) = Cardinality({x}) * Cardinality(1 .. g[x])
    BY <2>1, <2>2, FS_Product, Zenon
  <2> QED
    BY <2>1, <2>2, <2>3
<1>3. IsFiniteSet(Units(f)) /\ Cardinality(Units(f)) \in Nat
  BY UnitsAreFinite DEF Total
<1> HIDE DEF new
<1>4. Cardinality(Units(f) \cup new)
        = Cardinality(Units(f)) + Cardinality(new) - Cardinality(Units(f) \cap new)
  BY <1>2, <1>3, FS_Union, Zenon
<1>5. Cardinality(Units(f) \cap new) = 0
  BY <1>1, FS_EmptySet
<1> QED
  BY <1>1, <1>2, <1>3, <1>4, <1>5 DEF Total

LEMMA TotalCarries ==
  ASSUME NEW S, NEW T, IsFiniteSet(T),
         NEW f \in [S -> Nat], NEW g \in [T -> Nat],
         NEW h \in [S -> T],
         \A x, y \in S : h[x] = h[y] => x = y,
         \A x \in S : f[x] <= g[h[x]]
  PROVE  Total(f) <= Total(g)
<1> DEFINE to == [u \in Units(f) |-> <<h[u[1]], u[2]>>]
<1>1. to \in [Units(f) -> Units(g)]
  BY UnitsAre DEF Units
<1>2. \A u, v \in Units(f) : to[u] = to[v] => u = v
  BY UnitsAre
<1>3. to \in Injection(Units(f), Units(g))
  BY <1>1, <1>2 DEF Injection, IsInjective
<1>4. IsFiniteSet(Units(g))
  BY UnitsAreFinite
<1> QED
  BY <1>3, <1>4, FS_Injection DEF Total

-----------------------------------------------------------------------------
(* Reservations, and the initial state.                                    *)

LEMMA ReservationsAreFinite == IsFiniteSet(Reservations)
<1>1. IsFiniteSet(1 .. MaxReservations)
  BY OneToN, BoundsAreNumbers
<1> QED
  BY <1>1, CallsAreDescribed, FS_Product DEF Reservations

LEMMA ReservationsAre ==
  /\ None \notin Reservations
  /\ None \notin Amounts /\ Unpriced \notin Amounts /\ None # Unpriced
  /\ \A r \in Reservations :
        /\ CallOf(r) \in Calls
        /\ ProjectOf[CallOf(r)] \in Projects
        /\ EstimateOf[CallOf(r)] \in Nat \ {0}
BY MarksAreNotAmounts, CallsAreDescribed DEF Reservations, CallOf, Amounts

\* What an earlier version bought was bought once, and not from AskNews.
LEMMA OldReservationsAre ==
  /\ OldReservations \subseteq Reservations
  /\ \A r \in OldReservations : CallOf(r) \in Understated /\ r = Old(CallOf(r))
  /\ \A c \in Understated : c \in Calls /\ Old(c) \in OldReservations /\ CallOf(Old(c)) = c
  /\ OldReservations \cap OfNews = {}
<1>1. \A c \in Understated : c \in Calls /\ Old(c) \in Reservations /\ CallOf(Old(c)) = c
  BY UnderstatedAreModelCalls, BoundsAreNumbers DEF Old, Reservations, CallOf
<1> QED
  BY <1>1, UnderstatedAreModelCalls DEF OldReservations, OfNews

\* There is an oldest project.
LEMMA FirstProject == \E p \in Projects : \A q \in Projects : p <= q
<1>1. IsWellFoundedOn(OpToRel(<, Nat), Nat)
  BY NatLessThanWellFounded
<1>2. PICK p \in Projects : \A q \in Projects : <<q, p>> \notin OpToRel(<, Nat)
  BY <1>1, WFMin, ProjectsAreIds, Zenon
<1>3. p \in Nat /\ \A q \in Projects : q \in Nat
  BY ProjectsAreIds
<1>4. \A q \in Projects : ~(q < p)
  BY <1>2, <1>3, Zenon DEF OpToRel
<1> QED
  BY <1>3, <1>4

LEMMA InitTypes == Init => TypeOK
<1> SUFFICES ASSUME Init PROVE TypeOK
  OBVIOUS
<1>1. store.project \in Projects
  <2> DEFINE p == CHOOSE p \in Projects : \A q \in Projects : p <= q
  <2>1. p \in Projects
    BY FirstProject
  <2> QED
    BY <2>1 DEF Init
<1>2. store \in StoreType
  BY <1>1, OldReservationsAre, ReservationsAre DEF Init, StoreType, Amounts
<1> QED
  BY <1>2, OldReservationsAre, ReservationsAre, BoundsAreNumbers DEF Init, TypeOK, Amounts, Arms, Buying

LEMMA InitInductive == Init => Inductive /\ Unrestored
<1> SUFFICES ASSUME Init PROVE Inductive /\ Unrestored
  OBVIOUS
<1>1. TypeOK
  BY InitTypes
<1>2. StoreSound(store)
  BY OldReservationsAre, ReservationsAre
     DEF Init, StoreSound, RowsStand, AmountsStand, SentIsKnown, Amounts
<1>3. World
  BY OldReservationsAre, ReservationsAre DEF Init, World
<1>4. Ahead /\ Hand /\ HandFits /\ Reconciled /\ Corrections /\ saved = None
  BY DEF Init, Ahead, Hand, HandFits, Reconciled, Corrections, Buying, Unsent, Arms
<1>5. Unrestored
  <2>1. store.stamped \ OldReservations = {} /\ store.stamped \cap OfNews = {}
    BY OldReservationsAre DEF Init
  <2>2. Used(store, {}) = 0
    BY TotalOfNothing DEF Used
  <2>3. /\ guard \subseteq store.witness
        /\ \A r \in Reservations : store.rows[r] # 0 => r \in store.stamped
    BY DEF Init
  <2> QED
    BY <2>1, <2>2, <2>3, CeilingsAreAmounts DEF Unrestored
<1> QED
  BY <1>1, <1>2, <1>3, <1>4, <1>5 DEF Inductive

-----------------------------------------------------------------------------
(* Types.                                                                  *)

\* What a reservation adds to the ledger, field by field.
LEMMA ReserveWrites ==
  ASSUME store \in StoreType, RowsStand(store), NEW c \in Calls, Reserve(c)
  PROVE  \E r \in Fresh(c) :
            /\ r \in Reservations \ minted /\ CallOf(r) = c
            /\ store.rows[r] = 0 /\ store.settled[r] = None
            /\ cur' = r /\ minted' = minted \cup {r}
            /\ store' \in StoreType
            /\ store'.rows = [store.rows EXCEPT ![r] = 1]
            /\ store'.stamped = store.stamped \cup {r}
            /\ store'.settled = store.settled
            /\ store'.corrected = store.corrected
            /\ store'.witness = store.witness
            /\ store'.ops = store.ops
            /\ store'.started = store.started
            /\ store'.completed = store.completed
            /\ store'.response = store.response
            /\ store'.held = store.held
            /\ store'.project = store.project
<1>1. PICK r \in Fresh(c) :
         /\ store' = [store EXCEPT !.rows[r] = @ + 1, !.stamped = @ \cup {r}]
         /\ minted' = minted \cup {r}
         /\ cur' = r
  BY DEF Reserve
<1>2. r \in Reservations \ minted /\ CallOf(r) = c
  BY DEF Fresh
<1>3. store.rows[r] = 0 /\ store.settled[r] = None
  BY <1>2 DEF RowsStand, StoreType
<1> DEFINE rows == [store.rows EXCEPT ![r] = 1]
           stamped == store.stamped \cup {r}
<1>4. rows \in [Reservations -> 0 .. 1] /\ stamped \in SUBSET Reservations
  BY <1>2 DEF StoreType
<1>5. store' = [[store EXCEPT !.rows = rows] EXCEPT !.stamped = stamped]
  BY <1>1, <1>2, <1>3 DEF StoreType
<1>6. [store EXCEPT !.rows = rows] \in StoreType
  BY <1>4 DEF StoreType
<1> HIDE DEF rows, stamped
<1>7. /\ store' \in StoreType
      /\ store'.rows = rows
      /\ store'.stamped = stamped
      /\ store'.settled = store.settled
      /\ store'.corrected = store.corrected
      /\ store'.witness = store.witness
      /\ store'.ops = store.ops
      /\ store'.started = store.started
      /\ store'.completed = store.completed
      /\ store'.response = store.response
      /\ store'.held = store.held
      /\ store'.project = store.project
  BY <1>4, <1>5, <1>6 DEF StoreType
<1> QED
  BY <1>1, <1>2, <1>3, <1>7 DEF rows, stamped

\* What `reconcile-restored` brings back, field by field.
LEMMA HoldWrites ==
  ASSUME store \in StoreType, cur \in Reservations, HoldSpending
  PROVE  /\ store' \in StoreType
         /\ store'.rows = [store.rows EXCEPT ![cur] = 1]
         /\ store'.held = IF OutcomeRetained(store, cur)
                          THEN store.held ELSE store.held \cup {cur}
         /\ store'.stamped = store.stamped
         /\ store'.settled = store.settled
         /\ store'.corrected = store.corrected
         /\ store'.witness = store.witness
         /\ store'.ops = store.ops
         /\ store'.started = store.started
         /\ store'.completed = store.completed
         /\ store'.response = store.response
         /\ store'.project = store.project
<1> DEFINE rows == [store.rows EXCEPT ![cur] = 1]
           held == IF OutcomeRetained(store, cur)
                   THEN store.held ELSE store.held \cup {cur}
<1>1. rows \in [Reservations -> 0 .. 1] /\ held \in SUBSET Reservations
  BY DEF StoreType
<1>2. rows = [store.rows EXCEPT ![cur] = IF @ = 0 THEN 1 ELSE @]
  BY DEF StoreType
<1>3. store' = [[store EXCEPT !.rows = rows] EXCEPT !.held = held]
  BY <1>2 DEF HoldSpending, StoreType
<1>4. [store EXCEPT !.rows = rows] \in StoreType
  BY <1>1 DEF StoreType
<1> HIDE DEF rows, held
<1> QED
  BY <1>1, <1>3, <1>4 DEF StoreType, rows, held

\* A settlement changes one field, and only where nothing was written.
LEMMA SettleWrites ==
  ASSUME NEW s \in StoreType, NEW r \in Reservations, NEW a \in Amounts
  PROVE  LET t == Settle(s, r, a)
         IN  /\ t \in StoreType
             /\ t.settled = IF s.settled[r] = None
                            THEN [s.settled EXCEPT ![r] = a] ELSE s.settled
             /\ t.rows = s.rows
             /\ t.stamped = s.stamped
             /\ t.corrected = s.corrected
             /\ t.witness = s.witness
             /\ t.ops = s.ops
             /\ t.started = s.started
             /\ t.completed = s.completed
             /\ t.response = s.response
             /\ t.held = s.held
             /\ t.project = s.project
BY DEF Settle, StoreType

\* The one question of a purchase that is answered from the journal.
LEMMA ReplayWrites ==
  ASSUME Inductive, NEW c \in Calls, Replay(c)
  PROVE  \/ store' = store
         \/ \E r \in Reservations, a \in Amounts :
               /\ store.rows[r] = 1 /\ a = charge[r]
               /\ store' = Settle(store, r, a)
<1> DEFINE r == store.started[c]
           a == KnownCost(store, c)
<1>1. CASE a \notin Amounts
  BY <1>1 DEF Replay
<1>2. CASE a \in Amounts
  <2>1. store.completed[c] # None /\ store' = Settle(store, r, a)
    BY <1>2, Zenon DEF Replay
  <2>2. r \in Reservations
    BY <2>1 DEF Inductive, TypeOK, StoreType, StoreSound, AmountsStand
  <2>3. store.rows[r] = 1
    BY <2>2, ReservationsAre DEF Inductive, StoreSound, RowsStand
  <2>4. a = charge[r]
    BY <1>2, <2>1, <2>2 DEF KnownCost, Inductive, StoreSound, AmountsStand
  <2> QED
    BY <1>2, <2>1, <2>2, <2>3, <2>4
<1> QED
  BY <1>1, <1>2

\* Steps that only move the worker.
LEMMA QuietTypes ==
  ASSUME TypeOK,
         UNCHANGED <<store, guard, saved, restores, minted, provider, operator>>,
         \/ BeginPoll \/ BeginQuestion \/ BeginSide \/ EndQuestion \/ EndPoll
         \/ BeginReconcile \/ EndReconcile
         \/ \E r \in Reservations : TakeGuard(r)
         \/ Answer \/ NoAnswer \/ Interrupt \/ Crash
  PROVE  TypeOK'
<1>1. /\ pc' \in {"idle", "poll"} \cup Arms \cup Buying \cup Restoring
      /\ arm' \in Arms
      /\ cur' \in Reservations \cup {None}
      /\ pc' \in Buying \cup {"hold", "file", "import"} => cur' \in Reservations
      /\ reply' \in Amounts \cup {None, Unpriced}
  <2>1. CASE BeginPoll
    BY <2>1 DEF TypeOK, BeginPoll, Step, Drop, Arms, Buying, Restoring
  <2>2. CASE BeginQuestion
    BY <2>2 DEF TypeOK, BeginQuestion, Step, Drop, Arms, Buying, Restoring
  <2>3. CASE BeginSide
    BY <2>3 DEF TypeOK, BeginSide, Step, Drop, Arms, Buying, Restoring
  <2>4. CASE EndQuestion
    BY <2>4 DEF TypeOK, EndQuestion, Step, Drop, Arms, Buying, Restoring
  <2>5. CASE EndPoll
    BY <2>5 DEF TypeOK, EndPoll, Step, Drop, Arms, Buying, Restoring
  <2>6. CASE BeginReconcile
    BY <2>6 DEF TypeOK, BeginReconcile, Step, Drop, Arms, Buying, Restoring
  <2>7. CASE EndReconcile
    BY <2>7 DEF TypeOK, EndReconcile, Step, Drop, Arms, Buying, Restoring
  <2>8. CASE Answer
    BY <2>8 DEF TypeOK, Answer, Step, Drop, Arms, Buying, Restoring
  <2>9. CASE NoAnswer
    BY <2>9 DEF TypeOK, NoAnswer, Step, Drop, Arms, Buying, Restoring
  <2>10. CASE Interrupt
    BY <2>10 DEF TypeOK, Interrupt, Step, Drop, Arms, Buying, Restoring
  <2>11. CASE Crash
    BY <2>11 DEF TypeOK, Crash, Free, Step, Drop, Arms, Buying, Restoring
  <2>12. CASE \E r \in Reservations : TakeGuard(r)
    BY <2>12 DEF TypeOK, TakeGuard, Step, Arms, Buying, Restoring
  <2> QED
    BY <2>1, <2>2, <2>3, <2>4, <2>5,
       <2>6, <2>7, <2>12, <2>8, <2>9,
       <2>10, <2>11
<1> QED
  BY <1>1 DEF TypeOK, provider, operator

\* Steps of a call, or of `reconcile-restored`, that move on and may write.
LEMMA MoveTypes ==
  ASSUME TypeOK, store' \in StoreType, guard' \in SUBSET Reservations,
         sent' \in SUBSET Reservations, minted' \in SUBSET Reservations,
         pc' \in {"idle", "poll"} \cup Arms \cup Buying \cup Restoring,
         cur' \in Reservations \cup {None},
         pc' \in Buying \cup {"hold", "file", "import"} => cur' \in Reservations,
         reply' \in {reply, None},
         UNCHANGED <<saved, restores, charge, arm, operator>>
  PROVE  TypeOK'
BY DEF TypeOK, operator

LEMMA StepTypes ==
  ASSUME Inductive, [Next]_vars
  PROVE  TypeOK'
<1> USE DEF Inductive
<1>0. TypeOK /\ store \in StoreType
  BY DEF TypeOK
<1>1. CASE \E p \in Projects : Rebind(p)
  BY <1>0, <1>1 DEF Rebind, TypeOK, StoreType, worker, provider, operator
<1>2. CASE \/ BeginPoll \/ BeginQuestion \/ BeginSide \/ EndQuestion \/ EndPoll
           \/ BeginReconcile \/ EndReconcile
           \/ \E r \in Reservations : TakeGuard(r)
           \/ Answer \/ NoAnswer \/ Interrupt \/ Crash
  <2>1. UNCHANGED <<store, guard, saved, restores, minted, provider, operator>>
    BY <1>2 DEF BeginPoll, BeginQuestion, BeginSide, EndQuestion, EndPoll,
       BeginReconcile, EndReconcile, TakeGuard, Answer, NoAnswer, Interrupt, Crash
  <2> QED
    BY <1>0, <1>2, <2>1, QuietTypes
<1>3. CASE \E c \in Calls : Replay(c)
  <2>1. PICK c \in Calls : Replay(c)
    BY <1>3
  <2>2. \/ store' = store
        \/ \E r \in Reservations, a \in Amounts : store' = Settle(store, r, a)
    BY <2>1, ReplayWrites
  <2>3. store' \in StoreType
    BY <1>0, <2>2, SettleWrites
  <2> QED
    BY <1>0, <2>1, <2>3 DEF Replay, TypeOK, worker, provider, operator
<1>4. CASE \E c \in Calls : Reserve(c)
  <2>1. PICK c \in Calls : Reserve(c)
    BY <1>4
  <2>2. \E r \in Reservations :
           cur' = r /\ minted' = minted \cup {r} /\ store' \in StoreType
    <3>1. RowsStand(store)
      BY DEF StoreSound
    <3> QED
      BY <1>0, <2>1, <3>1, ReserveWrites
  <2>3. /\ pc' = "row" /\ reply' = reply
        /\ UNCHANGED <<guard, saved, restores, provider, arm, operator>>
    BY <2>1 DEF Reserve
  <2> QED
    BY <1>0, <2>2, <2>3, MoveTypes DEF Buying, provider, TypeOK
<1>5. CASE WitnessRow
  <2>1. store' \in StoreType
    BY <1>0, <1>5 DEF WitnessRow, Step, StoreType, TypeOK, Buying
  <2> QED
    BY <1>0, <1>5, <2>1, MoveTypes DEF WitnessRow, Step, TypeOK, Buying, provider
<1>6. CASE WitnessOps
  <2>1. store' \in StoreType
    BY <1>0, <1>6 DEF WitnessOps, Step, StoreType, TypeOK, Buying
  <2> QED
    BY <1>0, <1>6, <2>1, MoveTypes DEF WitnessOps, Step, TypeOK, Buying, provider
<1>7. CASE WitnessGuard
  BY <1>0, <1>7, MoveTypes DEF WitnessGuard, Step, TypeOK, Buying, provider
<1>8. CASE Start
  <2>1. store' \in StoreType
    BY <1>0, <1>8, ReservationsAre DEF Start, Step, StoreType, TypeOK, Buying
  <2> QED
    BY <1>0, <1>8, <2>1, MoveTypes DEF Start, Step, TypeOK, Buying, provider
<1>9. CASE Send
  BY <1>0, <1>9, MoveTypes DEF Send, Step, TypeOK, Buying
<1>10. CASE Complete
  <2>1. store' \in StoreType
    BY <1>0, <1>10, ReservationsAre DEF Complete, StoreType, TypeOK, Buying
  <2> QED
    BY <1>0, <1>10, <2>1, MoveTypes DEF Complete, TypeOK, Buying, provider
<1>11. CASE Respond
  <2>1. store' \in StoreType
    BY <1>0, <1>11, ReservationsAre DEF Respond, Step, StoreType, TypeOK, Buying
  <2> QED
    BY <1>0, <1>11, <2>1, MoveTypes DEF Respond, Step, TypeOK, Buying, provider
<1>12. CASE SettleCall
  <2>1. store' \in StoreType
    BY <1>0, <1>12, SettleWrites DEF SettleCall, TypeOK, Buying
  <2>2. pc' \in Arms
    BY <1>0, <1>12 DEF SettleCall, TypeOK
  <2> QED
    BY <1>0, <1>12, <2>1, <2>2, MoveTypes
       DEF SettleCall, Drop, TypeOK, Arms, Buying, provider
<1>13. CASE ReadZeros \/ ReadCredits
  <2>1. ZeroRows \in SUBSET Priced
    BY <1>0 DEF ZeroRows, Priced
  <2>2. CreditRows \in SUBSET Priced
    BY <1>0 DEF CreditRows, Priced, OfNews
  <2> QED
    BY <1>0, <1>13, <2>1, <2>2 DEF ReadZeros, ReadCredits, TypeOK, provider, worker
<1>14. CASE AbandonCosts
  BY <1>0, <1>14 DEF AbandonCosts, TypeOK, provider, worker
<1>15. CASE \E m \in zeros : CorrectZero(m)
  <2>1. PICK m \in zeros : CorrectZero(m)
    BY <1>15
  <2>2. m[1] \in Reservations /\ m[2] \in Amounts
    BY <1>0 DEF TypeOK, Priced
  <2>3. store' \in StoreType
    BY <1>0, <2>1, <2>2 DEF CorrectZero, StoreType
  <2> QED
    BY <1>0, <2>1, <2>3 DEF CorrectZero, TypeOK, provider, worker
<1>16. CASE \E m \in credits : CorrectCredits(m)
  <2>1. PICK m \in credits : CorrectCredits(m)
    BY <1>16
  <2>2. m[1] \in Reservations /\ m[2] \in Amounts
    BY <1>0 DEF TypeOK, Priced
  <2>3. store' \in StoreType
    BY <1>0, <2>1, <2>2, SettleWrites DEF CorrectCredits
  <2> QED
    BY <1>0, <2>1, <2>3 DEF CorrectCredits, TypeOK, provider, worker
<1>17. CASE Backup
  BY <1>0, <1>17 DEF Backup, TypeOK, provider, worker, operator
<1>18. CASE Restore
  BY <1>0, <1>18, BoundsAreNumbers DEF Restore, TypeOK, provider, worker, operator
<1>19. CASE HoldSpending
  <2>1. store' \in StoreType
    BY <1>0, <1>19, HoldWrites DEF HoldSpending, Step, TypeOK
  <2> QED
    BY <1>0, <1>19, <2>1, MoveTypes DEF HoldSpending, Step, TypeOK, Restoring, provider
<1>20. CASE RestoreFile
  <2>1. store' \in StoreType
    BY <1>0, <1>20 DEF RestoreFile, Step, StoreType, TypeOK
  <2> QED
    BY <1>0, <1>20, <2>1, MoveTypes DEF RestoreFile, Step, TypeOK, Restoring, provider
<1>21. CASE ImportWitness
  <2>1. store' \in StoreType
    BY <1>0, <1>21 DEF ImportWitness, Step, StoreType, TypeOK
  <2> QED
    BY <1>0, <1>21, <2>1, MoveTypes
       DEF ImportWitness, Step, Drop, TypeOK, Restoring, Buying, provider
<1>22. CASE \E r \in Reservations : Charge(r)
  BY <1>0, <1>22 DEF Charge, TypeOK, Amounts, worker, operator
<1>23. CASE UNCHANGED vars
  BY <1>0, <1>23 DEF vars, TypeOK, worker, provider, operator
<1> QED
  BY <1>1, <1>2, <1>3, <1>4, <1>5, <1>6, <1>7, <1>8, <1>9, <1>10, <1>11, <1>12,
     <1>13, <1>14, <1>15, <1>16, <1>17, <1>18, <1>19, <1>20, <1>21, <1>22, <1>23
     DEF Next, BuyStep, PollStep, CostStep, ReconcileStep

-----------------------------------------------------------------------------
(* What most steps leave as it is.                                         *)

LEMMA SavedKept ==
  ASSUME Inductive, UNCHANGED <<saved, sent, charge>>, minted \subseteq minted'
  PROVE  (saved # None => StoreSound(saved))'
<1>1. CASE saved = None
  BY <1>1
<1>2. CASE saved # None
  <2>1. saved \in StoreType /\ StoreSound(saved)
    BY <1>2 DEF Inductive, TypeOK
  <2>2. RowsStand(saved)'
    BY <2>1 DEF StoreSound, RowsStand, StoreType
  <2>3. AmountsStand(saved)' /\ SentIsKnown(saved)'
    BY <2>1 DEF StoreSound, AmountsStand, SentIsKnown
  <2> QED
    BY <2>2, <2>3 DEF StoreSound
<1> QED
  BY <1>1, <1>2

LEMMA WorldKept ==
  ASSUME World, UNCHANGED <<guard, sent, charge>>, minted \subseteq minted'
  PROVE  World'
BY DEF World

LEMMA StoreKept ==
  ASSUME Inductive, UNCHANGED <<store, sent, charge, minted>>
  PROVE  StoreSound(store)'
BY DEF Inductive, StoreSound, RowsStand, AmountsStand, SentIsKnown

LEMMA FitsKept ==
  ASSUME HandFits, UNCHANGED <<sent, charge>>,
         pc' \in Unsent => pc \in Unsent /\ cur' = cur
  PROVE  HandFits'
<1>1. \A p : AtRisk(p)' = AtRisk(p)
  BY DEF AtRisk, Exposed
<1> QED
  BY <1>1 DEF HandFits

\* Steps that only move the worker, or the operator's lists.
LEMMA QuietKeeps ==
  ASSUME Inductive, TypeOK',
         UNCHANGED <<store, guard, saved, restores, minted, provider>>,
         pc' \in {"poll"} \cup Arms \cup Buying
           => guard \subseteq store.witness,
         Hand', pc' \in Unsent => pc \in Unsent /\ cur' = cur,
         Reconciled', Corrections'
  PROVE  Inductive'
<1>1. UNCHANGED <<sent, charge>> /\ minted \subseteq minted'
  BY DEF provider
<1>2. World' /\ HandFits'
  BY <1>1, WorldKept, FitsKept DEF Inductive
<1>3. Ahead'
  BY DEF Ahead
<1> QED
  BY <1>1, <1>2, <1>3, SavedKept, StoreKept DEF Inductive

LEMMA QuietSteps ==
  ASSUME Inductive, TypeOK',
         \/ BeginPoll \/ BeginQuestion \/ BeginSide \/ EndQuestion \/ EndPoll
         \/ BeginReconcile \/ EndReconcile
         \/ \E r \in Reservations : TakeGuard(r)
         \/ Answer \/ NoAnswer \/ Interrupt \/ Crash
  PROVE  Inductive'
<1>1. UNCHANGED <<store, guard, saved, restores, minted, provider, operator>>
  BY DEF BeginPoll, BeginQuestion, BeginSide, EndQuestion, EndPoll,
     BeginReconcile, EndReconcile, TakeGuard, Answer, NoAnswer, Interrupt, Crash
<1>2. Corrections'
  BY <1>1 DEF Inductive, Corrections, provider, operator
<1>3. CASE Answer
  <2>1. Hand'
    BY <1>1, <1>3 DEF Answer, Step, Inductive, Hand, Buying, Unsent, provider
  <2>2. Reconciled' /\ pc' = "complete"
    BY <1>3 DEF Answer, Step, Reconciled
  <2>3. guard \subseteq store.witness
    BY <1>3 DEF Answer, Step, Inductive, Ahead, Buying
  <2> QED
    BY <1>1, <1>2, <2>1, <2>2, <2>3, QuietKeeps DEF Unsent
<1>4. CASE \E r \in Reservations : TakeGuard(r)
  <2>1. Reconciled' /\ pc' = "hold"
    BY <1>1, <1>4 DEF TakeGuard, Step, Reconciled
  <2> QED
    BY <1>1, <1>2, <2>1, QuietKeeps DEF Hand, Buying, Arms, Unsent
<1>5. CASE ~Answer /\ ~(\E r \in Reservations : TakeGuard(r))
  <2>1. pc' \in {"idle", "poll", "reconcile"} \cup Arms
    BY <1>5 DEF BeginPoll, BeginQuestion, BeginSide, EndQuestion, EndPoll,
       BeginReconcile, EndReconcile, NoAnswer, Interrupt, Crash, Step, Arms,
       Inductive, TypeOK
  <2>2. pc' \in {"poll"} \cup Arms => guard \subseteq store.witness
    BY <1>5 DEF BeginPoll, BeginQuestion, BeginSide, EndQuestion, EndPoll,
       BeginReconcile, EndReconcile, NoAnswer, Interrupt, Crash, Step, Arms,
       Inductive, Ahead, Whole, Buying
  <2>3. pc' \notin Buying /\ Reconciled'
    BY <2>1 DEF Buying, Arms, Reconciled
  <2> QED
    BY <1>1, <1>2, <2>2, <2>3, QuietKeeps DEF Hand, Unsent, Buying
<1> QED
  BY <1>3, <1>4, <1>5

LEMMA CostLists ==
  ASSUME Inductive, TypeOK', ReadZeros \/ ReadCredits \/ AbandonCosts
  PROVE  Inductive'
<1>1. UNCHANGED <<store, guard, saved, restores, minted, provider, worker>>
  BY DEF ReadZeros, ReadCredits, AbandonCosts
<1>2. Corrections'
  <2>1. CASE AbandonCosts
    BY <2>1 DEF AbandonCosts, Corrections
  <2>2. CASE ReadZeros
    <3>1. \A m \in ZeroRows : m[2] = charge[m[1]] /\ store.settled[m[1]] = 0
      BY DEF ZeroRows, Inductive, StoreSound, AmountsStand
    <3> QED
      BY <1>1, <2>2, <3>1 DEF ReadZeros, Corrections, Inductive, provider
  <2>3. CASE ReadCredits
    <3>1. \A m \in CreditRows : m[2] = charge[m[1]] /\ store.rows[m[1]] = 1
      <4> SUFFICES ASSUME NEW x \in OfNews, store.rows[x] > 0,
                          store.started[CallOf(x)] = x,
                          store.completed[CallOf(x)] \in Amounts
                   PROVE  store.completed[CallOf(x)] = charge[x] /\ store.rows[x] = 1
        BY DEF CreditRows
      <4>1. x \in Reservations /\ CallOf(x) \in Calls
        BY ReservationsAre DEF OfNews
      <4> QED
        BY <4>1 DEF Inductive, StoreSound, AmountsStand, TypeOK, StoreType
    <3> QED
      BY <1>1, <2>3, <3>1 DEF ReadCredits, Corrections, Inductive, provider
  <2> QED
    BY <2>1, <2>2, <2>3
<1>3. Ahead' /\ Hand' /\ Reconciled'
  BY <1>1 DEF Inductive, Ahead, Hand, Reconciled, worker, provider
<1> QED
  BY <1>1, <1>2, <1>3, QuietKeeps DEF worker, Ahead

-----------------------------------------------------------------------------
(* Steps that write the ledger.                                            *)

LEMMA WriteKeeps ==
  ASSUME Inductive, TypeOK', UNCHANGED <<guard, saved, sent, charge>>,
         minted \subseteq minted', StoreSound(store)',
         Ahead', Hand', HandFits', Reconciled', Corrections'
  PROVE  Inductive'
BY SavedKept, WorldKept DEF Inductive

\* A settlement at what the provider charged.
LEMMA SettleSound ==
  ASSUME Inductive, NEW r \in Reservations, NEW a \in Amounts,
         store.rows[r] = 1, a = charge[r], store' = Settle(store, r, a),
         UNCHANGED <<minted, sent, charge>>
  PROVE  /\ StoreSound(store)'
         /\ \A x \in Reservations :
               store.settled[x] # None => store'.settled[x] = store.settled[x]
         /\ store'.rows = store.rows
         /\ store'.witness = store.witness
         /\ store'.started = store.started
         /\ store'.completed = store.completed
         /\ store'.held = store.held
<1>0. store \in StoreType
  BY DEF Inductive, TypeOK
<1>1. /\ store'.settled = IF store.settled[r] = None
                          THEN [store.settled EXCEPT ![r] = a] ELSE store.settled
      /\ store'.rows = store.rows
      /\ store'.stamped = store.stamped
      /\ store'.corrected = store.corrected
      /\ store'.witness = store.witness
      /\ store'.started = store.started
      /\ store'.completed = store.completed
      /\ store'.response = store.response
      /\ store'.held = store.held
  BY <1>0, SettleWrites
<1>2. /\ \A x \in Reservations :
            store.settled[x] # None => store'.settled[x] = store.settled[x]
      /\ \A x \in Reservations : x # r => store'.settled[x] = store.settled[x]
      /\ store'.settled[r] \in {store.settled[r], charge[r]}
  BY <1>0, <1>1 DEF StoreType
<1>3. RowsStand(store)'
  BY <1>1, <1>2 DEF Inductive, StoreSound, RowsStand
<1>4. AmountsStand(store)'
  BY <1>1, <1>2 DEF Inductive, StoreSound, AmountsStand
<1>5. SentIsKnown(store)'
  BY <1>1 DEF Inductive, StoreSound, SentIsKnown
<1> QED
  BY <1>1, <1>2, <1>3, <1>4, <1>5 DEF StoreSound

LEMMA ReplayKeeps ==
  ASSUME Inductive, TypeOK', NEW c \in Calls, Replay(c)
  PROVE  Inductive'
<1>1. UNCHANGED <<guard, saved, restores, minted, sent, charge, pc, arm, cur,
                  reply, zeros, credits>> /\ pc \in Arms
  BY DEF Replay, provider, worker, operator
<1>2. CASE store' = store
  BY <1>1, <1>2, QuietKeeps
     DEF provider, Inductive, Ahead, Hand, Reconciled, Corrections
<1>3. CASE \E r \in Reservations, a \in Amounts :
              /\ store.rows[r] = 1 /\ a = charge[r]
              /\ store' = Settle(store, r, a)
  <2>1. /\ StoreSound(store)'
        /\ \A x \in Reservations :
              store.settled[x] # None => store'.settled[x] = store.settled[x]
        /\ store'.rows = store.rows
        /\ store'.witness = store.witness
    BY <1>1, <1>3, SettleSound
  <2>2. Ahead' /\ Hand' /\ HandFits' /\ Reconciled'
    BY <1>1, <2>1 DEF Inductive, Ahead, Hand, HandFits, Reconciled, Arms, Buying, Unsent
  <2>3. Corrections'
    BY <1>1, <2>1, MarksAreNotAmounts DEF Inductive, Corrections, TypeOK, Priced
  <2> QED
    BY <1>1, <2>1, <2>2, <2>3, WriteKeeps
<1> QED
  BY <1>2, <1>3, ReplayWrites

LEMMA SettleCallKeeps ==
  ASSUME Inductive, TypeOK', SettleCall
  PROVE  Inductive'
<1>1. /\ UNCHANGED <<guard, saved, restores, minted, sent, charge, arm, zeros, credits>>
      /\ pc = "settle" /\ pc' \in Arms
  BY DEF SettleCall, provider, operator, Inductive, TypeOK
<1>2. /\ cur \in Reservations /\ store.rows[cur] = 1
      /\ reply \in {charge[cur], Unpriced}
  BY <1>1 DEF Inductive, TypeOK, Hand, Buying
<1>3. CASE store' = store
  BY <1>1, <1>3, QuietKeeps
     DEF provider, Inductive, Ahead, Hand, Reconciled, Corrections, Arms, Buying, Unsent
<1>4. CASE reply \in Amounts /\ store' = Settle(store, cur, reply)
  <2>1. reply = charge[cur]
    BY <1>2, <1>4, ReservationsAre
  <2>2. /\ StoreSound(store)'
        /\ \A x \in Reservations :
              store.settled[x] # None => store'.settled[x] = store.settled[x]
        /\ store'.rows = store.rows
        /\ store'.witness = store.witness
    BY <1>1, <1>2, <1>4, <2>1, SettleSound
  <2>3. Ahead' /\ Hand' /\ HandFits' /\ Reconciled'
    BY <1>1, <2>2 DEF Inductive, Ahead, Hand, HandFits, Reconciled, Arms, Buying, Unsent
  <2>4. Corrections'
    BY <1>1, <2>2, MarksAreNotAmounts DEF Inductive, Corrections, TypeOK, Priced
  <2> QED
    BY <1>1, <2>2, <2>3, <2>4, WriteKeeps
<1> QED
  BY <1>3, <1>4 DEF SettleCall

LEMMA CreditsKeep ==
  ASSUME Inductive, TypeOK', NEW m \in credits, CorrectCredits(m)
  PROVE  Inductive'
<1>1. /\ UNCHANGED <<guard, saved, restores, minted, sent, charge, pc, arm, cur, reply, zeros>>
      /\ credits' = credits \ {m}
      /\ store' = Settle(store, m[1], m[2])
  BY DEF CorrectCredits, provider, worker
<1>2. /\ m[1] \in Reservations /\ m[2] \in Amounts
      /\ store.rows[m[1]] = 1 /\ m[2] = charge[m[1]]
  BY DEF Inductive, TypeOK, Priced, Corrections
<1>3. /\ StoreSound(store)'
      /\ \A x \in Reservations :
            store.settled[x] # None => store'.settled[x] = store.settled[x]
      /\ store'.rows = store.rows
      /\ store'.witness = store.witness
      /\ store'.started = store.started
      /\ store'.completed = store.completed
      /\ store'.held = store.held
  BY <1>1, <1>2, SettleSound
<1>4. Ahead' /\ Hand' /\ Reconciled'
  BY <1>1, <1>3 DEF Inductive, Ahead, Hand, Reconciled
<1>5. HandFits'
  BY <1>1, FitsKept DEF Inductive
<1>6. Corrections'
  BY <1>1, <1>3, MarksAreNotAmounts DEF Inductive, Corrections, TypeOK, Priced
<1> QED
  BY <1>1, <1>3, <1>4, <1>5, <1>6, WriteKeeps

LEMMA ZeroKeeps ==
  ASSUME Inductive, TypeOK', NEW m \in zeros, CorrectZero(m)
  PROVE  Inductive'
<1>0. store \in StoreType /\ m[1] \in Reservations /\ m[2] = charge[m[1]]
  BY DEF Inductive, TypeOK, Priced, Corrections
<1>1. /\ UNCHANGED <<guard, saved, restores, minted, sent, charge, pc, arm, cur, reply, credits>>
      /\ zeros' = zeros \ {m}
  BY DEF CorrectZero, provider, worker
<1>2. /\ \A x \in Reservations :
            store'.corrected[x] \in {store.corrected[x], charge[x]}
      /\ store'.rows = store.rows
      /\ store'.stamped = store.stamped
      /\ store'.settled = store.settled
      /\ store'.witness = store.witness
      /\ store'.started = store.started
      /\ store'.completed = store.completed
      /\ store'.response = store.response
      /\ store'.held = store.held
  BY <1>0 DEF CorrectZero, StoreType
<1>3. StoreSound(store)'
  BY <1>1, <1>2
     DEF Inductive, StoreSound, RowsStand, AmountsStand, SentIsKnown
<1>4. Ahead' /\ Hand' /\ Reconciled' /\ Corrections'
  BY <1>1, <1>2 DEF Inductive, Ahead, Hand, Reconciled, Corrections
<1>5. HandFits'
  BY <1>1, FitsKept DEF Inductive
<1> QED
  BY <1>1, <1>3, <1>4, <1>5, WriteKeeps

LEMMA RebindKeeps ==
  ASSUME Inductive, TypeOK', NEW p \in Projects, Rebind(p)
  PROVE  Inductive'
<1>0. store \in StoreType
  BY DEF Inductive, TypeOK
<1>1. /\ UNCHANGED <<guard, saved, restores, minted, sent, charge, pc, arm, cur,
                     reply, zeros, credits>>
      /\ pc = "idle"
  BY DEF Rebind, Free, provider, worker, operator
<1>2. /\ store'.rows = store.rows
      /\ store'.stamped = store.stamped
      /\ store'.settled = store.settled
      /\ store'.corrected = store.corrected
      /\ store'.witness = store.witness
      /\ store'.started = store.started
      /\ store'.completed = store.completed
      /\ store'.response = store.response
      /\ store'.held = store.held
  BY <1>0 DEF Rebind, StoreType
<1>3. StoreSound(store)'
  BY <1>1, <1>2
     DEF Inductive, StoreSound, RowsStand, AmountsStand, SentIsKnown
<1>4. Ahead' /\ Hand' /\ HandFits' /\ Reconciled' /\ Corrections'
  BY <1>1, <1>2
     DEF Inductive, Ahead, Hand, HandFits, Reconciled, Corrections, Buying, Arms, Unsent
<1> QED
  BY <1>1, <1>3, <1>4, WriteKeeps

\* The witness's row.
LEMMA WitnessRowKeeps ==
  ASSUME Inductive, TypeOK', WitnessRow
  PROVE  Inductive'
<1>0. store \in StoreType /\ cur \in Reservations /\ pc = "row"
  BY DEF WitnessRow, Step, Inductive, TypeOK, Buying
<1>1. /\ UNCHANGED <<guard, saved, restores, minted, sent, charge, arm, zeros, credits>>
      /\ UNCHANGED <<cur, reply>> /\ pc' = "ops"
  BY DEF WitnessRow, Step, provider, operator
<1>2. /\ store'.witness = store.witness \cup {cur}
      /\ store'.rows = store.rows
      /\ store'.stamped = store.stamped
      /\ store'.settled = store.settled
      /\ store'.corrected = store.corrected
      /\ store'.started = store.started
      /\ store'.completed = store.completed
      /\ store'.response = store.response
      /\ store'.held = store.held
  BY <1>0 DEF WitnessRow, StoreType
<1>3. store.rows[cur] = 1 /\ \A r \in sent : CallOf(r) # CallOf(cur)
  BY <1>0 DEF Inductive, Hand, Buying, Unsent
<1>4. StoreSound(store)'
  BY <1>1, <1>2, <1>3
     DEF Inductive, StoreSound, RowsStand, AmountsStand, SentIsKnown
<1>5. Ahead' /\ Hand' /\ Reconciled' /\ Corrections'
  BY <1>0, <1>1, <1>2
     DEF Inductive, Ahead, Hand, Reconciled, Corrections, Buying, Arms, Unsent
<1>6. HandFits'
  BY <1>0, <1>1, FitsKept DEF Inductive, Unsent
<1> QED
  BY <1>1, <1>4, <1>5, <1>6, WriteKeeps

\* The files under operations/, written first and restored later.
LEMMA OpsKeep ==
  ASSUME Inductive, TypeOK', WitnessOps \/ RestoreFile
  PROVE  Inductive'
<1>0. store \in StoreType /\ cur \in Reservations
  BY DEF WitnessOps, RestoreFile, Step, Inductive, TypeOK, Buying
<1>1. /\ UNCHANGED <<guard, saved, restores, minted, sent, charge, arm, zeros, credits>>
      /\ UNCHANGED <<cur, reply>>
      /\ \/ pc = "ops" /\ pc' = "guard"
         \/ pc = "file" /\ pc' = "import"
  BY DEF WitnessOps, RestoreFile, Step, provider, operator
<1>2. /\ store'.witness = store.witness
      /\ store'.rows = store.rows
      /\ store'.stamped = store.stamped
      /\ store'.settled = store.settled
      /\ store'.corrected = store.corrected
      /\ store'.started = store.started
      /\ store'.completed = store.completed
      /\ store'.response = store.response
      /\ store'.held = store.held
  BY <1>0 DEF WitnessOps, RestoreFile, StoreType
<1>3. StoreSound(store)'
  BY <1>1, <1>2
     DEF Inductive, StoreSound, RowsStand, AmountsStand, SentIsKnown
<1>4. Ahead' /\ Hand' /\ Reconciled' /\ Corrections'
  BY <1>0, <1>1, <1>2
     DEF Inductive, Ahead, Hand, Reconciled, Corrections, Buying, Arms, Unsent
<1>5. HandFits'
  BY <1>1, FitsKept DEF Inductive, Unsent
<1> QED
  BY <1>1, <1>3, <1>4, <1>5, WriteKeeps

LEMMA StartKeeps ==
  ASSUME Inductive, TypeOK', Start
  PROVE  Inductive'
<1>0. store \in StoreType /\ cur \in Reservations /\ pc = "start" /\ CallOf(cur) \in Calls
  BY ReservationsAre DEF Start, Step, Inductive, TypeOK, Buying
<1>1. /\ UNCHANGED <<guard, saved, restores, minted, sent, charge, arm, zeros, credits>>
      /\ UNCHANGED <<cur, reply>> /\ pc' = "send"
  BY DEF Start, Step, provider, operator
<1>2. /\ store'.started = [store.started EXCEPT ![CallOf(cur)] = cur]
      /\ store'.rows = store.rows
      /\ store'.stamped = store.stamped
      /\ store'.settled = store.settled
      /\ store'.corrected = store.corrected
      /\ store'.witness = store.witness
      /\ store'.completed = store.completed
      /\ store'.response = store.response
      /\ store'.held = store.held
  BY <1>0 DEF Start, StoreType
<1>3. /\ store'.started[CallOf(cur)] = cur
      /\ \A c \in Calls : c # CallOf(cur) => store'.started[c] = store.started[c]
  BY <1>0, <1>2 DEF StoreType
<1>4. /\ store.rows[cur] = 1
      /\ \A r \in sent : CallOf(r) # CallOf(cur)
      /\ store.started[CallOf(cur)] = None /\ store.completed[CallOf(cur)] = None
  BY <1>0 DEF Inductive, Hand, Buying, Unsent
<1>5. RowsStand(store)'
  BY <1>0, <1>1, <1>2, <1>3, <1>4 DEF Inductive, StoreSound, RowsStand
<1>6. AmountsStand(store)'
  BY <1>1, <1>2, <1>3, <1>4, ReservationsAre
     DEF Inductive, StoreSound, AmountsStand
<1>7. SentIsKnown(store)'
  <2>1. \A r \in sent : CallOf(r) \in Calls
    BY ReservationsAre DEF Inductive, TypeOK
  <2> QED
    BY <1>1, <1>2, <1>3, <1>4, <2>1 DEF Inductive, StoreSound, SentIsKnown
<1>8. Ahead' /\ Hand' /\ Reconciled' /\ Corrections'
  BY <1>0, <1>1, <1>2, <1>3
     DEF Inductive, Ahead, Hand, Reconciled, Corrections, Buying, Arms, Unsent
<1>9. HandFits'
  BY <1>0, <1>1, FitsKept DEF Inductive, Unsent
<1> QED
  BY <1>1, <1>5, <1>6, <1>7, <1>8, <1>9, WriteKeeps DEF StoreSound

LEMMA CompleteKeeps ==
  ASSUME Inductive, TypeOK', Complete
  PROVE  Inductive'
<1>0. store \in StoreType /\ cur \in Reservations /\ pc = "complete" /\ CallOf(cur) \in Calls
  BY ReservationsAre DEF Complete, Inductive, TypeOK, Buying
<1>1. /\ UNCHANGED <<guard, saved, restores, minted, sent, charge, arm, zeros, credits>>
      /\ UNCHANGED <<cur, reply>> /\ pc' \in {"respond", "settle"}
  BY DEF Complete, provider, operator
<1>2. /\ store'.completed = [store.completed EXCEPT ![CallOf(cur)] = reply]
      /\ store'.rows = store.rows
      /\ store'.stamped = store.stamped
      /\ store'.settled = store.settled
      /\ store'.corrected = store.corrected
      /\ store'.witness = store.witness
      /\ store'.started = store.started
      /\ store'.response = store.response
      /\ store'.held = store.held
  BY <1>0 DEF Complete, StoreType
<1>3. /\ store'.completed[CallOf(cur)] = reply
      /\ \A c \in Calls : c # CallOf(cur) => store'.completed[c] = store.completed[c]
  BY <1>0, <1>2 DEF StoreType
<1>4. /\ store.started[CallOf(cur)] = cur
      /\ reply \in {charge[cur], Unpriced}
  BY <1>0 DEF Inductive, Hand, Buying, Unsent
<1>5. RowsStand(store)' /\ SentIsKnown(store)'
  BY <1>1, <1>2 DEF Inductive, StoreSound, RowsStand, SentIsKnown
<1>6. AmountsStand(store)'
  BY <1>0, <1>1, <1>2, <1>3, <1>4, ReservationsAre
     DEF Inductive, StoreSound, AmountsStand
<1>7. Ahead' /\ Hand' /\ Reconciled' /\ Corrections'
  BY <1>0, <1>1, <1>2
     DEF Inductive, Ahead, Hand, Reconciled, Corrections, Buying, Arms, Unsent
<1>8. HandFits'
  BY <1>1, FitsKept DEF Inductive, Unsent
<1> QED
  BY <1>1, <1>5, <1>6, <1>7, <1>8, WriteKeeps DEF StoreSound

LEMMA RespondKeeps ==
  ASSUME Inductive, TypeOK', Respond
  PROVE  Inductive'
<1>0. store \in StoreType /\ cur \in Reservations /\ pc = "respond"
  BY DEF Respond, Step, Inductive, TypeOK, Buying
<1>1. /\ UNCHANGED <<guard, saved, restores, minted, sent, charge, arm, zeros, credits>>
      /\ UNCHANGED <<cur, reply>> /\ pc' = "settle"
  BY DEF Respond, Step, provider, operator
<1>2. /\ store'.response = [store.response EXCEPT ![cur] = reply]
      /\ store'.rows = store.rows
      /\ store'.stamped = store.stamped
      /\ store'.settled = store.settled
      /\ store'.corrected = store.corrected
      /\ store'.witness = store.witness
      /\ store'.started = store.started
      /\ store'.completed = store.completed
      /\ store'.held = store.held
  BY <1>0 DEF Respond, StoreType
<1>3. /\ store'.response[cur] = reply
      /\ \A r \in Reservations : r # cur => store'.response[r] = store.response[r]
  BY <1>0, <1>2 DEF StoreType
<1>4. reply \in {charge[cur], Unpriced}
  BY <1>0 DEF Inductive, Hand, Buying
<1>5. RowsStand(store)' /\ SentIsKnown(store)'
  BY <1>1, <1>2 DEF Inductive, StoreSound, RowsStand, SentIsKnown
<1>6. AmountsStand(store)'
  BY <1>0, <1>1, <1>2, <1>3, <1>4, ReservationsAre
     DEF Inductive, StoreSound, AmountsStand
<1>7. Ahead' /\ Hand' /\ Reconciled' /\ Corrections'
  BY <1>0, <1>1, <1>2
     DEF Inductive, Ahead, Hand, Reconciled, Corrections, Buying, Arms, Unsent
<1>8. HandFits'
  BY <1>1, FitsKept DEF Inductive, Unsent
<1> QED
  BY <1>1, <1>5, <1>6, <1>7, <1>8, WriteKeeps DEF StoreSound

\* The reservation a restore took back, found again by its guard file.
LEMMA HoldKeeps ==
  ASSUME Inductive, TypeOK', HoldSpending
  PROVE  Inductive'
<1>0. store \in StoreType /\ cur \in Reservations /\ pc = "hold"
  BY DEF HoldSpending, Step, Inductive, TypeOK
<1>1. /\ UNCHANGED <<guard, saved, restores, minted, sent, charge, arm, zeros, credits>>
      /\ UNCHANGED <<cur, reply>> /\ pc' = "file"
  BY DEF HoldSpending, Step, provider, operator
<1>2. /\ store'.rows = [store.rows EXCEPT ![cur] = 1]
      /\ store'.held = IF OutcomeRetained(store, cur)
                       THEN store.held ELSE store.held \cup {cur}
      /\ store'.stamped = store.stamped
      /\ store'.settled = store.settled
      /\ store'.corrected = store.corrected
      /\ store'.witness = store.witness
      /\ store'.started = store.started
      /\ store'.completed = store.completed
      /\ store'.response = store.response
  BY <1>0, HoldWrites
<1>3. /\ store'.rows[cur] = 1
      /\ \A r \in Reservations : r # cur => store'.rows[r] = store.rows[r]
  BY <1>0, <1>2 DEF StoreType
<1>4. cur \in guard \ store.witness /\ cur \in minted
  BY <1>0 DEF Inductive, Reconciled, World
<1>5. RowsStand(store)'
  BY <1>0, <1>1, <1>2, <1>3, <1>4 DEF Inductive, StoreSound, RowsStand, StoreType
<1>6. AmountsStand(store)' /\ SentIsKnown(store)'
  BY <1>1, <1>2 DEF Inductive, StoreSound, AmountsStand, SentIsKnown
<1>7. store'.started[CallOf(cur)] = cur \/ cur \in store'.held
  BY <1>2 DEF OutcomeRetained, Inductive, StoreSound, AmountsStand, RowsStand
<1>8. Ahead' /\ Hand' /\ HandFits'
  BY <1>1 DEF Ahead, Hand, HandFits, Buying, Arms, Unsent
<1>9. Reconciled'
  BY <1>1, <1>2, <1>3, <1>4, <1>7 DEF Reconciled
<1>10. Corrections'
  BY <1>1, <1>2, <1>3 DEF Inductive, Corrections, TypeOK, Priced
<1> QED
  BY <1>1, <1>5, <1>6, <1>8, <1>9, <1>10, WriteKeeps DEF StoreSound

LEMMA ImportKeeps ==
  ASSUME Inductive, TypeOK', ImportWitness
  PROVE  Inductive'
<1>0. store \in StoreType /\ cur \in Reservations /\ pc = "import"
  BY DEF ImportWitness, Step, Inductive, TypeOK
<1>1. /\ UNCHANGED <<guard, saved, restores, minted, sent, charge, arm, zeros, credits>>
      /\ pc' = "reconcile"
  BY DEF ImportWitness, Step, provider, operator
<1>2. /\ store'.witness = store.witness \cup {cur}
      /\ store'.rows = store.rows
      /\ store'.stamped = store.stamped
      /\ store'.settled = store.settled
      /\ store'.corrected = store.corrected
      /\ store'.started = store.started
      /\ store'.completed = store.completed
      /\ store'.response = store.response
      /\ store'.held = store.held
  BY <1>0 DEF ImportWitness, StoreType
<1>3. /\ store.rows[cur] = 1
      /\ store.started[CallOf(cur)] = cur \/ cur \in store.held
  BY <1>0 DEF Inductive, Reconciled
<1>4. StoreSound(store)'
  BY <1>1, <1>2, <1>3
     DEF Inductive, StoreSound, RowsStand, AmountsStand, SentIsKnown
<1>5. Ahead' /\ Hand' /\ HandFits' /\ Reconciled' /\ Corrections'
  BY <1>1, <1>2
     DEF Inductive, Ahead, Hand, HandFits, Reconciled, Corrections, Buying, Arms, Unsent
<1> QED
  BY <1>1, <1>4, <1>5, WriteKeeps

-----------------------------------------------------------------------------
(* What the ledger counts, and what was really asked.                      *)

LEMMA CostsAre ==
  ASSUME NEW s \in StoreType
  PROVE  \A r \in Reservations : Cost(s, r) \in Nat
<1> SUFFICES ASSUME NEW r \in Reservations PROVE Cost(s, r) \in Nat
  OBVIOUS
<1>1. s.settled[r] # None => Paid(s, r) \in Nat
  BY MarksAreNotAmounts DEF Paid, StoreType, Amounts
<1>2. s.rows[r] * EstimateOf[CallOf(r)] \in Nat
  <2>1. s.rows[r] \in {0, 1} /\ EstimateOf[CallOf(r)] \in Nat
    BY ReservationsAre DEF StoreType
  <2> QED
    BY <2>1
<1> QED
  BY <1>1, <1>2 DEF Cost

LEMMA UsedIs ==
  ASSUME NEW s \in StoreType, NEW R \in SUBSET Reservations
  PROVE  /\ [r \in R |-> Cost(s, r)] \in [R -> Nat]
         /\ IsFiniteSet(R)
         /\ Used(s, R) \in Nat
<1>1. [r \in R |-> Cost(s, r)] \in [R -> Nat]
  BY CostsAre
<1>2. IsFiniteSet(R)
  BY ReservationsAreFinite, FS_Subset
<1> QED
  BY <1>1, <1>2, UnitsAreFinite DEF Used

LEMMA ExposedIs ==
  ASSUME TypeOK, World
  PROVE  \A r \in Reservations : Exposed(r) \in 1 .. EstimateOf[CallOf(r)]
BY ReservationsAre DEF TypeOK, World, Exposed, Amounts

LEMMA AtRiskIs ==
  ASSUME TypeOK, World, NEW p
  PROVE  /\ [r \in sent \cap OfProject(p) |-> Exposed(r)]
              \in [sent \cap OfProject(p) -> Nat]
         /\ IsFiniteSet(sent \cap OfProject(p))
         /\ AtRisk(p) \in Nat
<1> DEFINE R == sent \cap OfProject(p)
<1>1. R \in SUBSET Reservations
  BY DEF OfProject
<1>2. [r \in R |-> Exposed(r)] \in [R -> Nat]
  BY <1>1, ExposedIs, ReservationsAre
<1>3. IsFiniteSet(R)
  BY <1>1, ReservationsAreFinite, FS_Subset
<1> QED
  BY <1>2, <1>3, UnitsAreFinite DEF AtRisk

\* Once every guard file has its row, what was sent and is not held is a row
\* at its estimate, or at what was charged.
LEMMA SentIsCounted ==
  ASSUME Inductive, guard \subseteq store.witness, NEW r \in sent,
         SpendingClear(store, ProjectOf[CallOf(r)])
  PROVE  /\ store.rows[r] = 1
         /\ store.started[CallOf(r)] = r
         /\ \/ store.settled[r] = None
            \/ Paid(store, r) = charge[r] /\ charge[r] # None
            \/ Uncorrected(r)
<1>1. r \in Reservations /\ r \in store.witness /\ store \in StoreType
  BY DEF Inductive, TypeOK, World
<1>2. r \notin store.held
  BY <1>1 DEF SpendingClear, OfProject
<1>3. store.rows[r] = 1 /\ store.started[CallOf(r)] = r
  BY <1>1, <1>2 DEF Inductive, StoreSound, RowsStand, SentIsKnown
<1>4. CASE store.settled[r] = None
  BY <1>3, <1>4
<1>5. CASE store.settled[r] # None
  <2>1. \/ store.settled[r] = charge[r]
        \/ store.settled[r] = 0 /\ r \in OldReservations
    BY <1>1, <1>5 DEF Inductive, StoreSound, AmountsStand
  <2>2. \/ store.corrected[r] = None
        \/ store.corrected[r] = charge[r]
    BY <1>1 DEF Inductive, StoreSound, AmountsStand
  <2>3. charge[r] # None => charge[r] \in Nat /\ charge[r] > 0
    BY <1>1, ReservationsAre DEF Inductive, World
  <2>4. CASE store.settled[r] = charge[r]
    BY <1>3, <1>5, <2>2, <2>3, <2>4 DEF Paid
  <2>5. CASE store.settled[r] = 0 /\ r \in OldReservations
    <3>1. CASE store.corrected[r] = None
      BY <1>3, <2>5, <3>1, OldReservationsAre DEF Uncorrected
    <3>2. CASE store.corrected[r] # None
      BY <1>3, <2>2, <2>3, <2>5, <3>2 DEF Paid
    <3> QED
      BY <3>1, <3>2
  <2> QED
    BY <2>1, <2>4, <2>5
<1> QED
  BY <1>4, <1>5

\* So a project that may buy has spent at least what it has at risk.
LEMMA RiskIsCounted ==
  ASSUME Inductive, guard \subseteq store.witness, Understated = {},
         NEW p \in Projects, SpendingClear(store, p)
  PROVE  AtRisk(p) <= Used(store, OfProject(p))
<1> DEFINE S == sent \cap OfProject(p)
           T == OfProject(p)
           f == [r \in S |-> Exposed(r)]
           g == [r \in T |-> Cost(store, r)]
<1>0. store \in StoreType /\ TypeOK /\ World
  BY DEF Inductive, TypeOK
<1>1. T \in SUBSET Reservations /\ S \subseteq T
  BY DEF OfProject
<1>2. f \in [S -> Nat] /\ g \in [T -> Nat] /\ IsFiniteSet(T)
  BY <1>0, <1>1, AtRiskIs, UsedIs
<1>3. \A r \in S : Exposed(r) <= Cost(store, r)
  <2> SUFFICES ASSUME NEW r \in S PROVE Exposed(r) <= Cost(store, r)
    OBVIOUS
  <2>1. r \in Reservations /\ r \in sent /\ ProjectOf[CallOf(r)] = p
    BY DEF OfProject
  <2>2. /\ store.rows[r] = 1
        /\ \/ store.settled[r] = None
           \/ Paid(store, r) = charge[r] /\ charge[r] # None
    BY <2>1, SentIsCounted DEF Uncorrected
  <2>3. Exposed(r) \in 1 .. EstimateOf[CallOf(r)] /\ EstimateOf[CallOf(r)] \in Nat
    BY <1>0, <2>1, ExposedIs, ReservationsAre
  <2>4. CASE store.settled[r] = None
    BY <2>2, <2>3, <2>4 DEF Cost
  <2>5. CASE store.settled[r] # None
    BY <2>2, <2>3, <2>5 DEF Cost, Exposed
  <2> QED
    BY <2>4, <2>5
<1>4. \A r \in S : f[r] <= g[r]
  BY <1>1, <1>3
<1> HIDE DEF S, T, f, g
<1>5. Total(f) <= Total(g)
  BY <1>1, <1>2, <1>4, TotalGrows
<1> QED
  BY <1>5 DEF f, g, S, T, AtRisk, Used

-----------------------------------------------------------------------------
(* A reservation, its request, its charge, and a restore.                  *)

\* Nothing was ever sent for a call that may be reserved.
LEMMA UnaskedIsUnsent ==
  ASSUME Inductive, pc \in Arms, NEW c \in Calls, ProjectOf[c] = store.project,
         Unasked(c), SpendingClear(store, store.project)
  PROVE  \A r \in sent : CallOf(r) # c
<1> SUFFICES ASSUME NEW r \in sent, CallOf(r) = c PROVE FALSE
  OBVIOUS
<1>1. guard \subseteq store.witness
  BY DEF Inductive, Ahead
<1>2. store.started[c] = r
  BY <1>1, SentIsCounted
<1>3. r # None
  BY ReservationsAre DEF Inductive, TypeOK
<1> QED
  BY <1>2, <1>3 DEF Unasked

LEMMA ReserveKeeps ==
  ASSUME Inductive, TypeOK', NEW c \in Calls, Reserve(c)
  PROVE  Inductive'
<1>0. store \in StoreType /\ RowsStand(store)
  BY DEF Inductive, TypeOK, StoreSound
<1>1. /\ UNCHANGED <<guard, saved, restores, sent, charge, arm, reply, zeros, credits>>
      /\ pc \in Arms /\ pc' = "row"
      /\ ProjectOf[c] = store.project
      /\ Unasked(c) /\ SpendingClear(store, store.project) /\ Fits(store, c)
  BY DEF Reserve, provider, operator
<1>2. PICK r \in Fresh(c) :
         /\ r \in Reservations \ minted /\ CallOf(r) = c
         /\ store.rows[r] = 0 /\ store.settled[r] = None
         /\ cur' = r /\ minted' = minted \cup {r}
         /\ store'.rows = [store.rows EXCEPT ![r] = 1]
         /\ store'.stamped = store.stamped \cup {r}
         /\ store'.settled = store.settled
         /\ store'.corrected = store.corrected
         /\ store'.witness = store.witness
         /\ store'.started = store.started
         /\ store'.completed = store.completed
         /\ store'.response = store.response
         /\ store'.held = store.held
  BY <1>0, ReserveWrites
<1>3. /\ store'.rows[r] = 1
      /\ \A x \in Reservations : x # r => store'.rows[x] = store.rows[x]
  BY <1>0, <1>2 DEF StoreType
<1>4. RowsStand(store)'
  BY <1>0, <1>2, <1>3 DEF RowsStand, StoreType
<1>5. AmountsStand(store)' /\ SentIsKnown(store)'
  BY <1>1, <1>2 DEF Inductive, StoreSound, AmountsStand, SentIsKnown
<1>6. Ahead' /\ Reconciled'
  BY <1>1, <1>2 DEF Inductive, Ahead, Reconciled
<1>7. Corrections'
  BY <1>1, <1>2, <1>3 DEF Inductive, Corrections, TypeOK, Priced
<1>8. Hand'
  <2>1. \A x \in sent : CallOf(x) # c
    BY <1>1, UnaskedIsUnsent
  <2>2. saved # None => r \notin saved.witness
    BY <1>2 DEF Inductive, TypeOK, StoreSound, RowsStand, StoreType
  <2>3. store.started[c] = None /\ store.completed[c] = None
    BY <1>1 DEF Unasked
  <2> QED
    BY <1>1, <1>2, <1>3, <2>1, <2>2, <2>3 DEF Hand, Unsent
<1>9. HandFits'
  <2>1. CASE Understated # {}
    BY <2>1 DEF HandFits
  <2>2. CASE Understated = {}
    <3> DEFINE p == ProjectOf[c]
    <3>1. p \in Projects /\ EstimateOf[c] \in Nat
      BY CallsAreDescribed
    <3>2. guard \subseteq store.witness
      BY <1>1 DEF Inductive, Ahead
    <3>3. AtRisk(p) <= Used(store, OfProject(p))
      BY <1>1, <2>2, <3>1, <3>2, RiskIsCounted
    <3>4. Used(store, OfProject(p)) + EstimateOf[c] <= Ceiling[p]
      BY <1>1 DEF Fits
    <3>5. AtRisk(p) \in Nat /\ Used(store, OfProject(p)) \in Nat
      BY <1>0, AtRiskIs, UsedIs DEF Inductive, OfProject
    <3>6. AtRisk(p) + EstimateOf[c] <= Ceiling[p]
      BY <3>1, <3>3, <3>4, <3>5, CeilingsAreAmounts
    <3>7. \A q : AtRisk(q)' = AtRisk(q)
      BY <1>1 DEF AtRisk, Exposed
    <3> QED
      BY <1>2, <3>6, <3>7 DEF HandFits
  <2> QED
    BY <2>1, <2>2
<1> QED
  BY <1>1, <1>2, <1>4, <1>5, <1>6, <1>7, <1>8, <1>9, WriteKeeps DEF StoreSound

LEMMA GuardKeeps ==
  ASSUME Inductive, TypeOK', WitnessGuard
  PROVE  Inductive'
<1>1. /\ UNCHANGED <<store, saved, restores, minted, sent, charge, arm, cur, reply, zeros, credits>>
      /\ pc = "guard" /\ pc' = "start" /\ guard' = guard \cup {cur}
  BY DEF WitnessGuard, Step, provider, operator
<1>2. cur \in minted /\ cur \in store.witness
  BY <1>1 DEF Inductive, Hand, Buying
<1>3. StoreSound(store)' /\ (saved # None => StoreSound(saved))'
  BY <1>1, StoreKept, SavedKept
<1>4. World'
  BY <1>1, <1>2 DEF Inductive, World
<1>5. Ahead' /\ Hand' /\ Reconciled' /\ Corrections'
  BY <1>1, <1>2
     DEF Inductive, Ahead, Hand, Reconciled, Corrections, Buying, Arms, Unsent
<1>6. HandFits'
  BY <1>1, FitsKept DEF Inductive, Unsent
<1> QED
  BY <1>3, <1>4, <1>5, <1>6 DEF Inductive

LEMMA SendKeeps ==
  ASSUME Inductive, TypeOK', Send
  PROVE  Inductive'
<1>1. /\ UNCHANGED <<store, guard, saved, restores, minted, charge, arm, cur, reply, zeros, credits>>
      /\ pc = "send" /\ pc' = "wait" /\ sent' = sent \cup {cur}
  BY DEF Send, Step, operator
<1>2. /\ cur \in guard
      /\ store.started[CallOf(cur)] = cur
      /\ \A r \in sent : CallOf(r) # CallOf(cur)
      /\ saved # None => cur \notin saved.witness
  BY <1>1 DEF Inductive, Hand, Buying, Unsent
<1>3. StoreSound(store)'
  BY <1>1, <1>2
     DEF Inductive, StoreSound, RowsStand, AmountsStand, SentIsKnown
<1>4. (saved # None => StoreSound(saved))'
  BY <1>1, <1>2
     DEF Inductive, StoreSound, RowsStand, AmountsStand, SentIsKnown
<1>5. World'
  BY <1>1, <1>2 DEF Inductive, World
<1>6. Ahead' /\ Hand' /\ HandFits' /\ Reconciled' /\ Corrections'
  BY <1>1, <1>2
     DEF Inductive, Ahead, Hand, HandFits, Reconciled, Corrections, Buying, Arms, Unsent
<1> QED
  BY <1>3, <1>4, <1>5, <1>6 DEF Inductive

\* A charge only fixes what was unknown, and lowers what is at risk.
LEMMA ChargeKeeps ==
  ASSUME Inductive, TypeOK', NEW r \in Reservations, Charge(r)
  PROVE  Inductive'
<1>0. TypeOK /\ World /\ TypeOK'
  BY DEF Inductive
<1>1. /\ UNCHANGED <<store, guard, saved, restores, minted, sent, pc, arm, cur,
                     reply, zeros, credits>>
      /\ r \in sent /\ charge[r] = None
  BY DEF Charge, worker, operator
<1>2. /\ charge'[r] \in 1 .. EstimateOf[CallOf(r)]
      /\ \A x \in Reservations : x # r => charge'[x] = charge[x]
  BY <1>0 DEF Charge, TypeOK
<1>3. charge'[r] \in Amounts /\ charge'[r] # None /\ None \notin Amounts
  BY <1>2, ReservationsAre DEF Amounts
<1>4. RowsStand(store)' /\ (saved # None => RowsStand(saved))'
  BY <1>1 DEF Inductive, StoreSound, RowsStand
<1>5. AmountsStand(store)'
  <2>1. \A c \in Calls : store.started[c] # None => store.started[c] \in Reservations
    BY <1>0 DEF TypeOK, StoreType
  <2> QED
    BY <1>0, <1>1, <1>2, <1>3, <2>1
       DEF Inductive, StoreSound, AmountsStand, TypeOK, StoreType
<1>6. (saved # None => AmountsStand(saved))'
  <2>1. saved # None =>
          \A c \in Calls : saved.started[c] # None => saved.started[c] \in Reservations
    BY <1>0 DEF TypeOK, StoreType
  <2> QED
    BY <1>0, <1>1, <1>2, <1>3, <2>1
       DEF Inductive, StoreSound, AmountsStand, TypeOK, StoreType
<1>7. SentIsKnown(store)' /\ (saved # None => SentIsKnown(saved))'
  BY <1>1 DEF Inductive, StoreSound, SentIsKnown
<1>8. World'
  BY <1>0, <1>1, <1>2 DEF World
<1>9. Ahead' /\ Reconciled'
  BY <1>1 DEF Inductive, Ahead, Reconciled
<1>10. Hand'
  <2>1. pc \in {"complete", "respond", "settle"} => cur # r /\ cur \in Reservations
    BY <1>0, <1>1 DEF Inductive, Hand, Buying, TypeOK
  <2>2. pc \in {"complete", "respond", "settle"} => charge'[cur] = charge[cur]
    BY <1>2, <2>1
  <2> QED
    BY <1>1, <2>2 DEF Inductive, Hand
<1>11. Corrections'
  <2>1. \A m \in zeros \cup credits : m[1] \in Reservations /\ m[2] \in Amounts
    BY <1>0 DEF TypeOK, Priced
  <2> QED
    BY <1>1, <1>2, <1>3, <2>1 DEF Inductive, Corrections
<1>12. HandFits'
  <2> SUFFICES ASSUME Understated = {}, pc \in Unsent
               PROVE  AtRisk(ProjectOf[CallOf(cur)])' + EstimateOf[CallOf(cur)]
                        <= Ceiling[ProjectOf[CallOf(cur)]]
    BY <1>1 DEF HandFits
  <2> DEFINE p == ProjectOf[CallOf(cur)]
             S == sent \cap OfProject(p)
             f == [x \in S |-> Exposed(x)]
             g == [x \in S |-> Exposed(x)']
  <2>1. /\ f \in [S -> Nat] /\ IsFiniteSet(S) /\ AtRisk(p) \in Nat
    BY <1>0, AtRiskIs
  <2>2. \A x \in S : Exposed(x)' \in Nat /\ Exposed(x)' <= Exposed(x)
    <3> SUFFICES ASSUME NEW x \in S PROVE Exposed(x)' \in Nat /\ Exposed(x)' <= Exposed(x)
      OBVIOUS
    <3>1. x \in Reservations
      BY DEF OfProject
    <3>2. Exposed(x) \in 1 .. EstimateOf[CallOf(x)] /\ EstimateOf[CallOf(x)] \in Nat
      BY <1>0, <3>1, ExposedIs, ReservationsAre
    <3>3. CASE x = r
      BY <1>1, <1>2, <1>3, <3>2, <3>3 DEF Exposed
    <3>4. CASE x # r
      BY <1>2, <3>1, <3>2, <3>4 DEF Exposed
    <3> QED
      BY <3>3, <3>4
  <2>3. g \in [S -> Nat] /\ \A x \in S : g[x] <= f[x]
    BY <2>2
  <2>4. AtRisk(p)' = Total(g)
    BY <1>1 DEF AtRisk
  <2>5. AtRisk(p) = Total(f)
    BY DEF AtRisk
  <2>6. AtRisk(p) + EstimateOf[CallOf(cur)] <= Ceiling[p]
    BY DEF Inductive, HandFits
  <2>7. EstimateOf[CallOf(cur)] \in Nat /\ Ceiling[p] \in Nat
    <3>1. cur \in Reservations
      BY <1>0 DEF TypeOK, Unsent, Buying
    <3> QED
      BY <3>1, ReservationsAre, CeilingsAreAmounts
  <2> HIDE DEF S, f, g
  <2>8. Total(g) <= Total(f)
    BY <2>1, <2>3, TotalGrows
  <2>9. Total(g) \in Nat
    BY <2>1, <2>3, UnitsAreFinite
  <2> QED
    BY <2>1, <2>4, <2>5, <2>6, <2>7, <2>8, <2>9
<1> QED
  BY <1>4, <1>5, <1>6, <1>7, <1>8, <1>9, <1>10, <1>11, <1>12
     DEF Inductive, StoreSound

LEMMA BackupsKeep ==
  ASSUME Inductive, TypeOK', Backup \/ Restore
  PROVE  Inductive'
<1>1. /\ UNCHANGED <<guard, minted, sent, charge, pc, arm, cur, reply, zeros, credits>>
      /\ pc = "idle"
      /\ \/ saved' = store /\ store' = store
         \/ /\ saved' = None /\ store' = saved /\ saved # None
            /\ zeros = {} /\ credits = {}
  BY DEF Backup, Restore, Free, provider, worker, operator
<1>2. StoreSound(store)'
  BY <1>1 DEF Inductive, StoreSound, RowsStand, AmountsStand, SentIsKnown
<1>3. (saved # None => StoreSound(saved))'
  BY <1>1 DEF Inductive, StoreSound, RowsStand, AmountsStand, SentIsKnown
<1>4. World'
  BY <1>1, WorldKept DEF Inductive
<1>5. Ahead' /\ Hand' /\ HandFits' /\ Reconciled' /\ Corrections'
  BY <1>1
     DEF Inductive, Ahead, Hand, HandFits, Reconciled, Corrections, Buying, Arms, Unsent
<1> QED
  BY <1>2, <1>3, <1>4, <1>5 DEF Inductive

-----------------------------------------------------------------------------
\* No step breaks the invariant.
THEOREM InductiveHolds == Spec => []Inductive
<1>1. Init => Inductive
  BY InitInductive
<1>2. Inductive /\ [Next]_vars => Inductive'
  <2> SUFFICES ASSUME Inductive, [Next]_vars PROVE Inductive'
    OBVIOUS
  <2>1. TypeOK'
    BY StepTypes
  <2>2. CASE BuyStep
    BY <2>1, <2>2, ReplayKeeps, ReserveKeeps, WitnessRowKeeps, OpsKeep, GuardKeeps,
       StartKeeps, SendKeeps, QuietSteps, CompleteKeeps, RespondKeeps, SettleCallKeeps
       DEF BuyStep
  <2>3. CASE PollStep
    BY <2>1, <2>3, RebindKeeps, QuietSteps DEF PollStep
  <2>4. CASE CostStep
    BY <2>1, <2>4, CostLists, ZeroKeeps, CreditsKeep DEF CostStep
  <2>5. CASE Backup \/ Restore
    BY <2>1, <2>5, BackupsKeep
  <2>6. CASE ReconcileStep
    BY <2>1, <2>6, QuietSteps, HoldKeeps, OpsKeep, ImportKeeps DEF ReconcileStep
  <2>7. CASE \E r \in Reservations : Charge(r)
    BY <2>1, <2>7, ChargeKeeps
  <2>8. CASE UNCHANGED vars
    <3>1. UNCHANGED <<store, guard, saved, restores, minted, provider, worker, operator>>
      BY <2>8 DEF vars
    <3> QED
      BY <2>1, <3>1, QuietKeeps
         DEF Inductive, Ahead, Hand, Reconciled, Corrections, worker, provider, operator
  <2> QED
    BY <2>2, <2>3, <2>4, <2>5, <2>6, <2>7, <2>8 DEF Next
<1> QED
  BY <1>1, <1>2, PTL DEF Spec

-----------------------------------------------------------------------------
(* While nothing is restored.                                              *)

\* Rows that only get cheaper still fit.
LEMMA CheaperStillFits ==
  ASSUME TypeOK, TypeOK', Unrestored, restores = 0, restores' = 0,
         guard' \subseteq store'.witness,
         store'.rows = store.rows, store'.stamped = store.stamped,
         \A r \in store.stamped \ OldReservations : Cost(store, r)' <= Cost(store, r)
  PROVE  Unrestored'
<1>1. store \in StoreType /\ store' \in StoreType
  BY DEF TypeOK
<1>2. ASSUME NEW R \in SUBSET store.stamped, R \cap OldReservations = {}
      PROVE  /\ Used(store, R)' \in Nat /\ Used(store, R) \in Nat
             /\ Used(store, R)' <= Used(store, R)
  <2> DEFINE f == [r \in R |-> Cost(store', r)]
             g == [r \in R |-> Cost(store, r)]
  <2>0. R \in SUBSET Reservations
    BY <1>1 DEF StoreType
  <2>1. /\ f \in [R -> Nat] /\ g \in [R -> Nat] /\ IsFiniteSet(R)
        /\ Used(store', R) \in Nat /\ Used(store, R) \in Nat
    BY <1>1, <2>0, UsedIs
  <2>2. \A r \in R : f[r] <= g[r]
    BY <1>2
  <2> HIDE DEF f, g
  <2>3. Total(f) <= Total(g)
    BY <2>1, <2>2, TotalGrows
  <2> QED
    BY <2>1, <2>3 DEF f, g, Used
<1>3. store.stamped \cap OfNews \cap OldReservations = {}
  BY OldReservationsAre
<1>4. /\ Used(store, store.stamped \ OldReservations)'
            <= Used(store, store.stamped \ OldReservations)
      /\ Used(store, store.stamped \ OldReservations)' \in Nat
      /\ Used(store, store.stamped \ OldReservations) \in Nat
  BY <1>2
<1>5. /\ Used(store, store.stamped \cap OfNews)' <= Used(store, store.stamped \cap OfNews)
      /\ Used(store, store.stamped \cap OfNews)' \in Nat
      /\ Used(store, store.stamped \cap OfNews) \in Nat
  BY <1>2, <1>3
<1> QED
  BY <1>4, <1>5, CeilingsAreAmounts DEF Unrestored

\* A settlement at what was charged never costs more than the estimate.
LEMMA SettledIsCheaper ==
  ASSUME Inductive, NEW r \in Reservations, NEW a \in Amounts,
         store.rows[r] = 1, a = charge[r], store' = Settle(store, r, a)
  PROVE  /\ store'.rows = store.rows
         /\ store'.stamped = store.stamped
         /\ store'.witness = store.witness
         /\ \A x \in Reservations : Cost(store, x)' <= Cost(store, x)
<1>0. store \in StoreType
  BY DEF Inductive, TypeOK
<1>1. /\ store'.settled = IF store.settled[r] = None
                          THEN [store.settled EXCEPT ![r] = a] ELSE store.settled
      /\ store'.rows = store.rows
      /\ store'.stamped = store.stamped
      /\ store'.corrected = store.corrected
      /\ store'.witness = store.witness
  BY <1>0, SettleWrites
<1>2. \A x \in Reservations : Cost(store, x) \in Nat
  BY <1>0, CostsAre
<1>3. \A x \in Reservations :
         store'.settled[x] = store.settled[x] => Cost(store, x)' = Cost(store, x)
  BY <1>1 DEF Cost, Paid
<1>4. \A x \in Reservations :
         ~(x = r /\ store.settled[r] = None) => store'.settled[x] = store.settled[x]
  BY <1>0, <1>1 DEF StoreType
<1>5. CASE store.settled[r] = None
  <2>1. store'.settled[r] = a /\ a \in Nat /\ a # None
    BY <1>0, <1>1, <1>5, MarksAreNotAmounts DEF StoreType, Amounts
  <2>2. a <= EstimateOf[CallOf(r)] /\ EstimateOf[CallOf(r)] \in Nat
    BY <2>1, ReservationsAre DEF Inductive, World
  <2>3. store.corrected[r] = None \/ store.corrected[r] = a
    BY DEF Inductive, StoreSound, AmountsStand
  <2>4. Cost(store, r)' = a
    BY <1>1, <2>1, <2>3 DEF Cost, Paid
  <2>5. Cost(store, r) = EstimateOf[CallOf(r)]
    BY <1>5, <2>2 DEF Cost
  <2> QED
    BY <1>1, <1>2, <1>3, <1>4, <2>2, <2>4, <2>5
<1>6. CASE store.settled[r] # None
  BY <1>1, <1>2, <1>3, <1>4, <1>6
<1> QED
  BY <1>5, <1>6

\* A correction touches only what an earlier version settled at zero.
LEMMA CorrectedIsOld ==
  ASSUME Inductive, NEW m \in zeros, CorrectZero(m)
  PROVE  /\ store'.rows = store.rows
         /\ store'.stamped = store.stamped
         /\ store'.witness = store.witness
         /\ \A x \in Reservations \ OldReservations : Cost(store, x)' = Cost(store, x)
<1>1. /\ store \in StoreType /\ m[1] \in Reservations /\ m[2] \in Amounts
      /\ m[2] = charge[m[1]] /\ store.settled[m[1]] = 0
  BY DEF Inductive, TypeOK, Priced, Corrections
<1>2. m[1] \in OldReservations
  <2>1. charge[m[1]] # None
    BY <1>1, ReservationsAre
  <2>2. charge[m[1]] # 0
    BY <1>1, <2>1, ReservationsAre DEF Inductive, World
  <2> QED
    BY <1>1, <2>2, MarksAreNotAmounts DEF Inductive, StoreSound, AmountsStand
<1>3. /\ store'.rows = store.rows
      /\ store'.stamped = store.stamped
      /\ store'.settled = store.settled
      /\ store'.witness = store.witness
      /\ \A x \in Reservations : x # m[1] => store'.corrected[x] = store.corrected[x]
  BY <1>1 DEF CorrectZero, StoreType
<1> QED
  BY <1>2, <1>3 DEF Cost, Paid

\* The other steps leave every amount as it is.
LEMMA AmountsKept ==
  ASSUME Inductive, Unrestored, restores = 0, restores' = 0, [Next]_vars,
         ~(\E c \in Calls : Replay(c) \/ Reserve(c)), ~SettleCall,
         ~(\E m \in zeros : CorrectZero(m)), ~(\E m \in credits : CorrectCredits(m))
  PROVE  /\ store'.rows = store.rows
         /\ store'.stamped = store.stamped
         /\ store'.settled = store.settled
         /\ store'.corrected = store.corrected
         /\ guard' \subseteq store'.witness
<1>1. guard \subseteq store.witness /\ store \in StoreType
  BY DEF Unrestored, Inductive, TypeOK
<1>2. pc \notin {"hold", "file", "import"}
  BY <1>1 DEF Inductive, Reconciled
<1>3. ~HoldSpending /\ ~RestoreFile /\ ~ImportWitness
  BY <1>2 DEF HoldSpending, RestoreFile, ImportWitness, Step
<1>4. ~Restore
  BY DEF Restore
<1>5. CASE WitnessRow
  BY <1>1, <1>5 DEF WitnessRow, StoreType
<1>6. CASE WitnessOps
  BY <1>1, <1>6 DEF WitnessOps, StoreType
<1>7. CASE WitnessGuard
  <2>1. cur \in store.witness
    BY <1>7 DEF WitnessGuard, Step, Inductive, Hand, Buying
  <2> QED
    BY <1>1, <1>7, <2>1 DEF WitnessGuard
<1>8. CASE Start
  BY <1>1, <1>8 DEF Start, StoreType
<1>9. CASE Complete
  BY <1>1, <1>9 DEF Complete, StoreType
<1>10. CASE Respond
  BY <1>1, <1>10 DEF Respond, StoreType
<1>11. CASE \E p \in Projects : Rebind(p)
  BY <1>1, <1>11 DEF Rebind, StoreType
<1>12. CASE UNCHANGED <<store, guard>>
  BY <1>1, <1>12
<1>13. CASE Send \/ Answer \/ NoAnswer
  BY <1>1, <1>13 DEF Send, Answer, NoAnswer
<1>14. CASE BeginPoll \/ BeginQuestion \/ BeginSide \/ EndQuestion \/ EndPoll
            \/ Interrupt \/ Crash
  BY <1>1, <1>14
     DEF BeginPoll, BeginQuestion, BeginSide, EndQuestion, EndPoll, Interrupt, Crash
<1>15. CASE ReadZeros \/ ReadCredits \/ AbandonCosts \/ Backup
  BY <1>1, <1>15 DEF ReadZeros, ReadCredits, AbandonCosts, Backup
<1>16. CASE BeginReconcile \/ EndReconcile \/ \E r \in Reservations : TakeGuard(r)
  BY <1>1, <1>16 DEF BeginReconcile, EndReconcile, TakeGuard
<1>17. CASE \E r \in Reservations : Charge(r)
  BY <1>1, <1>17 DEF Charge
<1>18. CASE UNCHANGED vars
  BY <1>12, <1>18 DEF vars
<1> QED
  BY <1>3, <1>4, <1>5, <1>6, <1>7, <1>8, <1>9, <1>10, <1>11, <1>13, <1>14, <1>15,
     <1>16, <1>17, <1>18 DEF Next, BuyStep, PollStep, CostStep, ReconcileStep

\* A reservation is made only where its estimate still fits.
LEMMA ReserveStillFits ==
  ASSUME Inductive, Unrestored, restores = 0, NEW c \in Calls, Reserve(c)
  PROVE  Unrestored'
<1>0. store \in StoreType /\ RowsStand(store)
  BY DEF Inductive, TypeOK, StoreSound
<1>1. UNCHANGED <<guard, restores>> /\ Fits(store, c)
  BY DEF Reserve
<1>2. PICK r \in Fresh(c) :
         /\ r \in Reservations \ minted /\ CallOf(r) = c
         /\ store.rows[r] = 0 /\ store.settled[r] = None
         /\ store' \in StoreType
         /\ store'.rows = [store.rows EXCEPT ![r] = 1]
         /\ store'.stamped = store.stamped \cup {r}
         /\ store'.settled = store.settled
         /\ store'.corrected = store.corrected
         /\ store'.witness = store.witness
  BY <1>0, ReserveWrites
<1>3. /\ store'.rows[r] = 1
      /\ \A x \in Reservations : x # r => store'.rows[x] = store.rows[x]
  BY <1>0, <1>2 DEF StoreType
<1>4. r \notin store.stamped /\ r \notin OldReservations
  BY <1>0, <1>2 DEF RowsStand, Inductive, World
<1>5. /\ Cost(store', r) = EstimateOf[c] /\ EstimateOf[c] \in Nat
      /\ \A x \in Reservations : x # r => Cost(store', x) = Cost(store, x)
  <2>1. EstimateOf[c] \in Nat
    BY CallsAreDescribed
  <2> QED
    BY <1>2, <1>3, <2>1 DEF Cost, Paid
<1>6. ASSUME NEW R \in SUBSET store.stamped
      PROVE  /\ Used(store', R \cup {r}) = Used(store, R) + EstimateOf[c]
             /\ Used(store', R) = Used(store, R)
             /\ Used(store, R) \in Nat
  <2> DEFINE f == [x \in R |-> Cost(store, x)]
             g == [x \in R \cup {r} |-> Cost(store', x)]
             h == [x \in R |-> Cost(store', x)]
  <2>0. R \in SUBSET Reservations /\ R \cup {r} \in SUBSET Reservations /\ r \notin R
    BY <1>0, <1>2, <1>4 DEF StoreType
  <2>1. f \in [R -> Nat] /\ IsFiniteSet(R) /\ Used(store, R) \in Nat
    BY <1>0, <2>0, UsedIs
  <2>2. g \in [R \cup {r} -> Nat]
    BY <1>2, <2>0, UsedIs
  <2>3. \A x \in R : g[x] = f[x]
    BY <1>5, <2>0
  <2>4. g[r] = EstimateOf[c]
    BY <1>5
  <2>5. h = f
    BY <1>5, <2>0
  <2> HIDE DEF f, g, h
  <2>6. Total(g) = Total(f) + g[r]
    BY <2>0, <2>1, <2>2, <2>3, TotalWithOne
  <2> QED
    BY <2>1, <2>4, <2>5, <2>6 DEF f, g, h, Used
<1>7. Used(store', store'.stamped \ OldReservations) <= SeriesCeiling
  <2> DEFINE R == store.stamped \ OldReservations
  <2>1. store'.stamped \ OldReservations = R \cup {r}
    BY <1>2, <1>4
  <2>2. Used(store', R \cup {r}) = Used(store, R) + EstimateOf[c]
    BY <1>6
  <2>3. Used(store, R) <= Used(store, store.stamped)
    <3>1. R \in SUBSET Reservations /\ store.stamped \in SUBSET Reservations
      BY <1>0 DEF StoreType
    <3>2. /\ [x \in R |-> Cost(store, x)] \in [R -> Nat]
          /\ [x \in store.stamped |-> Cost(store, x)] \in [store.stamped -> Nat]
          /\ IsFiniteSet(store.stamped)
      BY <1>0, <3>1, UsedIs
    <3>3. Total([x \in R |-> Cost(store, x)])
            <= Total([x \in store.stamped |-> Cost(store, x)])
      <4> DEFINE f == [x \in R |-> Cost(store, x)]
                 g == [x \in store.stamped |-> Cost(store, x)]
      <4>1. f \in [R -> Nat] /\ g \in [store.stamped -> Nat]
        BY <3>2
      <4>2. \A x \in R : f[x] <= g[x]
        BY <3>1, <1>0, CostsAre
      <4> HIDE DEF f, g
      <4> QED
        BY <3>2, <4>1, <4>2, TotalGrows DEF f, g
    <3> QED
      BY <3>3 DEF Used
  <2>4. Used(store, store.stamped) + EstimateOf[c] <= SeriesCeiling
    BY <1>1 DEF Fits
  <2>5. Used(store, R) \in Nat /\ Used(store, store.stamped) \in Nat
    BY <1>6
  <2>6. Used(store', store'.stamped \ OldReservations)
          = Used(store, R) + EstimateOf[c]
    BY <2>1, <2>2, Zenon
  <2> HIDE DEF R
  <2>7. Used(store, R) + EstimateOf[c] <= SeriesCeiling
    BY <1>5, <2>3, <2>4, <2>5, CeilingsAreAmounts
  <2> QED
    BY <2>6, <2>7, Zenon
<1>8. Used(store', store'.stamped \cap OfNews) <= NewsCeiling
  <2> DEFINE R == store.stamped \cap OfNews
  <2>1. /\ Used(store', R \cup {r}) = Used(store, R) + EstimateOf[c]
        /\ Used(store', R) = Used(store, R)
    BY <1>6
  <2>2. CASE r \in OfNews
    <3>1. store'.stamped \cap OfNews = R \cup {r}
      BY <1>2, <2>2
    <3>2. Used(store, R) + EstimateOf[c] <= NewsCeiling
      BY <1>1, <1>2, <2>2 DEF Fits, OfNews
    <3> QED
      BY <2>1, <3>1, <3>2
  <2>3. CASE r \notin OfNews
    <3>1. store'.stamped \cap OfNews = R
      BY <1>2, <2>3
    <3> QED
      BY <2>1, <3>1 DEF Unrestored
  <2> QED
    BY <2>2, <2>3
<1>9. /\ guard' \subseteq store'.witness
      /\ \A x \in Reservations : store'.rows[x] # 0 => x \in store'.stamped
  BY <1>1, <1>2, <1>3 DEF Unrestored
<1> QED
  BY <1>7, <1>8, <1>9 DEF Unrestored, Used, Cost, Paid

LEMMA UnrestoredKeeps ==
  ASSUME Inductive, Inductive', Unrestored, [Next]_vars
  PROVE  Unrestored'
<1>0. /\ TypeOK /\ TypeOK'
      /\ store \in StoreType
      /\ store.stamped \ OldReservations \subseteq Reservations
  BY DEF Inductive, TypeOK, StoreType
<1>1. CASE restores' # 0
  BY <1>1 DEF Unrestored
<1>2. CASE restores' = 0 /\ restores # 0
  <2>1. ~(restores' = restores)
    BY <1>2
  <2>2. Restore
    BY <2>1 DEF Next, BuyStep, PollStep, CostStep, ReconcileStep, vars,
       Replay, Reserve, WitnessRow, WitnessOps, WitnessGuard, Start, Send, Answer,
       NoAnswer, Complete, Respond, SettleCall, Rebind, BeginPoll, BeginQuestion,
       BeginSide, EndQuestion, EndPoll, Interrupt, Crash, ReadZeros, ReadCredits,
       AbandonCosts, CorrectZero, CorrectCredits, Backup, BeginReconcile, TakeGuard, HoldSpending,
       RestoreFile, ImportWitness, EndReconcile, Charge
  <2> QED
    BY <1>0, <1>2, <2>2 DEF Restore, TypeOK
<1>3. CASE restores = 0 /\ restores' = 0
  <2>0. guard \subseteq store.witness
    BY <1>3 DEF Unrestored
  <2>1. CASE \E c \in Calls : Reserve(c)
    BY <1>3, <2>1, ReserveStillFits
  <2>2. ASSUME NEW r \in Reservations, NEW a \in Amounts,
               store.rows[r] = 1, a = charge[r], store' = Settle(store, r, a),
               guard' = guard
        PROVE  Unrestored'
    <3>1. /\ store'.rows = store.rows
          /\ store'.stamped = store.stamped
          /\ store'.witness = store.witness
          /\ \A x \in Reservations : Cost(store, x)' <= Cost(store, x)
      BY <2>2, SettledIsCheaper
    <3> QED
      BY <1>0, <1>3, <2>0, <2>2, <3>1, CheaperStillFits
  <2>3. ASSUME UNCHANGED <<store, guard>>
        PROVE  Unrestored'
    BY <1>3, <2>3 DEF Unrestored, Used, Cost, Paid
  <2>4. CASE \E c \in Calls : Replay(c)
    BY <2>2, <2>3, <2>4, ReplayWrites DEF Replay
  <2>5. CASE SettleCall
    <3>1. /\ cur \in Reservations /\ store.rows[cur] = 1
          /\ reply \in {charge[cur], Unpriced}
      BY <2>5 DEF SettleCall, Inductive, TypeOK, Hand, Buying
    <3> QED
      BY <2>2, <2>3, <2>5, <3>1, ReservationsAre DEF SettleCall
  <2>6. CASE \E m \in credits : CorrectCredits(m)
    <3>1. PICK m \in credits : CorrectCredits(m)
      BY <2>6
    <3>2. /\ m[1] \in Reservations /\ m[2] \in Amounts
          /\ store.rows[m[1]] = 1 /\ m[2] = charge[m[1]]
      BY DEF Inductive, TypeOK, Priced, Corrections
    <3> QED
      BY <2>2, <3>1, <3>2 DEF CorrectCredits
  <2>7. CASE \E m \in zeros : CorrectZero(m)
    <3>1. PICK m \in zeros : CorrectZero(m)
      BY <2>7
    <3>2. /\ store'.rows = store.rows
          /\ store'.stamped = store.stamped
          /\ store'.witness = store.witness
          /\ \A x \in Reservations \ OldReservations : Cost(store, x)' = Cost(store, x)
      BY <3>1, CorrectedIsOld
    <3>3. \A x \in store.stamped \ OldReservations : Cost(store, x)' <= Cost(store, x)
      BY <1>0, <3>2, CostsAre
    <3>4. guard' = guard
      BY <3>1 DEF CorrectZero
    <3> QED
      BY <1>0, <1>3, <2>0, <3>2, <3>3, <3>4, CheaperStillFits
  <2>8. CASE /\ ~(\E c \in Calls : Replay(c) \/ Reserve(c)) /\ ~SettleCall
             /\ ~(\E m \in zeros : CorrectZero(m))
             /\ ~(\E m \in credits : CorrectCredits(m))
    <3>1. /\ store'.rows = store.rows
          /\ store'.stamped = store.stamped
          /\ store'.settled = store.settled
          /\ store'.corrected = store.corrected
          /\ guard' \subseteq store'.witness
      BY <1>3, <2>8, AmountsKept
    <3>2. \A x \in Reservations : Cost(store, x)' = Cost(store, x)
      BY <3>1 DEF Cost, Paid
    <3>3. \A x \in store.stamped \ OldReservations : Cost(store, x)' <= Cost(store, x)
      BY <1>0, <3>2, CostsAre
    <3> QED
      BY <1>0, <1>3, <3>1, <3>3, CheaperStillFits
  <2> QED
    BY <2>1, <2>4, <2>5, <2>6, <2>7, <2>8
<1> QED
  BY <1>1, <1>2, <1>3

-----------------------------------------------------------------------------
(* What follows.                                                           *)

\* Every variable keeps its type (the journal rows and files of
\* tournament_state.py).
THEOREM TypeHolds == Spec => []TypeOK
<1>1. Inductive => TypeOK
  BY DEF Inductive
<1> QED
  BY <1>1, InductiveHolds, PTL

\* A paid request is never sent twice (priced.py, durable.py: "no repeat
\* purchase"), however often the ledger is restored.
THEOREM NoRepeatPurchaseHolds == Spec => []NoRepeatPurchase
<1>1. Inductive => NoRepeatPurchase
  BY DEF Inductive, World, NoRepeatPurchase
<1> QED
  BY <1>1, InductiveHolds, PTL

\* A project that may buy counts each of its requests exactly once
\* (spending, reconcile_restored, correct_costs).
THEOREM ChargesAreCountedHolds == Spec => []ChargesAreCounted
<1>1. Inductive => ChargesAreCounted
  <2> SUFFICES ASSUME Inductive, Whole, NEW r \in sent,
                      SpendingClear(store, ProjectOf[CallOf(r)])
               PROVE  /\ store.rows[r] = 1
                      /\ \/ store.settled[r] = None
                         \/ Paid(store, r) = charge[r]
                         \/ Uncorrected(r)
    BY DEF ChargesAreCounted
  <2>1. guard \subseteq store.witness
    BY DEF Whole
  <2> QED
    BY <2>1, SentIsCounted
<1> QED
  BY <1>1, InductiveHolds, PTL

\* No settlement and no correction is rewritten, whoever writes first
\* (settle_microusd, correct_costs).
THEOREM SettlementStandsHolds == Spec => SettlementStands
<1> DEFINE Stands == restores' = restores =>
             \A r \in Reservations :
                /\ store.settled[r] # None => store'.settled[r] = store.settled[r]
                /\ store.corrected[r] # None => store'.corrected[r] = store.corrected[r]
<1>1. Inductive /\ [Next]_vars => Stands
  <2> SUFFICES ASSUME Inductive, [Next]_vars, restores' = restores,
                      NEW r \in Reservations
               PROVE  /\ store.settled[r] # None => store'.settled[r] = store.settled[r]
                      /\ store.corrected[r] # None => store'.corrected[r] = store.corrected[r]
    OBVIOUS
  <2>0. store \in StoreType /\ TypeOK
    BY DEF Inductive, TypeOK
  <2>1. CASE \E c \in Calls : Replay(c)
    <3>1. \/ store' = store
          \/ \E x \in Reservations, a \in Amounts : store' = Settle(store, x, a)
      BY <2>1, ReplayWrites
    <3> QED
      BY <2>0, <3>1 DEF Settle, StoreType
  <2>2. CASE SettleCall
    BY <2>0, <2>2 DEF SettleCall, Settle, StoreType, TypeOK, Buying
  <2>3. CASE \E m \in credits : CorrectCredits(m)
    BY <2>0, <2>3 DEF CorrectCredits, Settle, StoreType, TypeOK, Priced
  <2>4. CASE \E m \in zeros : CorrectZero(m)
    BY <2>0, <2>4 DEF CorrectZero, StoreType, TypeOK, Priced
  <2>5. CASE \E c \in Calls : Reserve(c)
    BY <2>0, <2>5, ReserveWrites DEF Inductive, StoreSound
  <2>6. CASE HoldSpending
    <3>1. cur \in Reservations
      BY <2>0, <2>6 DEF HoldSpending, Step, TypeOK
    <3> QED
      BY <2>0, <2>6, <3>1, HoldWrites
  <2>7. CASE Restore
    BY <2>0, <2>7 DEF Restore, TypeOK
  <2>8. CASE \/ WitnessRow \/ WitnessOps \/ Start \/ Complete \/ Respond
             \/ RestoreFile \/ ImportWitness \/ \E p \in Projects : Rebind(p)
    BY <2>0, <2>8 DEF WitnessRow, WitnessOps, Start, Complete, Respond,
       RestoreFile, ImportWitness, Rebind, StoreType
  <2>9. CASE \/ WitnessGuard \/ Send \/ Answer \/ NoAnswer
             \/ BeginPoll \/ BeginQuestion \/ BeginSide \/ EndQuestion \/ EndPoll
             \/ Interrupt \/ Crash \/ ReadZeros \/ ReadCredits \/ AbandonCosts \/ Backup
             \/ BeginReconcile \/ EndReconcile
             \/ \E x \in Reservations : TakeGuard(x) \/ Charge(x)
    BY <2>9 DEF WitnessGuard, Send, Answer, NoAnswer, BeginPoll, BeginQuestion,
       BeginSide, EndQuestion, EndPoll, Interrupt, Crash, ReadZeros, ReadCredits,
       AbandonCosts, Backup, BeginReconcile, EndReconcile, TakeGuard, Charge
  <2>10. CASE UNCHANGED vars
    BY <2>10 DEF vars
  <2> QED
    BY <2>1, <2>2, <2>3, <2>4, <2>5, <2>6, <2>7, <2>8, <2>9, <2>10
       DEF Next, BuyStep, PollStep, CostStep, ReconcileStep
<1>2. Inductive /\ [Next]_vars => [Stands]_vars
  BY <1>1
<1> QED
  BY <1>2, InductiveHolds, PTL DEF Spec, SettlementStands

\* While nothing is restored, what the journal counts fits the ceilings.
THEOREM UnrestoredHolds == Spec => []Unrestored
<1>1. Init => Unrestored
  BY InitInductive
<1>2. Inductive /\ Inductive' /\ Unrestored /\ [Next]_vars => Unrestored'
  BY UnrestoredKeeps
<1> QED
  BY <1>1, <1>2, InductiveHolds, PTL DEF Spec

\* What was charged is counted, unless an earlier version bought it.
LEMMA ChargedIsUsed ==
  ASSUME Inductive, Unrestored, restores = 0,
         NEW R \in SUBSET (Reservations \ OldReservations)
  PROVE  /\ Charged(R) <= Used(store, store.stamped \cap R)
         /\ Charged(R) \in Nat
<1> DEFINE S == {x \in R : charge[x] # None}
           T == store.stamped \cap R
           f == [r \in S |-> charge[r]]
           g == [r \in T |-> Cost(store, r)]
<1>0. store \in StoreType /\ T \in SUBSET Reservations
  BY DEF Inductive, TypeOK
<1>1. ASSUME NEW r \in S
      PROVE  /\ r \in T /\ charge[r] \in Nat
             /\ charge[r] <= Cost(store, r)
  <2>1. /\ r \in Reservations \ OldReservations /\ charge[r] # None
        /\ r \in sent /\ charge[r] \in 1 .. EstimateOf[CallOf(r)]
        /\ EstimateOf[CallOf(r)] \in Nat
    BY ReservationsAre DEF Inductive, World
  <2>2. store.rows[r] = 1 /\ r \in store.stamped
    BY <2>1 DEF Unrestored, Inductive, World, StoreSound, RowsStand
  <2>3. \/ store.settled[r] = None
        \/ store.settled[r] = charge[r]
    BY <2>1 DEF Inductive, StoreSound, AmountsStand
  <2>4. CASE store.settled[r] = None
    BY <2>1, <2>2, <2>4 DEF Cost
  <2>5. CASE store.settled[r] = charge[r]
    BY <2>1, <2>2, <2>5 DEF Cost, Paid, Inductive, StoreSound, AmountsStand
  <2> QED
    BY <2>1, <2>2, <2>3, <2>4, <2>5
<1>2. f \in [S -> Nat] /\ S \subseteq T /\ \A r \in S : f[r] <= g[r]
  BY <1>1
<1>3. g \in [T -> Nat] /\ IsFiniteSet(T)
  BY <1>0, UsedIs
<1>4. IsFiniteSet(S)
  BY <1>2, <1>3, FS_Subset
<1> HIDE DEF S, T, f, g
<1>5. Total(f) <= Total(g)
  BY <1>2, <1>3, TotalGrows
<1>6. Total(f) \in Nat
  BY <1>2, <1>4, UnitsAreFinite
<1> QED
  BY <1>5, <1>6 DEF f, g, S, T, Charged, Used

\* Without a restore, what the providers charged stays within the series'
\* ceilings: only what an earlier version settled at zero may come on top
\* (Budget.reserve; docs/RUNBOOK.md:334).
THEOREM PricedCeilingsHold ==
  Spec => [](restores = 0 => /\ Charged(Reservations \ OldReservations) <= SeriesCeiling
                             /\ Charged(OfNews) <= NewsCeiling)
<1>1. Inductive /\ Unrestored /\ restores = 0
        => /\ Charged(Reservations \ OldReservations) <= SeriesCeiling
           /\ Charged(OfNews) <= NewsCeiling
  <2> SUFFICES ASSUME Inductive, Unrestored, restores = 0
               PROVE  /\ Charged(Reservations \ OldReservations) <= SeriesCeiling
                      /\ Charged(OfNews) <= NewsCeiling
    OBVIOUS
  <2>0. store \in StoreType /\ store.stamped \subseteq Reservations
    BY DEF Inductive, TypeOK, StoreType
  <2>1. store.stamped \cap (Reservations \ OldReservations)
          = store.stamped \ OldReservations
    BY <2>0
  <2>2. OfNews \in SUBSET (Reservations \ OldReservations)
    BY OldReservationsAre DEF OfNews
  <2>3. /\ Charged(Reservations \ OldReservations)
             <= Used(store, store.stamped \ OldReservations)
        /\ Charged(Reservations \ OldReservations) \in Nat
    BY <2>1, ChargedIsUsed
  <2>4. /\ Charged(OfNews) <= Used(store, store.stamped \cap OfNews)
        /\ Charged(OfNews) \in Nat
    BY <2>2, ChargedIsUsed
  <2>5. /\ Used(store, store.stamped \ OldReservations) \in Nat
        /\ Used(store, store.stamped \cap OfNews) \in Nat
    BY <2>0, UsedIs
  <2> QED
    BY <2>3, <2>4, <2>5, CeilingsAreAmounts DEF Unrestored
<1> QED
  BY <1>1, InductiveHolds, UnrestoredHolds, PTL

\* ... so with nothing understated, all that was charged stays within them.
THEOREM SeriesCeilingsHoldHolds ==
  ASSUME Understated = {}
  PROVE  Spec => []SeriesCeilingsHold
<1>1. OldReservations = {}
  BY DEF OldReservations
<1>2. Reservations \ OldReservations = Reservations
  BY <1>1
<1>3. (restores = 0 => /\ Charged(Reservations \ OldReservations) <= SeriesCeiling
                       /\ Charged(OfNews) <= NewsCeiling)
        => SeriesCeilingsHold
  BY <1>2, Zenon DEF SeriesCeilingsHold, WithinSeriesCeilings
<1> QED
  BY <1>3, PricedCeilingsHold, PTL

-----------------------------------------------------------------------------
(* The purse.                                                              *)

LEMMA PurseTotals == \A bill : P!Total(bill) = Total(bill)
<1>1. \A S : P!Cardinality(S) = Cardinality(S)
  BY DEF P!Cardinality, Cardinality, P!IsFiniteSet, IsFiniteSet
<1>2. \A bill : P!Units(bill) = Units(bill)
  BY DEF P!Units, Units
<1> QED
  BY <1>1, <1>2, Zenon DEF P!Total, Total

\* Each call that was asked has one request, whose charge is what it paid.
OnePayment ==
    /\ \A r \in sent :
          /\ CallOf(r) \in askedCalls
          /\ paidCalls[CallOf(r)] = IF charge[r] = None THEN 0 ELSE charge[r]
    /\ \A c \in Calls \ askedCalls : paidCalls[c] = 0
    /\ askedCalls \subseteq Calls

LEMMA PaidIs == TypeOK /\ World => OnePayment
<1> SUFFICES ASSUME TypeOK, World PROVE OnePayment
  OBVIOUS
<1> DEFINE Of(c) == {r \in sent : CallOf(r) = c /\ charge[r] # None}
<1>0. \A r \in sent : CallOf(r) \in Calls
  BY ReservationsAre DEF TypeOK
<1>1. \A c \in Calls :
         paidCalls[c] = IF Of(c) = {} THEN 0 ELSE charge[CHOOSE r \in Of(c) : TRUE]
  BY DEF paidCalls
<1>2. ASSUME NEW r \in sent
      PROVE  paidCalls[CallOf(r)] = IF charge[r] = None THEN 0 ELSE charge[r]
  <2>1. \A x \in Of(CallOf(r)) : x = r
    BY DEF World
  <2>2. CASE charge[r] = None
    <3>1. Of(CallOf(r)) = {}
      BY <2>1, <2>2
    <3> QED
      BY <1>0, <1>1, <2>2, <3>1
  <2>3. CASE charge[r] # None
    <3>1. r \in Of(CallOf(r))
      BY <2>3
    <3>2. (CHOOSE x \in Of(CallOf(r)) : TRUE) = r
      BY <2>1, <3>1
    <3> HIDE DEF Of
    <3> QED
      BY <1>0, <1>1, <2>3, <3>1, <3>2
  <2> QED
    BY <2>2, <2>3
<1>3. ASSUME NEW c \in Calls \ askedCalls
      PROVE  paidCalls[c] = 0
  <2>1. Of(c) = {}
    BY DEF askedCalls
  <2> QED
    BY <1>1, <2>1
<1>4. \A r \in sent : CallOf(r) \in askedCalls
  BY DEF askedCalls
<1>5. askedCalls \subseteq Calls
  BY <1>0 DEF askedCalls
<1> QED
  BY <1>2, <1>3, <1>4, <1>5 DEF OnePayment

\* What the purse has at stake is what the reservations put at risk.
LEMMA StakeIsRisk ==
  ASSUME TypeOK, World, NEW c \in Calls
  PROVE  /\ P!AtStake(c) <= AtRisk(ProjectOf[c])
         /\ P!AtStake(c) \in Nat
<1> DEFINE S == {d \in askedCalls : ProjectOf[d] = ProjectOf[c]}
           T == sent \cap OfProject(ProjectOf[c])
           f == [d \in S |-> P!Exposure(d)]
           g == [r \in T |-> Exposed(r)]
           Sent(d) == CHOOSE r \in sent : CallOf(r) = d
           h == [d \in S |-> Sent(d)]
<1>1. \A d \in S : Sent(d) \in sent /\ CallOf(Sent(d)) = d
  BY DEF askedCalls
<1>2. \A d \in S : Sent(d) \in T
  BY <1>1 DEF OfProject, TypeOK
<1>3. ASSUME NEW d \in S
      PROVE  /\ P!Exposure(d) = Exposed(Sent(d))
             /\ Exposed(Sent(d)) \in Nat
  <2> DEFINE r == Sent(d)
  <2>1. r \in sent /\ CallOf(r) = d /\ r \in Reservations
    BY <1>1 DEF TypeOK
  <2> HIDE DEF r
  <2>2. paidCalls[d] = IF charge[r] = None THEN 0 ELSE charge[r]
    BY <2>1, PaidIs DEF OnePayment
  <2>3. charge[r] # None => charge[r] # 0
    BY <2>1, ReservationsAre DEF World
  <2>4. P!Exposure(d) = Exposed(r)
    BY <2>1, <2>2, <2>3 DEF P!Exposure, Exposed
  <2>5. Exposed(r) \in Nat
    BY <2>1, ExposedIs, ReservationsAre
  <2> QED
    BY <2>4, <2>5 DEF r
<1>4. f \in [S -> Nat] /\ \A d \in S : f[d] = Exposed(Sent(d))
  BY <1>3
<1>5. g \in [T -> Nat] /\ IsFiniteSet(T)
  BY AtRiskIs
<1>6. /\ h \in [S -> T]
      /\ \A d, e \in S : h[d] = h[e] => d = e
  BY <1>1, <1>2
<1>7. \A d \in S : f[d] <= g[h[d]]
  <2> SUFFICES ASSUME NEW d \in S PROVE f[d] <= g[h[d]]
    OBVIOUS
  <2>1. h[d] = Sent(d) /\ Sent(d) \in T
    BY <1>2
  <2>2. g[h[d]] = Exposed(Sent(d)) /\ f[d] = Exposed(Sent(d))
    BY <1>4, <2>1
  <2>3. Exposed(Sent(d)) \in Nat
    BY <1>3
  <2> QED
    BY <2>2, <2>3
<1>8. IsFiniteSet(S)
  <2>1. S \subseteq Calls
    BY PaidIs DEF OnePayment
  <2> QED
    BY <2>1, CallsAreDescribed, FS_Subset
<1>9. P!AtStake(c) = Total(f)
  BY PurseTotals DEF P!AtStake
<1>10. AtRisk(ProjectOf[c]) = Total(g)
  BY DEF AtRisk
<1> HIDE DEF S, T, f, g, h, Sent
<1>11. Total(f) <= Total(g)
  BY <1>4, <1>5, <1>6, <1>7, TotalCarries
<1>12. Total(f) \in Nat
  BY <1>4, <1>8, UnitsAreFinite
<1> QED
  BY <1>9, <1>10, <1>11, <1>12

LEMMA SendAsks ==
  ASSUME Inductive, Inductive', Understated = {}, Send
  PROVE  P!Next
<1> DEFINE c == CallOf(cur)
<1>0. /\ TypeOK /\ World /\ TypeOK' /\ World'
      /\ cur \in Reservations /\ c \in Calls
  BY ReservationsAre DEF Inductive, Send, Step, TypeOK, Buying
<1>1. pc = "send" /\ sent' = sent \cup {cur} /\ charge' = charge
  BY DEF Send, Step
<1>2. \A r \in sent : CallOf(r) # c
  BY <1>1 DEF Inductive, Hand, Buying, Unsent
<1>3. c \notin askedCalls /\ askedCalls' = askedCalls \cup {c}
  BY <1>1, <1>2 DEF askedCalls
<1>4. paidCalls' = paidCalls
  <2>1. charge[cur] = None
    BY <1>0, <1>2 DEF World
  <2>2. OnePayment /\ OnePayment'
    <3>1. (TypeOK /\ World => OnePayment)'
      BY PaidIs, PTL
    <3> QED
      BY <1>0, <3>1, PaidIs
  <2>3. \A d \in Calls : paidCalls'[d] = paidCalls[d]
    <3> SUFFICES ASSUME NEW d \in Calls PROVE paidCalls'[d] = paidCalls[d]
      OBVIOUS
    <3>1. CASE d \in askedCalls
      <4>1. PICK r \in sent : CallOf(r) = d
        BY <3>1 DEF askedCalls
      <4> QED
        BY <1>1, <2>2, <4>1 DEF OnePayment
    <3>2. CASE d = c
      BY <1>0, <1>1, <1>3, <2>1, <2>2, <3>2 DEF OnePayment
    <3>3. CASE d \notin askedCalls /\ d # c
      BY <1>3, <2>2, <3>3 DEF OnePayment
    <3> QED
      BY <3>1, <3>2, <3>3
  <2>4. /\ paidCalls = [d \in Calls |-> paidCalls[d]]
        /\ paidCalls' = [d \in Calls |-> paidCalls'[d]]
    BY DEF paidCalls
  <2> QED
    BY <2>3, <2>4
<1>5. P!AtStake(c) + EstimateOf[c] <= Ceiling[ProjectOf[c]]
  <2>1. AtRisk(ProjectOf[c]) + EstimateOf[c] <= Ceiling[ProjectOf[c]]
    BY <1>1 DEF Inductive, HandFits, Unsent
  <2>2. /\ AtRisk(ProjectOf[c]) \in Nat /\ EstimateOf[c] \in Nat
        /\ Ceiling[ProjectOf[c]] \in Nat
    BY <1>0, AtRiskIs, CallsAreDescribed, CeilingsAreAmounts
  <2>3. P!AtStake(c) <= AtRisk(ProjectOf[c]) /\ P!AtStake(c) \in Nat
    BY <1>0, StakeIsRisk
  <2> QED
    BY <2>1, <2>2, <2>3
<1>6. P!Ask(c)
  BY <1>3, <1>4, <1>5 DEF P!Ask
<1> QED
  BY <1>0, <1>6 DEF P!Next

LEMMA ChargePays ==
  ASSUME Inductive, Inductive', NEW r \in Reservations, Charge(r)
  PROVE  P!Next
<1> DEFINE c == CallOf(r)
<1>0. TypeOK /\ World /\ TypeOK' /\ World' /\ c \in Calls
  BY ReservationsAre DEF Inductive
<1>1. /\ sent' = sent /\ r \in sent /\ charge[r] = None
      /\ \E a \in 1 .. EstimateOf[c] : charge' = [charge EXCEPT ![r] = a]
  BY DEF Charge
<1>2. PICK a \in 1 .. EstimateOf[c] : charge' = [charge EXCEPT ![r] = a]
  BY <1>1
<1>3. a # None
  BY <1>0, ReservationsAre, CallsAreDescribed DEF Amounts
<1>4. /\ charge'[r] = a
      /\ \A x \in Reservations : x # r => charge'[x] = charge[x]
  BY <1>0, <1>2 DEF TypeOK
<1>5. askedCalls' = askedCalls /\ c \in askedCalls
  BY <1>1 DEF askedCalls
<1>6. paidCalls[c] = 0
  BY <1>0, <1>1, PaidIs DEF OnePayment
<1>7. paidCalls' = [paidCalls EXCEPT ![c] = a]
  <2>1. OnePayment'
    <3>1. (TypeOK /\ World => OnePayment)'
      BY PaidIs, PTL
    <3> QED
      BY <1>0, <3>1
  <2>2. paidCalls'[c] = a
    BY <1>1, <1>3, <1>4, <2>1 DEF OnePayment
  <2>3. ASSUME NEW d \in Calls, d # c
        PROVE  paidCalls'[d] = paidCalls[d]
    <3>1. CASE d \notin askedCalls
      BY <1>0, <1>5, <2>1, <3>1, PaidIs DEF OnePayment
    <3>2. CASE d \in askedCalls
      <4>1. PICK x \in sent : CallOf(x) = d
        BY <3>2 DEF askedCalls
      <4>2. x \in Reservations /\ x # r
        BY <1>0, <2>3, <4>1 DEF TypeOK
      <4>3. charge'[x] = charge[x]
        BY <1>4, <4>2
      <4>4. paidCalls'[CallOf(x)] = IF charge'[x] = None THEN 0 ELSE charge'[x]
        BY <1>1, <2>1 DEF OnePayment
      <4>5. paidCalls[CallOf(x)] = IF charge[x] = None THEN 0 ELSE charge[x]
        BY <1>0, PaidIs DEF OnePayment
      <4> QED
        BY <4>1, <4>3, <4>4, <4>5
    <3> QED
      BY <3>1, <3>2
  <2>4. /\ paidCalls = [d \in Calls |-> paidCalls[d]]
        /\ paidCalls' = [d \in Calls |-> paidCalls'[d]]
    BY DEF paidCalls
  <2> QED
    BY <1>0, <2>2, <2>3, <2>4
<1>8. P!Pay(c)
  BY <1>2, <1>5, <1>6, <1>7 DEF P!Pay
<1> QED
  BY <1>0, <1>8 DEF P!Next

\* With nothing understated, the worker's paid calls implement Purse: no call
\* is asked twice, nor beyond its project's ceiling (Budget.reserve,
\* restore.py).
THEOREM ImplementsPurseHolds ==
  ASSUME Understated = {}
  PROVE  Spec => ImplementsPurse
<1>1. Init => P!Init
  <2> SUFFICES ASSUME Init PROVE P!Init
    OBVIOUS
  <2>1. sent = {}
    BY DEF Init, OldReservations
  <2> QED
    BY <2>1 DEF P!Init, askedCalls, paidCalls
<1>2. Inductive /\ Inductive' /\ [Next]_vars => [P!Next]_(P!purse)
  <2> SUFFICES ASSUME Inductive, Inductive', [Next]_vars
               PROVE  [P!Next]_(P!purse)
    OBVIOUS
  <2>1. CASE Send
    BY <2>1, SendAsks
  <2>2. CASE \E r \in Reservations : Charge(r)
    BY <2>2, ChargePays
  <2>3. CASE ~Send /\ ~(\E r \in Reservations : Charge(r))
    <3>1. UNCHANGED <<sent, charge>>
      BY <2>3 DEF Next, BuyStep, PollStep, CostStep, ReconcileStep, vars, provider,
         Replay, Reserve, WitnessRow, WitnessOps, WitnessGuard, Start, Answer,
         NoAnswer, Complete, Respond, SettleCall, Rebind, BeginPoll, BeginQuestion,
         BeginSide, EndQuestion, EndPoll, Interrupt, Crash, ReadZeros, ReadCredits,
         AbandonCosts, CorrectZero, CorrectCredits, Backup, Restore, BeginReconcile, TakeGuard,
         HoldSpending, RestoreFile, ImportWitness, EndReconcile
    <3> QED
      BY <3>1 DEF P!purse, askedCalls, paidCalls
  <2> QED
    BY <2>1, <2>2, <2>3
<1> QED
  BY <1>1, <1>2, InductiveHolds, PTL DEF Spec, ImplementsPurse, P!Spec
=============================================================================

-------------------------- MODULE SpendingInvariant --------------------------
(***************************************************************************)
(* Why nothing is bought twice and no ceiling is passed: what holds at     *)
(* every step between the ledger, its backup, the guard files, the call in *)
(* the worker's hands and what the providers were really asked.            *)
(***************************************************************************)
EXTENDS SpendingRefinement

\* What a ledger knows of a reservation, in the order it learns it.  Nothing
\* here is about one moment, so it is as true of a backup restored later.
RowsStand(s) ==
    /\ \A r \in Reservations :
          /\ s.rows[r] # 0 => r \in minted
          /\ s.settled[r] # None => s.rows[r] = 1
    /\ s.stamped \subseteq minted
    /\ \A r \in s.witness : s.rows[r] = 1
    /\ \A c \in Calls :
          s.started[c] # None => CallOf(s.started[c]) = c /\ s.rows[s.started[c]] = 1

AmountsStand(s) ==
    /\ \A c \in Calls :
          /\ s.completed[c] # None => s.started[c] # None
          /\ s.completed[c] \in Amounts => s.completed[c] = charge[s.started[c]]
    /\ \A r \in Reservations :
          /\ s.response[r] \in Amounts => s.response[r] = charge[r]
          /\ s.settled[r] # None => \/ s.settled[r] = charge[r]
                                    \/ s.settled[r] = 0 /\ r \in OldReservations
          /\ s.corrected[r] # None => s.corrected[r] = charge[r]

\* A request that left the host is known to any ledger that has its witness:
\* as started, or as held.
SentIsKnown(s) ==
    \A r \in sent : r \in s.witness => s.started[CallOf(r)] = r \/ r \in s.held

StoreSound(s) == RowsStand(s) /\ AmountsStand(s) /\ SentIsKnown(s)

\* What the provider knows, and the files that remember it.
World ==
    /\ sent \subseteq guard
    /\ guard \subseteq minted
    /\ OldReservations \subseteq minted
    /\ \A r \in Reservations :
          charge[r] # None => r \in sent /\ charge[r] \in 1 .. EstimateOf[CallOf(r)]
    /\ \A r, s \in sent : CallOf(r) = CallOf(s) => r = s

\* While a poll runs, the ledger is at least as far as the guard files.
Ahead == pc \in {"poll"} \cup Arms \cup Buying => guard \subseteq store.witness

\* What a reservation may still cost its project.
Exposed(r) == IF charge[r] = None THEN EstimateOf[CallOf(r)] ELSE charge[r]
AtRisk(p) == Total([r \in sent \cap OfProject(p) |-> Exposed(r)])

Unsent == {"row", "ops", "guard", "start", "send"}

\* The reservation in the worker's hands.
Hand ==
    pc \in Buying =>
      LET c == CallOf(cur)
      IN  /\ cur \in minted
          /\ store.rows[cur] = 1
          /\ pc # "row" => cur \in store.witness
          /\ pc \notin {"row", "ops", "guard"} => cur \in guard
          /\ pc \in Unsent \ {"send"} => store.started[c] = None
          /\ pc \notin Unsent \ {"send"} => store.started[c] = cur
          /\ pc \notin {"respond", "settle"} => store.completed[c] = None
          /\ pc \in Unsent => \A r \in sent : CallOf(r) # c
          /\ pc \notin Unsent => cur \in sent
          /\ pc \in {"complete", "respond", "settle"} =>
                reply \in {charge[cur], Unpriced} /\ charge[cur] # None
          /\ saved # None => cur \notin saved.witness

\* ... fits its project's ceiling beside everything already asked.
HandFits ==
    Understated = {} /\ pc \in Unsent =>
       LET c == CallOf(cur)
       IN  AtRisk(ProjectOf[c]) + EstimateOf[c] <= Ceiling[ProjectOf[c]]

\* The reservation in the hands of `reconcile-restored`.
Reconciled ==
    /\ pc \in {"hold", "file", "import"} => cur \in guard \ store.witness
    /\ pc \in {"file", "import"} =>
          /\ store.rows[cur] = 1
          /\ store.started[CallOf(cur)] = cur \/ cur \in store.held

\* The corrections `correct-costs` decided to write.
Corrections ==
    /\ \A m \in zeros : m[2] = charge[m[1]] /\ store.settled[m[1]] = 0
    /\ \A m \in credits : m[2] = charge[m[1]] /\ store.rows[m[1]] = 1

Inductive ==
    /\ TypeOK
    /\ StoreSound(store)
    /\ saved # None => StoreSound(saved)
    /\ World /\ Ahead /\ Hand /\ HandFits /\ Reconciled /\ Corrections

\* While nothing is restored, every row counts against the series, and what
\* the rows add up to fits; only what an earlier version settled at zero is
\* not in these sums.
Unrestored ==
    restores = 0 =>
      /\ guard \subseteq store.witness
      /\ \A r \in Reservations : store.rows[r] # 0 => r \in store.stamped
      /\ Used(store, store.stamped \ OldReservations) <= SeriesCeiling
      /\ Used(store, store.stamped \cap OfNews) <= NewsCeiling
=============================================================================

--------------------------- MODULE WorkerInvariant ---------------------------
(***************************************************************************)
(* Why a question is posted once, its comment follows it, its windows and  *)
(* its failures are bounded and its verdicts stand: what holds at every    *)
(* step between the ledger, its backup, the guard, the poll in memory and  *)
(* the platform.                                                           *)
(***************************************************************************)
EXTENDS Worker

\* The questions are fetched once the recovery loop is over.
Fetched == poll.seen \in [Questions -> Versions]

Types ==
    /\ TypeOK
    /\ Fetched \/ Recovering
    /\ pc \in {"gate", "attempt", "post", "send", "refusal"} => Fetched
    /\ pc # "idle" => poll.act \in Acts

\* A POST leaves the guard's trace, and the trace outlives every restore as
\* an intent or a hold.
Forecasts ==
    \A q \in Questions :
        /\ sent[q].forecast \in {0, 1}
        /\ sent[q].forecast = 1 => q \in guards
        /\ sent[q].forecast = 0 => forecast[q] = "none"
        /\ q \in guards => ledger.intent[q] \/ ledger.held[q]
        /\ pc = "send" /\ poll.cur = q => q \in guards /\ sent[q].forecast = 0

Comments ==
    \A q \in Questions :
        /\ sent[q].comment > 0 => forecast[q] = "up"
        /\ ledger.confirmed[q] => forecast[q] = "up"
        /\ backup # None /\ backup.confirmed[q] => forecast[q] = "up"
        /\ pc = "publish" /\ poll.cur = q => forecast[q] = "up"

FewWindows(l) ==
    \A q \in Questions, k \in Keys : Count(l.started[q], k) <= MaxAttempts

Windows == FewWindows(ledger) /\ (backup # None => FewWindows(backup))

OneVerdict(l) ==
    \A q \in Questions : \A i, j \in DOMAIN l.blocked[q] :
        l.blocked[q][i].at = l.blocked[q][j].at => i = j

\* What is being attempted has no verdict yet.
Verdicts ==
    /\ OneVerdict(ledger)
    /\ backup # None => OneVerdict(backup)
    /\ \A q \in Questions :
          pc = "attempt" /\ poll.cur = q => ~Blocked(q, Key(q))

Inductive == Types /\ Forecasts /\ Comments /\ Windows /\ Verdicts

\* A note of the platform's answer is true, a restore adds none, and a comment is
\* asked for under one.
Noted ==
    /\ pc = "publish" => ledger.confirmed[poll.cur]
    /\ pc = "refusal" => forecast[poll.cur] = "refused"
    /\ \A q \in Questions : ledger.refused[q] => forecast[q] = "refused"
    /\ backup # None =>
         \A q \in Questions :
            /\ backup.confirmed[q] => ledger.confirmed[q]
            /\ backup.refused[q] => ledger.refused[q]

One(b) == IF b THEN 1 ELSE 0

\* Every request made, or about to be made, for a comment has its intent on file
\* or had it in a ledger that a restore replaced.
Requested ==
    \A q \in Questions :
        sent[q].comment + One(pc = "publish" /\ poll.cur = q)
          <= restores + One(ledger.commenting[q])

-----------------------------------------------------------------------------
(* What failures cost.                                                     *)

\* Everything started, and every failure, of a question is no later than an
\* activation.
Dated(q, act) ==
    /\ \A i \in DOMAIN ledger.started[q] : ledger.started[q][i].act <= act
    /\ \A w \in ledger.waits[q] : w.key.act <= act

\* A failure ended a window of its version, its own or one it inherited, and
\* the windows since are of no earlier activation.
Ended(q) ==
    \A w \in ledger.waits[q] :
       /\ w.row \in DOMAIN ledger.started[q]
       /\ ledger.started[q][w.row].fp = w.key.fp
       /\ ledger.started[q][w.row].act <= w.key.act
       /\ \A i \in DOMAIN ledger.started[q] :
             i > w.row => ledger.started[q][i].act >= w.key.act

Failures(q, k) == {w \in ledger.waits[q] : w.key = k}

\* What is attempted, is attempted in a window that has not failed.
InWindow(q) ==
    LET n == Len(ledger.started[q])
    IN  /\ n > 0
        /\ ledger.started[q][n].fp = poll.seen[q]
        /\ [row |-> n, key |-> Key(q)] \notin ledger.waits[q]

\* While nothing is restored, every failure paid for ended a window.
Paced ==
    restores = 0 =>
      /\ poll.act <= ledger.act
      /\ ledger.act = minted
      /\ \A q \in Questions :
            /\ Dated(q, ledger.act)
            /\ pc # "idle" => Dated(q, poll.act)
            /\ Ended(q)
            /\ Attempting(q) => InWindow(q)
            /\ IsFiniteSet(ledger.waits[q])
            /\ \A k \in Keys : paid[q][k] = Cardinality(Failures(q, k))
=============================================================================

------------------------- MODULE CopySettlementProofs -------------------------
(***************************************************************************)
(* Redeems and worthless settlements, for every number of tokens, jobs,    *)
(* runs and faults: an execution says redeem only with a transaction that  *)
(* paid, and no lot of a winner that can be redeemed is closed for nothing  *)
(* by a job whose list showed it.  What a job acts on is old by the time   *)
(* it acts; the proofs rest on what cannot change meanwhile: a mined       *)
(* transaction, a market that is lost, the list the job fetched.           *)
(***************************************************************************)
EXTENDS CopySettlement, SumProofs, SequenceTheorems, TLAPS

JobFields == {"plan", "todo", "seen", "at", "x", "e", "rows"}
Notionals == {"lost", "half", "won"}
Executions == [t : Tokens, kind : {"expired", "redeem"}, x : Txs \cup {None}, notional : Notionals]
TxRows == {tx[i] : i \in DOMAIN tx}

GoodTx(x) == x \in 1 .. Len(tx) /\ Paid(x)
\* Nothing can be redeemed for the token, or the list of the job did not tell.
Closable(j, t) == t \in Tokens /\ (market[t] = "lost" \/ job[j].seen[t] \in Unclear)

SettleShape ==
  /\ tx \in Seq(TxRows) /\ Len(tx) <= MaxTx
  /\ exec \in Seq(Executions) /\ lot \subseteq Tokens
  /\ market \in [Tokens -> {"open", "won", "lost"}] /\ DOMAIN log = Tokens
JobShape == DOMAIN job = Jobs /\ \A j \in Jobs : DOMAIN job[j] = JobFields

LogPaid == \A t \in Tokens : log[t] # None => GoodTx(log[t])
ExecPaid == \A e \in Redeems : GoodTx(exec[e].x)

\* A token a job saw lost is so for good.
SeenTrue(j) ==
  \A t \in Tokens : /\ job[j].seen[t] \in Unclear \cup {"open", "won", "lost"}
                    /\ job[j].seen[t] = "lost" => market[t] = "lost"

\* What a job has made sure of before it writes.
JobKnows(j) ==
  /\ job[j] = NoJob \/ SeenTrue(j)
  /\ job[j].at = "expired" \/ (job[j].at = "close" /\ job[j].x = None) => Closable(j, Subject(j))
  /\ job[j].at \in {"expired", "redeemed"} => Subject(j) \in Tokens
  /\ job[j].at \in {"redeemed", "upgrade"} => GoodTx(job[j].x)
  /\ job[j].at = "book" /\ job[j].x # None => GoodTx(job[j].x)
  /\ job[j].at = "verify" => job[j].x \in 1 .. Len(tx)
  /\ job[j].at = "upgrade" => job[j].e \in 1 .. Len(exec)
  /\ job[j].at = "rewrite" => \A r \in job[j].rows :
        r[1] \in 1 .. Len(exec) /\ r[2] \in Notionals /\ (r[2] # "lost" => GoodTx(Subject(j)))

SettleInv == SettleShape /\ JobShape /\ LogPaid /\ ExecPaid /\ \A j \in Jobs : JobKnows(j)
-----------------------------------------------------------------------------
LEMMA NoJobShape == DOMAIN NoJob = JobFields /\ NoJob.at = "next" /\ NoJob.todo = {} /\ NoJob.plan = <<>>
BY DEF NoJob, JobFields

LEMMA SettleInitInv == SettleInit => SettleInv
<1> SUFFICES ASSUME SettleInit PROVE SettleInv
  OBVIOUS
<1>1. SettleShape
  BY SettleAssumption DEF SettleInit, SettleShape
<1>2. JobShape /\ \A j \in Jobs : JobKnows(j)
  BY NoJobShape DEF SettleInit, JobShape, JobKnows
<1>3. LogPaid /\ ExecPaid
  BY DEF SettleInit, LogPaid, ExecPaid, Redeems
<1> QED
  BY <1>1, <1>2, <1>3 DEF SettleInv

\* What no step takes back: mined transactions, redeemed shares, lost markets, executions.
WorldKept ==
  /\ Len(tx) <= Len(tx') /\ \A i \in 1 .. Len(tx) : tx'[i] = tx[i]
  /\ held' \subseteq held
  /\ \A t \in Tokens : market[t] = "lost" => market'[t] = "lost"
  /\ Len(exec) <= Len(exec')

LEMMA GoodTxKept ==
  ASSUME SettleShape, SettleShape', WorldKept, NEW x, GoodTx(x)
  PROVE  GoodTx(x)'
BY DEF SettleShape, WorldKept, GoodTx, Paid

LEMMA ClosableKept ==
  ASSUME WorldKept, NEW j \in Jobs, NEW t, Closable(j, t), job'[j].seen = job[j].seen
  PROVE  Closable(j, t)'
BY DEF WorldKept, Closable

\* A job that does not move knows what it knew.
LEMMA KnowsKept ==
  ASSUME SettleShape, SettleShape', WorldKept, NEW j \in Jobs, JobKnows(j), job'[j] = job[j]
  PROVE  JobKnows(j)'
<1>1. Subject(j)' = Subject(j)
  BY DEF Subject
<1>2. SeenTrue(j) => SeenTrue(j)'
  BY DEF SeenTrue, WorldKept
<1>3. Closable(j, Subject(j)) => Closable(j, Subject(j))'
  BY <1>1, ClosableKept DEF Closable
<1>4. GoodTx(Subject(j)) => GoodTx(Subject(j))'
  BY <1>1, GoodTxKept DEF GoodTx, Paid
<1>5. GoodTx(job[j].x) => GoodTx(job[j].x)'
  BY GoodTxKept DEF GoodTx, Paid
<1>6. /\ Len(tx) \in Nat /\ Len(exec) \in Nat /\ Len(tx') \in Nat /\ Len(exec') \in Nat
      /\ Len(tx) <= Len(tx') /\ Len(exec) <= Len(exec')
  BY DEF SettleShape, WorldKept
<1>7. \A n : (n \in 1 .. Len(tx) => n \in 1 .. Len(tx')) /\ (n \in 1 .. Len(exec) => n \in 1 .. Len(exec'))
  BY <1>6
<1>8. /\ job'[j].at = "expired" \/ (job'[j].at = "close" /\ job'[j].x = None) => Closable(j, Subject(j))'
      /\ job'[j].at \in {"expired", "redeemed"} => Subject(j)' \in Tokens
      /\ job'[j] = NoJob \/ SeenTrue(j)'
  BY <1>1, <1>2, <1>3 DEF JobKnows
<1>9. /\ job'[j].at \in {"redeemed", "upgrade"} => GoodTx(job[j].x)'
      /\ job'[j].at = "book" /\ job'[j].x # None => GoodTx(job[j].x)'
      /\ job'[j].at = "verify" => job'[j].x \in 1 .. Len(tx')
      /\ job'[j].at = "upgrade" => job'[j].e \in 1 .. Len(exec')
  BY <1>5, <1>7 DEF JobKnows
<1>10. job'[j].at = "rewrite" => \A r \in job'[j].rows :
         r[1] \in 1 .. Len(exec') /\ r[2] \in Notionals /\ (r[2] # "lost" => GoodTx(Subject(j))')
  BY <1>4, <1>7 DEF JobKnows
<1> QED
  BY <1>8, <1>9, <1>10 DEF JobKnows

\* One job moves.
LEMMA JobMoves ==
  ASSUME SettleInv, SettleShape', WorldKept, JobShape', LogPaid', ExecPaid', NEW j \in Jobs, JobKnows(j)',
         \A k \in Jobs : k # j => job'[k] = job[k]
  PROVE  SettleInv'
<1>1. ASSUME NEW k \in Jobs PROVE JobKnows(k)'
  <2>1. CASE k = j
    BY <2>1
  <2>2. CASE k # j
    BY <2>2, KnowsKept DEF SettleInv
  <2> QED
    BY <2>1, <2>2
<1> QED
  BY <1>1 DEF SettleInv

\* A job is done with its subject, or starts, stops or turns to its next phase: it has nothing to
\* write, and what it saw is as true as before.
LEMMA KnowsNothing ==
  ASSUME NEW j \in Jobs, WorldKept, SettleShape, job'[j].at = "next",
         job'[j] = NoJob \/ SeenTrue(j)'
  PROVE  JobKnows(j)'
BY DEF JobKnows

LEMMA DoneMoves ==
  ASSUME JobShape, NEW j \in Jobs, Done(j)
  PROVE  /\ JobShape' /\ job'[j].at = "next" /\ job'[j].seen = job[j].seen
         /\ \A k \in Jobs : k # j => job'[k] = job[k]
BY DEF JobShape, Done, JobFields

LEMMA GoesMoves ==
  ASSUME JobShape, NEW j \in Jobs, NEW at, NEW x, NEW e, Goes(j, at, x, e)
  PROVE  /\ JobShape' /\ job'[j].at = at /\ job'[j].x = x /\ job'[j].e = e
         /\ job'[j].seen = job[j].seen /\ job'[j].todo = job[j].todo /\ job'[j].rows = job[j].rows
         /\ \A k \in Jobs : k # j => job'[k] = job[k]
BY DEF JobShape, Goes, JobFields

\* A job that is at work is no idle one.
LEMMA AtWork ==
  ASSUME NEW j \in Jobs, job[j].at # "next" \/ job[j].todo # {} \/ job[j].plan # <<>>
  PROVE  job[j] # NoJob
BY NoJobShape

\* A job ends a step with nothing in hand.
LEMMA DoneInv ==
  ASSUME SettleInv, SettleShape', WorldKept, LogPaid', ExecPaid', NEW j \in Jobs, job[j] # NoJob, Done(j)
  PROVE  SettleInv'
<1>1. /\ JobShape' /\ job'[j].at = "next" /\ job'[j].seen = job[j].seen
      /\ \A k \in Jobs : k # j => job'[k] = job[k]
  BY DoneMoves DEF SettleInv
<1>2. SeenTrue(j)'
  BY <1>1 DEF SettleInv, JobKnows, SeenTrue, WorldKept
<1>3. JobKnows(j)'
  BY <1>1, <1>2, KnowsNothing DEF SettleInv
<1> QED
  BY <1>1, <1>3, JobMoves

\* Of what was mined, logged and executed nothing changes.
LEMMA BooksKept ==
  ASSUME SettleInv, UNCHANGED <<tx, held, market, log, exec>>, lot' \subseteq Tokens
  PROVE  SettleShape' /\ WorldKept /\ LogPaid' /\ ExecPaid'
<1>1. SettleShape'
  BY DEF SettleInv, SettleShape, TxRows
<1>2. WorldKept
  BY DEF SettleInv, SettleShape, WorldKept
<1>3. LogPaid' /\ ExecPaid'
  BY DEF SettleInv, LogPaid, ExecPaid, GoodTx, Paid, Redeems
<1> QED
  BY <1>1, <1>2, <1>3

\* A transaction is mined: the books name what they named.
LEMMA MinedKept ==
  ASSUME SettleInv, NEW t, Mined(t), UNCHANGED <<market, log, exec, lot>>
  PROVE  SettleShape' /\ WorldKept /\ LogPaid' /\ ExecPaid' /\ Len(tx') = Len(tx) + 1
<1> USE DEF SettleInv
<1>1. PICK r : tx' = Append(tx, r)
  BY DEF Mined
<1>2. Len(tx) < MaxTx /\ held' \subseteq held /\ Len(tx) \in Nat /\ tx \in Seq(TxRows)
  BY DEF Mined, SettleShape
<1>3. Len(tx') = Len(tx) + 1 /\ \A i \in 1 .. Len(tx) : tx'[i] = tx[i]
  BY <1>1, <1>2
<1>4. tx' \in Seq(TxRows \cup {r})
  BY <1>1, <1>2
<1>5. tx' \in Seq(TxRows')
  <2>1. \A i \in 1 .. Len(tx') : tx'[i] \in TxRows'
    BY <1>4 DEF TxRows
  <2> QED
    BY <1>4, <2>1
<1>6. SettleShape'
  BY <1>2, <1>3, <1>5, SettleAssumption DEF SettleShape
<1>7. WorldKept
  BY <1>2, <1>3 DEF WorldKept, SettleShape
<1>8. LogPaid'
  BY <1>2, <1>3 DEF LogPaid, GoodTx, Paid
<1>9. ExecPaid'
  BY <1>2, <1>3 DEF ExecPaid, Redeems, GoodTx, Paid
<1> QED
  BY <1>3, <1>6, <1>7, <1>8, <1>9

\* A job goes on with what it has made sure of.
LEMMA GoesInv ==
  ASSUME SettleInv, SettleShape', WorldKept, LogPaid', ExecPaid', NEW j \in Jobs, job[j] # NoJob,
         NEW at, NEW x, NEW e, Goes(j, at, x, e), at # "rewrite",
         at = "expired" \/ (at = "close" /\ x = None) => Closable(j, Subject(j)),
         at \in {"expired", "redeemed"} => Subject(j) \in Tokens,
         at \in {"redeemed", "upgrade"} \/ (at = "book" /\ x # None) => x \in 1 .. Len(tx') /\ tx'[x].usd > 0,
         at = "verify" => x \in 1 .. Len(tx'),
         at = "upgrade" => e \in 1 .. Len(exec')
  PROVE  SettleInv'
<1>1. /\ JobShape' /\ job'[j].at = at /\ job'[j].x = x /\ job'[j].e = e
      /\ job'[j].seen = job[j].seen /\ job'[j].todo = job[j].todo
      /\ \A k \in Jobs : k # j => job'[k] = job[k]
  BY GoesMoves DEF SettleInv
<1>2. Subject(j)' = Subject(j)
  BY <1>1 DEF Subject
<1>3. SeenTrue(j)'
  BY <1>1 DEF SettleInv, JobKnows, SeenTrue, WorldKept
<1>4. Closable(j, Subject(j)) => Closable(j, Subject(j))'
  BY <1>1, <1>2 DEF Closable, WorldKept
<1>5. JobKnows(j)'
  BY <1>1, <1>2, <1>3, <1>4 DEF JobKnows, GoodTx, Paid
<1> QED
  BY <1>1, <1>5, JobMoves
LEMMA OfToken ==
  ASSUME SettleInv, NEW t, NEW kind, NEW e \in Of(t, kind)
  PROVE  t \in Tokens /\ e \in 1 .. Len(exec)
<1>1. e \in 1 .. Len(exec) /\ exec[e].t = t
  BY DEF Of, SettleInv, SettleShape
<1>2. exec[e] \in Executions
  BY <1>1 DEF SettleInv, SettleShape
<1> QED
  BY <1>1, <1>2 DEF Executions

\* A log row names a transaction that paid.
LEMMA LoggedKept ==
  ASSUME SettleInv, NEW t, NEW x, GoodTx(x), log' = [log EXCEPT ![t] = x],
         UNCHANGED <<tx, held, market, exec, lot>>
  PROVE  SettleShape' /\ WorldKept /\ LogPaid' /\ ExecPaid'
<1>1. SettleShape'
  BY DEF SettleInv, SettleShape, TxRows
<1>2. WorldKept
  BY DEF SettleInv, SettleShape, WorldKept
<1>3. LogPaid'
  BY DEF SettleInv, SettleShape, LogPaid, GoodTx, Paid
<1>4. ExecPaid'
  BY DEF SettleInv, ExecPaid, GoodTx, Paid, Redeems
<1> QED
  BY <1>1, <1>2, <1>3, <1>4

\* One execution is rewritten.
LEMMA RewriteKept ==
  ASSUME SettleInv, NEW e \in 1 .. Len(exec), NEW r \in Executions, exec' = [exec EXCEPT ![e] = r],
         r.kind = "redeem" => GoodTx(r.x), UNCHANGED <<tx, held, market, log, lot>>
  PROVE  SettleShape' /\ WorldKept /\ LogPaid' /\ ExecPaid'
<1>1. exec' \in Seq(Executions) /\ Len(exec') = Len(exec) /\ Len(exec) \in Nat
      /\ \A i \in 1 .. Len(exec) : exec'[i] = IF i = e THEN r ELSE exec[i]
  BY ExceptSeq DEF SettleInv, SettleShape
<1>2. SettleShape'
  BY <1>1 DEF SettleInv, SettleShape, TxRows
<1>3. WorldKept
  BY <1>1 DEF SettleInv, SettleShape, WorldKept
<1>4. LogPaid'
  BY DEF SettleInv, LogPaid, GoodTx, Paid
<1>5. ExecPaid'
  <2> SUFFICES ASSUME NEW i \in 1 .. Len(exec'), exec'[i].kind = "redeem" PROVE GoodTx(exec'[i].x)
    BY <1>1 DEF ExecPaid, Redeems, GoodTx, Paid
  <2>1. CASE i = e
    BY <1>1, <2>1
  <2>2. CASE i # e
    <3>1. i \in Redeems /\ exec'[i] = exec[i]
      BY <1>1, <2>2 DEF Redeems, SettleInv, SettleShape
    <3> QED
      BY <3>1 DEF SettleInv, ExecPaid
  <2> QED
    BY <2>1, <2>2
<1> QED
  BY <1>2, <1>3, <1>4, <1>5

LEMMA ProceedsKept ==
  ASSUME SettleInv, NEW e \in 1 .. Len(exec), NEW x, GoodTx(x), NEW made \in Notionals,
         ApplyRedeemProceeds(e, x, made), UNCHANGED <<tx, held, market, log, lot>>
  PROVE  SettleShape' /\ WorldKept /\ LogPaid' /\ ExecPaid'
<1> DEFINE r == [exec[e] EXCEPT !.kind = "redeem", !.x = x, !.notional = made]
<1>1. exec' = [exec EXCEPT ![e] = r]
  BY DEF ApplyRedeemProceeds
<1>2. exec[e] \in Executions
  BY DEF SettleInv, SettleShape
<1>3. x \in Txs
  BY SettleAssumption DEF GoodTx, Txs, SettleInv, SettleShape
<1>4. r \in Executions /\ r.kind = "redeem" /\ r.x = x
  BY <1>2, <1>3 DEF Executions
<1> HIDE DEF r
<1> QED
  BY <1>1, <1>4, RewriteKept

LEMMA WorthlessKept ==
  ASSUME SettleInv, NEW e \in 1 .. Len(exec), ApplyExpiredWorthless(e),
         UNCHANGED <<tx, held, market, log, lot>>
  PROVE  SettleShape' /\ WorldKept /\ LogPaid' /\ ExecPaid'
<1> DEFINE r == [exec[e] EXCEPT !.kind = "expired", !.x = None, !.notional = "lost"]
<1>1. exec' = [exec EXCEPT ![e] = r]
  BY DEF ApplyExpiredWorthless
<1>2. exec[e] \in Executions
  BY DEF SettleInv, SettleShape
<1>3. r \in Executions /\ r.kind = "expired"
  BY <1>2 DEF Executions, Notionals
<1> HIDE DEF r
<1> QED
  BY <1>1, <1>3, RewriteKept
-----------------------------------------------------------------------------
(* One lemma for each action.                                              *)

LEMMA WorldInv ==
  ASSUME SettleInv, Transfer \/ \E t \in Tokens : Resolve(t) PROVE SettleInv'
<1>1. SettleShape' /\ WorldKept /\ LogPaid' /\ ExecPaid'
  <2>1. CASE Transfer
    BY <2>1, MinedKept DEF Transfer, ledgerVars
  <2>2. ASSUME NEW t \in Tokens, Resolve(t) 
        PROVE  SettleShape' /\ WorldKept /\ LogPaid' /\ ExecPaid'
    <3>1. UNCHANGED <<tx, held, log, exec, lot>> /\ market' \in [Tokens -> {"open", "won", "lost"}]
          /\ \A u \in Tokens : market[u] = "lost" => market'[u] = "lost"
      BY <2>2 DEF Resolve, ledgerVars, SettleInv, SettleShape
    <3>2. SettleShape'
      BY <3>1 DEF SettleInv, SettleShape, TxRows
    <3>3. WorldKept
      BY <3>1 DEF WorldKept, SettleInv, SettleShape
    <3>4. LogPaid' /\ ExecPaid'
      BY <3>1 DEF SettleInv, LogPaid, ExecPaid, GoodTx, Paid, Redeems
    <3> QED
      BY <3>2, <3>3, <3>4
  <2> QED
    BY <2>1, <2>2
<1>2. job' = job
  BY DEF Transfer, Resolve
<1>3. JobShape' /\ \A j \in Jobs : JobKnows(j)'
  BY <1>1, <1>2, KnowsKept DEF SettleInv, JobShape
<1> QED
  BY <1>1, <1>3 DEF SettleInv

LEMMA StartInv ==
  ASSUME SettleInv, NEW j \in Jobs, StartJob(j) PROVE SettleInv'
<1>1. SettleShape' /\ WorldKept /\ LogPaid' /\ ExecPaid'
  BY BooksKept DEF StartJob, chainVars, ledgerVars, SettleInv, SettleShape
<1>2. PICK T, seen : /\ seen \in Seen(j, T)
                     /\ job' = [job EXCEPT ![j] = [NoJob EXCEPT !.plan = Plan[j], !.todo = T, !.seen = seen]]
  BY DEF StartJob
<1>3. /\ JobShape' /\ job'[j].at = "next" /\ job'[j].seen = seen
      /\ \A k \in Jobs : k # j => job'[k] = job[k]
  BY <1>2, NoJobShape DEF SettleInv, JobShape, JobFields
<1>4. UNCHANGED <<held, market>>
  BY DEF StartJob, chainVars
<1>5. SeenTrue(j)'
  <2>1. \A t \in Tokens : seen[t] \in Unclear \cup {"open", "won", "lost"} /\ (seen[t] = "lost" => market[t] = "lost")
    BY <1>2 DEF Seen, Lists, Unclear, SettleInv, SettleShape
  <2> QED
    BY <1>3, <1>4, <2>1 DEF SeenTrue
<1>6. JobKnows(j)'
  BY <1>3, <1>5 DEF JobKnows
<1> QED
  BY <1>1, <1>3, <1>6, JobMoves

LEMMA PhaseInv ==
  ASSUME SettleInv, NEW j \in Jobs, NextPhase(j) \/ JobDies(j) PROVE SettleInv'
<1>1. SettleShape' /\ WorldKept /\ LogPaid' /\ ExecPaid'
  BY BooksKept DEF NextPhase, JobDies, chainVars, ledgerVars, SettleInv, SettleShape
<1>2. CASE job' = [job EXCEPT ![j] = NoJob]
  <2>1. JobShape' /\ job'[j] = NoJob /\ \A k \in Jobs : k # j => job'[k] = job[k]
    BY <1>2, NoJobShape DEF SettleInv, JobShape
  <2>2. JobKnows(j)'
    BY <1>1, <2>1, NoJobShape, KnowsNothing DEF SettleInv
  <2> QED
    BY <1>1, <2>1, <2>2, JobMoves
<1>3. CASE ~(job' = [job EXCEPT ![j] = NoJob])
  <2>1. PICK seen \in [Tokens -> {"won", "missing"}] :
          /\ job[j].plan # <<>> /\ job[j].at = "next"
          /\ job' = [job EXCEPT ![j].plan = Tail(job[j].plan), ![j].todo = Subjects(job[j].plan[2]), ![j].seen = seen]
    BY <1>3 DEF NextPhase, JobDies
  <2>2. /\ JobShape' /\ job'[j].at = "next" /\ job'[j].seen = seen
        /\ \A k \in Jobs : k # j => job'[k] = job[k]
    BY <2>1 DEF SettleInv, JobShape, JobFields
  <2>3. SeenTrue(j)'
    BY <2>2 DEF SeenTrue, Unclear
  <2>4. JobKnows(j)'
    BY <1>1, <2>2, <2>3, KnowsNothing DEF SettleInv
  <2> QED
    BY <1>1, <2>2, <2>4, JobMoves
<1> QED
  BY <1>2, <1>3

LEMMA CreateExecutionInv ==
  ASSUME SettleInv, NEW j \in Jobs, CreateExecution(j) PROVE SettleInv'
<1> USE DEF SettleInv
<1> DEFINE r == IF job[j].at = "expired"
                THEN [t |-> Subject(j), kind |-> "expired", x |-> None, notional |-> "lost"]
                ELSE [t |-> Subject(j), kind |-> "redeem", x |-> job[j].x, notional |-> "won"]
<1>1. /\ job[j].at \in {"expired", "redeemed"} /\ Subject(j) \in Tokens /\ exec' = Append(exec, r)
      /\ Goes(j, "close", job[j].x, Len(exec) + 1) /\ UNCHANGED <<tx, held, market, log, lot>>
  BY DEF CreateExecution, JobKnows, chainVars, ledgerVars
<1>2. job[j].at = "redeemed" => GoodTx(job[j].x) /\ job[j].x \in Txs
  BY SettleAssumption DEF JobKnows, GoodTx, Txs, SettleShape
<1>3. r \in Executions /\ (r.kind = "redeem" => GoodTx(r.x))
  <2>1. CASE job[j].at = "expired"
    BY <1>1, <2>1 DEF Executions, Notionals
  <2>2. CASE job[j].at = "redeemed"
    BY <1>1, <1>2, <2>2 DEF Executions, Notionals
  <2> QED
    BY <1>1, <2>1, <2>2
<1> HIDE DEF r
<1>4. /\ exec' \in Seq(Executions) /\ Len(exec') = Len(exec) + 1 /\ exec'[Len(exec) + 1] = r
      /\ Len(exec) \in Nat /\ \A i \in 1 .. Len(exec) : exec'[i] = exec[i]
  BY <1>1, <1>3 DEF SettleShape
<1>5. SettleShape'
  BY <1>1, <1>4 DEF SettleShape, TxRows
<1>6. WorldKept
  BY <1>1, <1>4 DEF WorldKept, SettleShape
<1>7. LogPaid'
  BY <1>1 DEF LogPaid, GoodTx, Paid
<1>8. ExecPaid'
  <2> SUFFICES ASSUME NEW e \in 1 .. Len(exec'), exec'[e].kind = "redeem" PROVE GoodTx(exec'[e].x)
    BY <1>1, <1>4 DEF ExecPaid, Redeems, GoodTx, Paid
  <2>1. CASE e = Len(exec) + 1
    BY <1>3, <1>4, <2>1
  <2>2. CASE e # Len(exec) + 1
    <3>1. e \in 1 .. Len(exec) /\ exec'[e] = exec[e]
      BY <1>4, <2>2
    <3>2. e \in Redeems
      BY <3>1 DEF Redeems, SettleShape
    <3> QED
      BY <3>1, <3>2 DEF ExecPaid
  <2> QED
    BY <2>1, <2>2
<1>9. job[j].x = None => Closable(j, Subject(j))
  <2>1. CASE job[j].at = "expired"
    BY <2>1 DEF JobKnows
  <2>2. CASE job[j].at = "redeemed"
    BY <1>2, <2>2, SettleAssumption DEF Txs
  <2> QED
    BY <1>1, <2>1, <2>2
<1>10. job[j] # NoJob
  BY <1>1, AtWork
<1> QED
  BY <1>1, <1>5, <1>6, <1>7, <1>8, <1>9, <1>10, GoesInv

LEMMA CloseLotInv ==
  ASSUME SettleInv, NEW j \in Jobs, CloseLot(j) PROVE SettleInv'
<1>1. Done(j) /\ job[j] # NoJob /\ UNCHANGED <<tx, held, market, log, exec>> /\ lot' \subseteq lot
  BY AtWork DEF CloseLot, chainVars, ledgerVars
<1>2. SettleShape' /\ WorldKept /\ LogPaid' /\ ExecPaid'
  BY <1>1, BooksKept DEF SettleInv, SettleShape
<1> QED
  BY <1>1, <1>2, DoneInv

LEMMA ExpireInv ==
  ASSUME SettleInv, NEW j \in Jobs, Expire(j) PROVE SettleInv'
<1>1. job[j] # NoJob /\ UNCHANGED <<tx, held, market, log, exec, lot>>
  BY AtWork DEF Expire, At, chainVars, ledgerVars
<1>2. SettleShape' /\ WorldKept /\ LogPaid' /\ ExecPaid'
  BY <1>1, BooksKept DEF SettleInv, SettleShape
<1>3. CASE Done(j)
  BY <1>1, <1>2, <1>3, DoneInv
<1>4. CASE ~Done(j)
  <2>1. /\ Subject(j) \in lot /\ Worthless(j, Subject(j))
        /\ Goes(j, "expired", None, None) \/ \E e \in Of(Subject(j), "expired") : Goes(j, "close", None, e)
    BY <1>4 DEF Expire
  <2>2. Closable(j, Subject(j))
    BY <1>1, <2>1 DEF SettleInv, SettleShape, JobKnows, SeenTrue, Worthless, Closable, Unclear
  <2>3. Subject(j) \in Tokens
    BY <2>2 DEF Closable
  <2>4. CASE Goes(j, "expired", None, None)
    BY <1>1, <1>2, <2>2, <2>3, <2>4, GoesInv
  <2>5. ASSUME NEW e \in Of(Subject(j), "expired"), Goes(j, "close", None, e) PROVE SettleInv'
    BY <1>1, <1>2, <2>2, <2>3, <2>5, GoesInv
  <2> QED
    BY <2>1, <2>4, <2>5
<1> QED
  BY <1>3, <1>4

LEMMA RedeemCheckInv ==
  ASSUME SettleInv, NEW j \in Jobs, RedeemCheck(j) PROVE SettleInv'
<1>1. job[j] # NoJob /\ UNCHANGED <<tx, held, market, log, exec, lot>>
  BY AtWork DEF RedeemCheck, At, chainVars, ledgerVars
<1>2. SettleShape' /\ WorldKept /\ LogPaid' /\ ExecPaid'
  BY <1>1, BooksKept DEF SettleInv, SettleShape
<1>3. Done(j) \/ Goes(j, "send", None, None) \/ Goes(j, "book", None, None)
  BY DEF RedeemCheck, Throws
<1>4. CASE Done(j)
  BY <1>1, <1>2, <1>4, DoneInv
<1>5. CASE Goes(j, "send", None, None)
  BY <1>1, <1>2, <1>5, GoesInv
<1>6. CASE Goes(j, "book", None, None)
  BY <1>1, <1>2, <1>6, GoesInv
<1> QED
  BY <1>3, <1>4, <1>5, <1>6

LEMMA RedeemSendInv ==
  ASSUME SettleInv, NEW j \in Jobs, RedeemSend(j) PROVE SettleInv'
<1>1. job[j] # NoJob /\ UNCHANGED <<market, log, exec, lot>>
  BY AtWork DEF RedeemSend, ledgerVars
<1>2. CASE Mined(Subject(j)) /\ Goes(j, "verify", Len(tx) + 1, None)
  <2>1. SettleShape' /\ WorldKept /\ LogPaid' /\ ExecPaid' /\ Len(tx') = Len(tx) + 1
    BY <1>1, <1>2, MinedKept
  <2>2. Len(tx) + 1 \in 1 .. Len(tx')
    BY <2>1 DEF SettleInv, SettleShape
  <2> QED
    BY <1>1, <1>2, <2>1, <2>2, GoesInv
<1>3. CASE Mined(Subject(j)) /\ Throws(j)
  BY <1>1, <1>3, MinedKept, DoneInv DEF Throws
<1>4. CASE Throws(j) /\ UNCHANGED <<held, tx>>
  <2>1. SettleShape' /\ WorldKept /\ LogPaid' /\ ExecPaid'
    BY <1>1, <1>4, BooksKept DEF SettleInv, SettleShape
  <2> QED
    BY <1>1, <1>4, <2>1, DoneInv DEF Throws
<1> QED
  BY <1>2, <1>3, <1>4 DEF RedeemSend

LEMMA RedeemVerifyInv ==
  ASSUME SettleInv, NEW j \in Jobs, RedeemVerify(j) PROVE SettleInv'
<1>1. job[j] # NoJob /\ UNCHANGED <<tx, held, market, exec, lot>>
  BY AtWork DEF RedeemVerify, chainVars, ledgerVars
<1>2. CASE Throws(j) /\ UNCHANGED log
  <2>1. SettleShape' /\ WorldKept /\ LogPaid' /\ ExecPaid'
    BY <1>1, <1>2, BooksKept DEF SettleInv, SettleShape
  <2> QED
    BY <1>1, <1>2, <2>1, DoneInv DEF Throws
<1>3. CASE ~(Throws(j) /\ UNCHANGED log)
  <2>1. /\ job[j].at = "verify" /\ Paid(job[j].x) /\ log' = [log EXCEPT ![Subject(j)] = job[j].x]
        /\ Goes(j, "book", job[j].x, None)
    BY <1>3 DEF RedeemVerify
  <2>2. GoodTx(job[j].x)
    BY <2>1 DEF SettleInv, JobKnows, GoodTx
  <2>3. SettleShape' /\ WorldKept /\ LogPaid' /\ ExecPaid'
    BY <1>1, <2>1, <2>2, LoggedKept
  <2>4. job[j].x \in 1 .. Len(tx') /\ tx'[job[j].x].usd > 0
    BY <1>1, <2>2 DEF GoodTx, Paid
  <2> QED
    BY <1>1, <2>1, <2>3, <2>4, GoesInv
<1> QED
  BY <1>2, <1>3

LEMMA UpgradeInv ==
  ASSUME SettleInv, NEW j \in Jobs, Upgrade(j) PROVE SettleInv'
<1>1. /\ job[j] # NoJob /\ UNCHANGED <<tx, held, market, log, lot>> /\ Done(j)
      /\ ApplyRedeemProceeds(job[j].e, job[j].x, "won")
  BY AtWork DEF Upgrade, chainVars
<1>2. GoodTx(job[j].x) /\ job[j].e \in 1 .. Len(exec)
  BY DEF Upgrade, SettleInv, JobKnows
<1>3. SettleShape' /\ WorldKept /\ LogPaid' /\ ExecPaid'
  BY <1>1, <1>2, ProceedsKept DEF Notionals
<1> QED
  BY <1>1, <1>3, DoneInv

LEMMA BookInv ==
  ASSUME SettleInv, NEW j \in Jobs, Book(j) PROVE SettleInv'
<1> DEFINE x == IF job[j].x = None THEN log[Subject(j)] ELSE job[j].x
<1>1. job[j] # NoJob /\ UNCHANGED <<tx, held, market, log, exec, lot>>
  BY AtWork DEF Book, chainVars, ledgerVars
<1>2. SettleShape' /\ WorldKept /\ LogPaid' /\ ExecPaid'
  BY <1>1, BooksKept DEF SettleInv, SettleShape
<1>3. CASE Done(j)
  BY <1>1, <1>2, <1>3, DoneInv
<1>4. CASE ~Done(j)
  <2>1. /\ job[j].at = "book" /\ x # None
        /\ Subject(j) \in lot \/ Of(Subject(j), "expired") # {}
        /\ \/ Goes(j, IF Paid(x) THEN "redeemed" ELSE "expired", IF Paid(x) THEN x ELSE None, None)
           \/ \E e \in Of(Subject(j), "expired") : Goes(j, "upgrade", x, e)
    BY <1>4 DEF Book
  <2>2. Subject(j) \in Tokens
    BY <2>1, OfToken DEF SettleInv, SettleShape
  <2>3. GoodTx(x)
    BY <2>1, <2>2 DEF SettleInv, JobKnows, LogPaid
  <2> HIDE DEF x
  <2>4. x \in 1 .. Len(tx') /\ tx'[x].usd > 0 /\ Paid(x) /\ x # None
    BY <1>1, <2>1, <2>3 DEF GoodTx, Paid
  <2>5. CASE Goes(j, IF Paid(x) THEN "redeemed" ELSE "expired", IF Paid(x) THEN x ELSE None, None)
    <3>1. Goes(j, "redeemed", x, None)
      BY <2>4, <2>5
    <3> QED
      BY <1>1, <1>2, <2>2, <2>4, <3>1, GoesInv
  <2>6. ASSUME NEW e \in Of(Subject(j), "expired"), Goes(j, "upgrade", x, e) PROVE SettleInv'
    <3>1. e \in 1 .. Len(exec')
      BY <1>1, OfToken
    <3> QED
      BY <1>1, <1>2, <2>4, <2>6, <3>1, GoesInv
  <2> QED
    BY <2>1, <2>5, <2>6
<1> QED
  BY <1>3, <1>4

LEMMA UnsettledInv ==
  ASSUME SettleInv, NEW j \in Jobs, Unsettled(j) PROVE SettleInv'
<1>1. job[j] # NoJob /\ UNCHANGED <<tx, held, market, exec, lot>>
  BY AtWork DEF Unsettled, At, chainVars, ledgerVars
<1>2. CASE UNCHANGED log
  <2>1. SettleShape' /\ WorldKept /\ LogPaid' /\ ExecPaid'
    BY <1>1, <1>2, BooksKept DEF SettleInv, SettleShape
  <2>2. \/ Done(j)
        \/ Subject(j) \in lot /\ log[Subject(j)] # None /\ Goes(j, "book", log[Subject(j)], None)
        \/ Goes(j, "book", None, None)
        \/ \E x \in Found : Goes(j, "book", x, None)
    BY DEF Unsettled
  <2>3. CASE Done(j)
    BY <1>1, <2>1, <2>3, DoneInv
  <2>4. CASE Subject(j) \in lot /\ log[Subject(j)] # None /\ Goes(j, "book", log[Subject(j)], None)
    <3>1. log[Subject(j)] \in 1 .. Len(tx') /\ tx'[log[Subject(j)]].usd > 0
      BY <1>1, <2>4 DEF SettleInv, SettleShape, LogPaid, GoodTx, Paid
    <3> QED
      BY <1>1, <2>1, <2>4, <3>1, GoesInv
  <2>5. CASE Goes(j, "book", None, None)
    BY <1>1, <2>1, <2>5, GoesInv
  <2>6. ASSUME NEW x \in Found, Goes(j, "book", x, None) PROVE SettleInv'
    <3>1. x \in 1 .. Len(tx') /\ tx'[x].usd > 0
      BY <1>1 DEF Found, Paid, SettleInv, SettleShape
    <3> QED
      BY <1>1, <2>1, <2>6, <3>1, GoesInv
  <2> QED
    BY <2>2, <2>3, <2>4, <2>5, <2>6
<1>3. CASE ~UNCHANGED log
  <2>1. PICK x \in Found : /\ Goes(j, "book", x, None)
                           /\ log' = [log EXCEPT ![Subject(j)] = x]
    BY <1>3 DEF Unsettled
  <2>2. GoodTx(x)
    BY DEF Found, GoodTx, SettleInv, SettleShape
  <2>3. SettleShape' /\ WorldKept /\ LogPaid' /\ ExecPaid'
    BY <1>1, <2>1, <2>2, LoggedKept
  <2>4. x \in 1 .. Len(tx') /\ tx'[x].usd > 0
    BY <1>1, <2>2 DEF GoodTx, Paid
  <2> QED
    BY <1>1, <2>1, <2>3, <2>4, GoesInv
<1> QED
  BY <1>2, <1>3

LEMMA MisstatedInv ==
  ASSUME SettleInv, NEW j \in Jobs, Misstated(j) PROVE SettleInv'
<1> DEFINE x == log[Subject(j)]
<1>1. job[j] # NoJob /\ UNCHANGED <<tx, held, market, log, exec, lot>>
  BY AtWork DEF Misstated, At, chainVars, ledgerVars
<1>2. SettleShape' /\ WorldKept /\ LogPaid' /\ ExecPaid'
  BY <1>1, BooksKept DEF SettleInv, SettleShape
<1>3. CASE Done(j)
  BY <1>1, <1>2, <1>3, DoneInv
<1>4. CASE ~Done(j)
  <2>1. PICK e \in Of(Subject(j), "expired") : x # None /\ Goes(j, "upgrade", x, e)
    BY <1>4 DEF Misstated
  <2>2. Subject(j) \in Tokens /\ e \in 1 .. Len(exec')
    BY <1>1, OfToken
  <2>3. x \in 1 .. Len(tx') /\ tx'[x].usd > 0
    BY <1>1, <2>1, <2>2 DEF SettleInv, LogPaid, GoodTx, Paid
  <2> QED
    BY <1>1, <1>2, <2>1, <2>2, <2>3, GoesInv
<1> QED
  BY <1>3, <1>4

LEMMA RegroupReadInv ==
  ASSUME SettleInv, NEW j \in Jobs, RegroupRead(j) PROVE SettleInv'
<1> DEFINE group == {e \in Redeems : exec[e].x = Subject(j)}
           gets(e, keep) == IF e \notin keep THEN "lost"
                            ELSE IF Cardinality(keep) = 1 THEN "won" ELSE "half"
           rows(keep) == {<<e, gets(e, keep)>> : e \in {f \in group : gets(f, keep) # exec[f].notional}}
<1>1. job[j] # NoJob /\ UNCHANGED <<tx, held, market, log, exec, lot>>
  BY AtWork DEF RegroupRead, At, chainVars, ledgerVars
<1>2. SettleShape' /\ WorldKept /\ LogPaid' /\ ExecPaid'
  BY <1>1, BooksKept DEF SettleInv, SettleShape
<1>3. CASE Done(j)
  BY <1>1, <1>2, <1>3, DoneInv
<1>4. CASE ~Done(j)
  <2>1. PICK keep : group # {} /\ job' = [job EXCEPT ![j].at = "rewrite", ![j].rows = rows(keep)]
    BY <1>4 DEF RegroupRead
  <2>2. GoodTx(Subject(j))
    BY <2>1 DEF SettleInv, ExecPaid
  <2>3. \A r \in rows(keep) : r[1] \in 1 .. Len(exec) /\ r[2] \in Notionals
    BY DEF Redeems, Notionals, SettleInv, SettleShape
  <2> HIDE DEF rows
  <2>4. /\ JobShape' /\ job'[j].at = "rewrite" /\ job'[j].rows = rows(keep)
        /\ job'[j].seen = job[j].seen /\ job'[j].todo = job[j].todo
        /\ \A k \in Jobs : k # j => job'[k] = job[k]
    BY <2>1 DEF SettleInv, JobShape, JobFields
  <2>5. SeenTrue(j)'
    BY <1>1, <2>4 DEF SettleInv, JobKnows, SeenTrue
  <2>6. Subject(j)' = Subject(j) /\ GoodTx(Subject(j))'
    BY <1>1, <2>2, <2>4 DEF Subject, GoodTx, Paid
  <2>7. JobKnows(j)'
    BY <1>1, <2>3, <2>4, <2>5, <2>6 DEF JobKnows
  <2> QED
    BY <1>2, <2>4, <2>7, JobMoves
<1> QED
  BY <1>3, <1>4

LEMMA RegroupRewriteInv ==
  ASSUME SettleInv, NEW j \in Jobs, RegroupRewrite(j) PROVE SettleInv'
<1>1. job[j].at = "rewrite" /\ job[j] # NoJob /\ UNCHANGED <<tx, held, market, log, lot>>
  BY AtWork DEF RegroupRewrite, chainVars
<1>2. CASE job[j].rows = {}
  <2>1. Done(j) /\ UNCHANGED exec
    BY <1>2 DEF RegroupRewrite
  <2>2. SettleShape' /\ WorldKept /\ LogPaid' /\ ExecPaid'
    BY <1>1, <2>1, BooksKept DEF SettleInv, SettleShape
  <2> QED
    BY <1>1, <2>1, <2>2, DoneInv
<1>3. CASE job[j].rows # {}
  <2>1. PICK r \in job[j].rows :
          /\ IF r[2] = "lost" THEN ApplyExpiredWorthless(r[1])
             ELSE ApplyRedeemProceeds(r[1], Subject(j), r[2])
          /\ job' = [job EXCEPT ![j].rows = job[j].rows \ {r}]
    BY <1>3 DEF RegroupRewrite
  <2>2. r[1] \in 1 .. Len(exec) /\ r[2] \in Notionals /\ (r[2] # "lost" => GoodTx(Subject(j)))
    BY <1>1 DEF SettleInv, JobKnows
  <2>3. SettleShape' /\ WorldKept /\ LogPaid' /\ ExecPaid'
    <3>1. CASE r[2] = "lost"
      BY <1>1, <2>1, <2>2, <3>1, WorthlessKept
    <3>2. CASE r[2] # "lost"
      BY <1>1, <2>1, <2>2, <3>2, ProceedsKept
    <3> QED
      BY <3>1, <3>2
  <2>4. /\ JobShape' /\ job'[j].at = "rewrite" /\ job'[j].rows = job[j].rows \ {r}
        /\ job'[j].seen = job[j].seen /\ job'[j].todo = job[j].todo
        /\ \A k \in Jobs : k # j => job'[k] = job[k]
    BY <1>1, <2>1 DEF SettleInv, JobShape, JobFields
  <2>5. SeenTrue(j)'
    BY <1>1, <2>4 DEF SettleInv, JobKnows, SeenTrue
  <2>6. Subject(j)' = Subject(j) /\ (GoodTx(Subject(j)) => GoodTx(Subject(j))')
    BY <1>1, <2>4 DEF Subject, GoodTx, Paid
  <2>7. Len(exec) <= Len(exec') /\ Len(exec) \in Nat /\ Len(exec') \in Nat
    BY <2>3 DEF WorldKept, SettleInv, SettleShape
  <2>8. \A q \in job[j].rows : /\ q[1] \in 1 .. Len(exec') /\ q[2] \in Notionals
                               /\ (q[2] # "lost" => GoodTx(Subject(j))')
    BY <1>1, <2>6, <2>7 DEF SettleInv, JobKnows
  <2>9. JobKnows(j)'
    BY <2>4, <2>5, <2>8 DEF JobKnows
  <2> QED
    BY <2>3, <2>4, <2>9, JobMoves
<1> QED
  BY <1>2, <1>3
-----------------------------------------------------------------------------
LEMMA SettleNextInv == SettleInv /\ [SettleNext]_settleVars => SettleInv'
<1> SUFFICES ASSUME SettleInv, [SettleNext]_settleVars PROVE SettleInv'
  OBVIOUS
<1>1. CASE Transfer \/ \E t \in Tokens : Resolve(t)
  BY <1>1, WorldInv
<1>2. ASSUME NEW j \in Jobs, StartJob(j) \/ JobStep(j) \/ JobDies(j) PROVE SettleInv'
  BY <1>2, StartInv, PhaseInv, CreateExecutionInv, CloseLotInv, UpgradeInv, ExpireInv, RedeemCheckInv,
     RedeemSendInv, RedeemVerifyInv, BookInv, UnsettledInv, MisstatedInv, RegroupReadInv, RegroupRewriteInv
     DEF JobStep
<1>3. CASE UNCHANGED settleVars
  <2>1. UNCHANGED <<tx, held, market, log, exec, lot, job>>
    BY <1>3 DEF settleVars
  <2>2. SettleShape' /\ WorldKept /\ LogPaid' /\ ExecPaid'
    BY <2>1, BooksKept DEF SettleInv, SettleShape
  <2>3. JobShape' /\ \A j \in Jobs : JobKnows(j)'
    BY <2>1, <2>2, KnowsKept DEF SettleInv, JobShape
  <2> QED
    BY <2>2, <2>3 DEF SettleInv
<1> QED
  BY <1>1, <1>2, <1>3 DEF SettleNext

LEMMA SettleInvariant == SettleSpec => []SettleInv
BY SettleInitInv, SettleNextInv, PTL DEF SettleSpec

\* The executions page and the PnL never show a redeem that nothing paid: what
\* recordResolvedRedeemExecutionIfMissing, the reconciliations of the sweeps and
\* reconcileRedeemTxGroup write as a redeem names a transaction that moved USDC, and so
\* does every row of PolymarketRedeemLog, for any number of jobs and crashes.
THEOREM RedeemsPaid == SettleSpec => []RedeemPaid
<1>1. SettleInv => RedeemPaid
  <2> SUFFICES ASSUME SettleInv PROVE RedeemPaid
    OBVIOUS
  <2>1. \A x : GoodTx(x) => x # None /\ Paid(x)
    BY SettleAssumption DEF GoodTx, SettleInv, SettleShape
  <2> QED
    BY <2>1 DEF RedeemPaid, SettleInv, LogPaid, ExecPaid
<1> QED
  BY <1>1, SettleInvariant, PTL

\* canAutoSettleTokenNow lets a winner wait for its redeem, but for a position it does not
\* see: the lot of a token whose share can be redeemed is closed with the proceeds of one, or
\* by a job whose own list left the position out or had it near zero; no list, however old,
\* that showed it open or redeemable lets a job close it for nothing.
THEOREM WinnersWait == SettleSpec => WinnerWaitsForRedeem
<1> DEFINE Waits == \A t \in lot \ lot' : market[t] = "won" /\ t \in held =>
                      \E j \in Jobs : /\ job[j].at = "close" /\ job'[j].at = "next"
                                      /\ job[j].x # None \/ job[j].seen[t] \in Unclear
<1>1. SettleInv /\ [SettleNext]_settleVars => [Waits]_settleVars
  <2> SUFFICES ASSUME SettleInv, SettleNext, NEW t \in lot, t \notin lot', market[t] = "won", t \in held
               PROVE  \E j \in Jobs : /\ job[j].at = "close" /\ job'[j].at = "next"
                                      /\ job[j].x # None \/ job[j].seen[t] \in Unclear
    OBVIOUS
  <2>1. PICK j \in Jobs : CloseLot(j)
    <3>1. ~(UNCHANGED lot)
      OBVIOUS
    <3>2. ~Transfer /\ ~(\E u \in Tokens : Resolve(u))
      BY <3>1 DEF Transfer, Resolve, ledgerVars
    <3>3. \A j \in Jobs : ~StartJob(j) /\ ~JobDies(j) /\ ~NextPhase(j) /\ ~CreateExecution(j) /\ ~Upgrade(j)
      BY <3>1 DEF StartJob, JobDies, NextPhase, CreateExecution, Upgrade, ledgerVars
    <3>4. \A j \in Jobs : ~Expire(j) /\ ~RedeemCheck(j) /\ ~RedeemSend(j) /\ ~RedeemVerify(j) /\ ~Book(j)
      BY <3>1 DEF Expire, RedeemCheck, RedeemSend, RedeemVerify, Book, ledgerVars
    <3>5. \A j \in Jobs : ~Unsettled(j) /\ ~Misstated(j) /\ ~RegroupRead(j) /\ ~RegroupRewrite(j)
      BY <3>1 DEF Unsettled, Misstated, RegroupRead, RegroupRewrite, ledgerVars
    <3> QED
      BY <3>2, <3>3, <3>4, <3>5 DEF SettleNext, JobStep
  <2>2. job[j].at = "close" /\ Done(j) /\ t = Subject(j)
    BY <2>1 DEF CloseLot, ledgerVars
  <2>3. job[j].x # None \/ job[j].seen[t] \in Unclear
    BY <2>2 DEF SettleInv, JobKnows, Closable
  <2>4. job'[j].at = "next"
    BY <2>2, DoneMoves DEF SettleInv
  <2> QED
    BY <2>2, <2>3, <2>4
<1> QED
  BY <1>1, SettleInvariant, PTL DEF SettleSpec, WinnerWaitsForRedeem
-----------------------------------------------------------------------------
(* Types: what is mined, logged and closed, and that no token fails more   *)
(* often than the sweep tries it.                                          *)

Closes == {"none", "lost", "half", "won"}
TxTyped == tx \in Seq([t : Tokens \cup {None}, usd : {0, 1}])
LedgerTyped ==
  /\ held \subseteq Tokens
  /\ log \in [Tokens -> Txs \cup {None}] /\ pnl \in [ExecIds -> Closes]
Phases == {"expire", "redeem", "unsettled", "misstated", "regroup"}
FailsTyped == fails \in [Tokens -> 0 .. MaxFailures]

\* The phases a job has left, and what it goes through in the first of them.
PlanTyped(j) ==
  /\ job[j].plan \in Seq(Phases)
  /\ job[j].plan = <<>> => job[j].todo = {}
  /\ job[j].plan # <<>> /\ job[j].plan[1] # "regroup" => job[j].todo \subseteq Tokens

\* A redeem is about a token; the sweep is at one only when it may fail once more.
Redeeming(j) ==
  job[j].at \in {"send", "verify"} =>
    Subject(j) \in Tokens /\ (j = "sweep" => fails[Subject(j)] < MaxFailures)

TypedInv ==
  /\ SettleInv /\ TxTyped /\ LedgerTyped /\ FailsTyped
  /\ \A j \in Jobs : PlanTyped(j) /\ Redeeming(j)

LEMMA FirstIsOne ==
  ASSUME NEW S \in SUBSET Tokens, S # {}
  PROVE  FirstOf(S) \in S
<1>1. \E t \in S : \A u \in S : t <= u
  BY SettleAssumption, LeastNumber
<1> QED BY <1>1 DEF FirstOf

LEMMA TypedInit == SettleInit => TypedInv
<1> SUFFICES ASSUME SettleInit PROVE TypedInv
  OBVIOUS
<1>1. TxTyped /\ LedgerTyped
  BY DEF SettleInit, TxTyped, LedgerTyped, Closes
<1>2. FailsTyped
  BY SettleAssumption DEF SettleInit, FailsTyped
<1>3. ASSUME NEW j \in Jobs PROVE PlanTyped(j) /\ Redeeming(j)
  <2>1. job[j] = NoJob /\ NoJob.plan \in Seq(Phases)
    BY <1>3 DEF SettleInit, NoJob
  <2> QED BY <2>1, NoJobShape DEF PlanTyped, Redeeming
<1> QED BY <1>1, <1>2, <1>3, SettleInitInv DEF TypedInv

\* No count of failures grows.
FailsDrop == \A t \in Tokens : fails'[t] <= fails[t]

\* A job that does not move stays typed; only the sweep minds the failures.
LEMMA StandsTyped ==
  ASSUME TypedInv, FailsTyped', NEW k \in Jobs, job'[k] = job[k], k = "sweep" => FailsDrop
  PROVE  PlanTyped(k)' /\ Redeeming(k)'
<1>1. Subject(k)' = Subject(k)
  BY DEF Subject
<1>2. PlanTyped(k)'
  BY DEF TypedInv, PlanTyped
<1>3. ASSUME k = "sweep", Subject(k) \in Tokens, fails[Subject(k)] < MaxFailures
      PROVE  fails'[Subject(k)] < MaxFailures
  <2>1. fails[Subject(k)] \in 0 .. MaxFailures /\ fails'[Subject(k)] \in 0 .. MaxFailures /\ MaxFailures \in Nat
    BY <1>3, SettleAssumption DEF FailsTyped, TypedInv
  <2>2. fails'[Subject(k)] <= fails[Subject(k)]
    BY <1>3 DEF FailsDrop
  <2> QED BY <1>3, <2>1, <2>2
<1> QED BY <1>1, <1>2, <1>3 DEF TypedInv, Redeeming

\* The failures of one token are set anew.
LEMMA FailsSet ==
  ASSUME FailsTyped, NEW t, NEW n \in 0 .. MaxFailures, fails' = [fails EXCEPT ![t] = n]
  PROVE  FailsTyped' /\ (n = 0 => FailsDrop)
<1>1. MaxFailures \in Nat
  BY SettleAssumption
<1>2. \A u \in Tokens : fails'[u] = IF u = t THEN n ELSE fails[u]
  BY DEF FailsTyped
<1>3. \A u \in Tokens : fails[u] \in 0 .. MaxFailures
  BY DEF FailsTyped
<1>4. FailsTyped'
  BY DEF FailsTyped
<1>5. n = 0 => FailsDrop
  BY <1>1, <1>2, <1>3 DEF FailsDrop
<1> QED BY <1>4, <1>5

LEMMA FailsStand == ASSUME FailsTyped, UNCHANGED fails PROVE FailsTyped' /\ FailsDrop
BY SettleAssumption DEF FailsTyped, FailsDrop

LEMMA DoneTyped ==
  ASSUME TypedInv, NEW j \in Jobs, Done(j)
  PROVE  /\ PlanTyped(j)' /\ Redeeming(j)'
         /\ \A k \in Jobs : k # j => job'[k] = job[k]
<1>1. /\ job'[j].at = "next" /\ job'[j].plan = job[j].plan /\ job'[j].todo \subseteq job[j].todo
      /\ \A k \in Jobs : k # j => job'[k] = job[k]
  BY DEF TypedInv, SettleInv, JobShape, Done, JobFields
<1> QED BY <1>1 DEF TypedInv, PlanTyped, Redeeming

LEMMA GoesTyped ==
  ASSUME TypedInv, NEW j \in Jobs, NEW at, NEW x, NEW e, Goes(j, at, x, e),
         at \in {"send", "verify"} =>
           Subject(j) \in Tokens /\ (j = "sweep" => fails'[Subject(j)] < MaxFailures)
  PROVE  /\ PlanTyped(j)' /\ Redeeming(j)'
         /\ \A k \in Jobs : k # j => job'[k] = job[k]
<1>1. /\ job'[j].at = at /\ job'[j].plan = job[j].plan /\ job'[j].todo = job[j].todo
      /\ \A k \in Jobs : k # j => job'[k] = job[k]
  BY DEF TypedInv, SettleInv, JobShape, Goes, JobFields
<1>2. Subject(j)' = Subject(j)
  BY <1>1 DEF Subject
<1> QED BY <1>1, <1>2 DEF TypedInv, PlanTyped, Redeeming

\* One job moves, and the counts stand or drop, or it is the sweep itself.
LEMMA MoveTyped ==
  ASSUME TypedInv, SettleInv', TxTyped', LedgerTyped', FailsTyped', NEW j \in Jobs,
         PlanTyped(j)', Redeeming(j)', \A k \in Jobs : k # j => job'[k] = job[k],
         FailsDrop \/ j = "sweep"
  PROVE  TypedInv'
<1>1. ASSUME NEW k \in Jobs PROVE PlanTyped(k)' /\ Redeeming(k)'
  <2>1. CASE k = j
    BY <2>1
  <2>2. CASE k # j
    BY <2>2, StandsTyped
  <2> QED BY <2>1, <2>2
<1> QED BY <1>1 DEF TypedInv

\* A job that is done, or goes on to a step without a redeem, over typed books.
LEMMA QuietTyped ==
  ASSUME TypedInv, SettleInv', TxTyped', LedgerTyped', FailsTyped', FailsDrop, NEW j \in Jobs,
         \/ Done(j)
         \/ \E at, x, e : Goes(j, at, x, e) /\ at \notin {"send", "verify"}
  PROVE  TypedInv'
<1>1. CASE Done(j)
  BY <1>1, DoneTyped, MoveTyped
<1>2. ASSUME NEW at, NEW x, NEW e, Goes(j, at, x, e), at \notin {"send", "verify"} PROVE TypedInv'
  BY <1>2, GoesTyped, MoveTyped
<1> QED BY <1>1, <1>2

LEMMA BooksStand ==
  ASSUME TypedInv, UNCHANGED <<tx, held, log, pnl>> PROVE TxTyped' /\ LedgerTyped'
BY DEF TypedInv, TxTyped, LedgerTyped

\* What is mined is a transfer of a token, or of none.
LEMMA MinedTyped ==
  ASSUME TypedInv, NEW t \in Tokens \cup {None}, Mined(t), UNCHANGED <<log, pnl>>
  PROVE  TxTyped' /\ LedgerTyped'
<1> DEFINE r == [t |-> t, usd |-> IF t = None \/ (t \in held /\ market[t] = "won") THEN 1 ELSE 0]
<1>1. tx' = Append(tx, r) /\ held' = held \ {t}
  BY DEF Mined
<1>2. r \in [t : Tokens \cup {None}, usd : {0, 1}]
  OBVIOUS
<1> HIDE DEF r
<1>3. TxTyped'
  BY <1>1, <1>2 DEF TypedInv, TxTyped
<1> QED BY <1>1, <1>3 DEF TypedInv, LedgerTyped

LEMMA LoggedTyped ==
  ASSUME TypedInv, NEW t, NEW x \in 1 .. Len(tx), log' = [log EXCEPT ![t] = x], UNCHANGED <<tx, held, pnl>>
  PROVE  TxTyped' /\ LedgerTyped'
<1>1. x \in Txs
  BY SettleAssumption DEF TypedInv, SettleInv, SettleShape, Txs
<1> QED BY <1>1 DEF TypedInv, TxTyped, LedgerTyped

LEMMA ClosedTyped ==
  ASSUME TypedInv, UNCHANGED <<tx, held, log>>,
         UNCHANGED pnl \/ \E e, made : made \in Closes /\ pnl' = [pnl EXCEPT ![e] = made]
  PROVE  TxTyped' /\ LedgerTyped'
BY DEF TypedInv, TxTyped, LedgerTyped
-----------------------------------------------------------------------------
LEMMA WorldTyped ==
  ASSUME TypedInv, SettleInv', Transfer \/ \E t \in Tokens : Resolve(t)
  PROVE  TypedInv'
<1>1. UNCHANGED <<job, fails, log, pnl>>
  BY DEF Transfer, Resolve, ledgerVars
<1>2. TxTyped' /\ LedgerTyped'
  <2>1. CASE Transfer
    <3>1. PICK t \in {None} \cup {u \in held : market[u] = "won"} : Mined(t)
      BY <2>1 DEF Transfer
    <3>2. t \in Tokens \cup {None}
      BY DEF TypedInv, LedgerTyped
    <3> QED BY <1>1, <3>1, <3>2, MinedTyped
  <2>2. CASE \E t \in Tokens : Resolve(t)
    BY <2>2, BooksStand DEF Resolve, ledgerVars
  <2> QED BY <2>1, <2>2
<1>3. FailsTyped' /\ FailsDrop
  BY <1>1, FailsStand DEF TypedInv
<1> QED BY <1>1, <1>2, <1>3, StandsTyped DEF TypedInv

LEMMA PlansTyped ==
  ASSUME NEW j \in Jobs PROVE Plan[j] \in Seq(Phases) /\ Plan[j] # <<>>
<1>1. j \in {"sweep", "reconcile", "route", "page", "history"}
  BY SettleAssumption
<1>2. CASE j = "sweep"
  <2>1. Plan[j] = <<"expire", "redeem", "unsettled", "misstated", "regroup">>
    BY <1>2 DEF Plan
  <2>2. <<"expire", "redeem", "unsettled", "misstated", "regroup">> \in Seq(Phases)
    <3>1. /\ "expire" \in Phases /\ "redeem" \in Phases /\ "unsettled" \in Phases
          /\ "misstated" \in Phases /\ "regroup" \in Phases
      BY DEF Phases
    <3> QED BY <3>1
  <2> QED BY <2>1, <2>2
<1>3. CASE j \in {"reconcile", "route", "page", "history"}
  <2>1. Plan[j] \in {<<"regroup">>, <<"redeem">>, <<"expire">>}
    BY <1>3 DEF Plan
  <2>2. /\ <<"regroup">> \in Seq(Phases) /\ <<"redeem">> \in Seq(Phases)
        /\ <<"expire">> \in Seq(Phases)
    <3>1. "expire" \in Phases /\ "redeem" \in Phases /\ "regroup" \in Phases
      BY DEF Phases
    <3> QED BY <3>1
  <2>3. Plan[j] # <<>>
    BY <2>1
  <2> QED BY <2>1, <2>2, <2>3
<1> QED BY <1>1, <1>2, <1>3

LEMMA SubjectsTyped == ASSUME NEW p, p # "regroup" PROVE Subjects(p) = Tokens
BY DEF Subjects

LEMMA StartTyped ==
  ASSUME TypedInv, SettleInv', NEW j \in Jobs, StartJob(j) PROVE TypedInv'
<1>1. TxTyped' /\ LedgerTyped' /\ FailsTyped' /\ FailsDrop
  BY BooksStand, FailsStand DEF StartJob, chainVars, ledgerVars, TypedInv
<1>2. PICK T \in IF j = "route" THEN {{t} : t \in {u \in held : market[u] # "open"}}
                 ELSE {Subjects(Head(Plan[j]))} : \E seen :
        job' = [job EXCEPT ![j] = [NoJob EXCEPT !.plan = Plan[j], !.todo = T, !.seen = seen]]
  BY DEF StartJob
<1>3. /\ job'[j].at = "next" /\ job'[j].plan = Plan[j] /\ job'[j].todo = T
      /\ \A k \in Jobs : k # j => job'[k] = job[k]
  BY <1>2, NoJobShape DEF TypedInv, SettleInv, JobShape, JobFields
<1>4. Plan[j] \in Seq(Phases) /\ Plan[j] # <<>> /\ Head(Plan[j]) = Plan[j][1]
  BY PlansTyped
<1>5. Plan[j][1] # "regroup" => T \subseteq Tokens
  BY <1>4, SubjectsTyped DEF TypedInv, LedgerTyped
<1>6. PlanTyped(j)' /\ Redeeming(j)'
  BY <1>3, <1>4, <1>5 DEF PlanTyped, Redeeming
<1> QED BY <1>1, <1>3, <1>6, MoveTyped

LEMMA PhaseTyped ==
  ASSUME TypedInv, SettleInv', NEW j \in Jobs, NextPhase(j) \/ JobDies(j) PROVE TypedInv'
<1>1. TxTyped' /\ LedgerTyped' /\ FailsTyped' /\ FailsDrop
  BY BooksStand, FailsStand DEF NextPhase, JobDies, chainVars, ledgerVars, TypedInv
<1>2. CASE job' = [job EXCEPT ![j] = NoJob]
  <2>1. job'[j] = NoJob /\ \A k \in Jobs : k # j => job'[k] = job[k]
    BY <1>2 DEF TypedInv, SettleInv, JobShape
  <2>2. NoJob.plan \in Seq(Phases)
    BY NoJobShape
  <2>3. PlanTyped(j)' /\ Redeeming(j)'
    BY <2>1, <2>2, NoJobShape DEF PlanTyped, Redeeming
  <2> QED BY <1>1, <2>1, <2>3, MoveTyped
<1>3. CASE ~(job' = [job EXCEPT ![j] = NoJob])
  <2> DEFINE phases == job[j].plan
  <2>1. /\ phases # <<>> /\ job[j].at = "next" /\ Len(phases) # 1
        /\ \E seen : job' = [job EXCEPT ![j].plan = Tail(phases), ![j].todo = Subjects(phases[2]), ![j].seen = seen]
    BY <1>3 DEF NextPhase, JobDies
  <2>2. /\ job'[j].at = "next" /\ job'[j].plan = Tail(phases) /\ job'[j].todo = Subjects(phases[2])
        /\ \A k \in Jobs : k # j => job'[k] = job[k]
    BY <2>1 DEF TypedInv, SettleInv, JobShape, JobFields
  <2>3. phases \in Seq(Phases)
    BY DEF TypedInv, PlanTyped
  <2> HIDE DEF phases
  <2>4. Tail(phases) \in Seq(Phases) /\ Tail(phases) # <<>> /\ Tail(phases)[1] = phases[2]
    <3>1. Len(phases) \in Nat /\ Len(phases) # 0 /\ Len(phases) # 1
      BY <2>1, <2>3, EmptySeq
    <3>2. Len(Tail(phases)) = Len(phases) - 1 /\ Tail(phases) \in Seq(Phases)
      BY <2>1, <2>3
    <3>3. 1 \in 1 .. Len(Tail(phases))
      BY <3>1, <3>2
    <3>4. \A i \in 1 .. Len(Tail(phases)) : Tail(phases)[i] = phases[i + 1]
      BY <2>1, <2>3, HeadTailProperties
    <3>5. Tail(phases)[1] = phases[2]
      BY <3>3, <3>4
    <3>6. Tail(phases) # <<>>
      <4>1. Len(Tail(phases)) # 0
        BY <3>1, <3>2
      <4> QED BY <4>1, EmptySeq
    <3> QED BY <3>2, <3>5, <3>6
  <2>5. PlanTyped(j)' /\ Redeeming(j)'
    BY <2>2, <2>4, SubjectsTyped DEF PlanTyped, Redeeming
  <2> QED BY <1>1, <2>2, <2>5, MoveTyped
<1> QED BY <1>2, <1>3

\* The subject of a redeem is a token.
LEMMA RedeemsToken ==
  ASSUME TypedInv, NEW j \in Jobs, NEW p \in {"expire", "redeem", "unsettled", "misstated"}, At(j, p)
  PROVE  Subject(j) \in Tokens
<1>1. job[j].todo # {} /\ Head(job[j].plan) = p /\ job[j].plan # <<>> /\ job[j].plan \in Seq(Phases)
  BY DEF At, TypedInv, PlanTyped
<1>2. job[j].todo \subseteq Tokens
  BY <1>1 DEF TypedInv, PlanTyped
<1> QED BY <1>1, <1>2, FirstIsOne DEF Subject

\* A call that fails: the sweep counts it, once less than it may.
LEMMA ThrowsTyped ==
  ASSUME TypedInv, SettleInv', TxTyped', LedgerTyped', NEW j \in Jobs, Throws(j),
         Subject(j) \in Tokens, j = "sweep" => fails[Subject(j)] < MaxFailures
  PROVE  TypedInv'
<1>1. CASE j = "sweep"
  <2> DEFINE n == fails[Subject(j)] + 1
  <2>1. fails' = [fails EXCEPT ![Subject(j)] = n] /\ Done(j)
    BY <1>1 DEF Throws
  <2>2. n \in 0 .. MaxFailures
    <3>1. fails[Subject(j)] \in 0 .. MaxFailures /\ MaxFailures \in Nat
      BY SettleAssumption DEF TypedInv, FailsTyped
    <3>2. fails[Subject(j)] < MaxFailures
      BY <1>1
    <3> QED BY <3>1, <3>2
  <2> HIDE DEF n
  <2>3. FailsTyped'
    BY <2>1, <2>2, FailsSet DEF TypedInv
  <2> QED BY <1>1, <2>1, <2>3, DoneTyped, MoveTyped
<1>2. CASE j # "sweep"
  <2>1. UNCHANGED fails /\ Done(j)
    BY <1>2 DEF Throws
  <2> QED BY <2>1, FailsStand, QuietTyped DEF TypedInv
<1> QED BY <1>1, <1>2

\* The failures of a token stand, or are forgotten.
LEMMA FailsReset ==
  ASSUME TypedInv, NEW t, fails' = [fails EXCEPT ![t] = 0] \/ UNCHANGED fails
  PROVE  FailsTyped' /\ FailsDrop
<1>1. 0 \in 0 .. MaxFailures
  BY SettleAssumption
<1> QED BY <1>1, FailsSet, FailsStand DEF TypedInv

LEMMA RedeemCheckTyped ==
  ASSUME TypedInv, SettleInv', NEW j \in Jobs, RedeemCheck(j) PROVE TypedInv'
<1>1. TxTyped' /\ LedgerTyped'
  BY BooksStand DEF RedeemCheck, chainVars, ledgerVars
<1>2. Subject(j) \in Tokens
  BY RedeemsToken DEF RedeemCheck
<1>3. CASE Skips(j, Subject(j))
  BY <1>1, <1>3, FailsReset, QuietTyped DEF RedeemCheck
<1>4. CASE ~Skips(j, Subject(j))
  <2>1. j = "sweep" => fails[Subject(j)] < MaxFailures
    <3>1. fails[Subject(j)] \in 0 .. MaxFailures /\ MaxFailures \in Nat
      BY <1>2, SettleAssumption DEF TypedInv, FailsTyped
    <3>2. j = "sweep" => ~(fails[Subject(j)] >= MaxFailures)
      BY <1>4 DEF Skips
    <3> QED BY <3>1, <3>2
  <2>2. CASE Goes(j, "send", None, None) /\ UNCHANGED fails
    BY <1>1, <1>2, <2>1, <2>2, FailsStand, GoesTyped, MoveTyped DEF TypedInv
  <2>3. CASE /\ fails' = [fails EXCEPT ![Subject(j)] = 0]
             /\ Done(j) \/ Goes(j, "book", None, None)
    <3>1. FailsTyped' /\ FailsDrop
      BY <2>3, FailsReset
    <3>2. \/ Done(j)
          \/ \E at, x, e : Goes(j, at, x, e) /\ at \notin {"send", "verify"}
      BY <2>3
    <3> QED BY <1>1, <3>1, <3>2, QuietTyped
  <2>4. CASE Throws(j)
    BY <1>1, <1>2, <2>1, <2>4, ThrowsTyped
  <2> QED BY <1>4, <2>2, <2>3, <2>4 DEF RedeemCheck
<1> QED BY <1>3, <1>4

LEMMA RedeemSendTyped ==
  ASSUME TypedInv, SettleInv', NEW j \in Jobs, RedeemSend(j) PROVE TypedInv'
<1>1. UNCHANGED <<log, pnl>> /\ job[j].at = "send"
  BY DEF RedeemSend, ledgerVars
<1>2. Subject(j) \in Tokens /\ (j = "sweep" => fails[Subject(j)] < MaxFailures)
  BY <1>1 DEF TypedInv, Redeeming
<1>3. TxTyped' /\ LedgerTyped'
  <2>1. CASE Mined(Subject(j))
    BY <1>1, <1>2, <2>1, MinedTyped
  <2>2. CASE UNCHANGED <<held, tx>>
    BY <1>1, <2>2, BooksStand
  <2> QED BY <2>1, <2>2 DEF RedeemSend
<1>4. CASE Throws(j)
  BY <1>2, <1>3, <1>4, ThrowsTyped
<1>5. CASE Goes(j, "verify", Len(tx) + 1, None) /\ UNCHANGED fails
  BY <1>2, <1>3, <1>5, FailsStand, GoesTyped, MoveTyped DEF TypedInv
<1> QED BY <1>4, <1>5 DEF RedeemSend

LEMMA RedeemVerifyTyped ==
  ASSUME TypedInv, SettleInv', NEW j \in Jobs, RedeemVerify(j) PROVE TypedInv'
<1>1. UNCHANGED <<tx, held, pnl>> /\ job[j].at = "verify"
  BY DEF RedeemVerify, chainVars, ledgerVars
<1>2. Subject(j) \in Tokens /\ (j = "sweep" => fails[Subject(j)] < MaxFailures)
  BY <1>1 DEF TypedInv, Redeeming
<1>3. CASE Throws(j) /\ UNCHANGED log
  BY <1>1, <1>2, <1>3, BooksStand, ThrowsTyped
<1>4. CASE /\ log' = [log EXCEPT ![Subject(j)] = job[j].x] /\ fails' = [fails EXCEPT ![Subject(j)] = 0]
           /\ Goes(j, "book", job[j].x, None)
  <2>1. job[j].x \in 1 .. Len(tx)
    BY <1>1 DEF TypedInv, SettleInv, JobKnows
  <2>2. TxTyped' /\ LedgerTyped'
    BY <1>1, <1>4, <2>1, LoggedTyped
  <2>3. FailsTyped' /\ FailsDrop
    BY <1>4, FailsReset
  <2>4. \E at, x, e : Goes(j, at, x, e) /\ at \notin {"send", "verify"}
    BY <1>4
  <2> QED BY <2>2, <2>3, <2>4, QuietTyped
<1> QED BY <1>3, <1>4 DEF RedeemVerify

LEMMA BooksLeft ==
  ASSUME TypedInv, SettleInv', NEW j \in Jobs,
         CreateExecution(j) \/ Expire(j) \/ Book(j) \/ Misstated(j)
  PROVE  TypedInv'
<1>1. TxTyped' /\ LedgerTyped'
  BY BooksStand DEF CreateExecution, Expire, Book, Misstated, chainVars, ledgerVars
<1>2. FailsTyped' /\ FailsDrop
  BY FailsReset DEF CreateExecution, Expire, Book, Misstated
<1>3. CASE CreateExecution(j)
  BY <1>1, <1>2, <1>3, QuietTyped DEF CreateExecution
<1>4. CASE Expire(j)
  <2>1. Done(j) \/ \E at, x, e : at \in {"expired", "close"} /\ Goes(j, at, x, e)
    BY <1>4 DEF Expire
  <2> QED BY <1>1, <1>2, <2>1, QuietTyped
<1>5. CASE Book(j)
  <2>1. Done(j) \/ \E at, x, e : at \in {"redeemed", "expired", "upgrade"} /\ Goes(j, at, x, e)
    BY <1>5 DEF Book
  <2> QED BY <1>1, <1>2, <2>1, QuietTyped
<1>6. CASE Misstated(j)
  BY <1>1, <1>2, <1>6, QuietTyped DEF Misstated
<1> QED BY <1>3, <1>4, <1>5, <1>6

LEMMA UnsettledTyped ==
  ASSUME TypedInv, SettleInv', NEW j \in Jobs, Unsettled(j) PROVE TypedInv'
<1>1. UNCHANGED <<tx, held, pnl, fails>>
  BY DEF Unsettled, chainVars, ledgerVars
<1>2. Done(j) \/ \E x : Goes(j, "book", x, None)
  BY DEF Unsettled
<1>3. UNCHANGED log \/ \E x \in Found : log' = [log EXCEPT ![Subject(j)] = x]
  BY DEF Unsettled
<1>4. Found \subseteq 1 .. Len(tx)
  BY DEF Found, TypedInv, TxTyped
<1>5. TxTyped' /\ LedgerTyped'
  BY <1>1, <1>3, <1>4, BooksStand, LoggedTyped
<1> QED BY <1>1, <1>2, <1>5, FailsStand, QuietTyped DEF TypedInv

LEMMA ReviseTyped ==
  ASSUME TypedInv, NEW e, NEW key, NEW x, NEW made \in Notionals, Revise(e, key, x, made),
         UNCHANGED <<tx, held, log>>
  PROVE  TxTyped' /\ LedgerTyped'
<1>1. UNCHANGED pnl \/ pnl' = [pnl EXCEPT ![e] = made]
  BY DEF Revise
<1> QED BY <1>1, ClosedTyped DEF Notionals, Closes

LEMMA ClosingTyped ==
  ASSUME TypedInv, SettleInv', NEW j \in Jobs, CloseLot(j) \/ Upgrade(j) PROVE TypedInv'
<1>1. UNCHANGED <<tx, held, log, fails>> /\ Done(j)
  BY DEF CloseLot, Upgrade, chainVars
<1>2. TxTyped' /\ LedgerTyped'
  <2>1. CASE CloseLot(j)
    <3> DEFINE made == IF job[j].x = None THEN "lost" ELSE "won"
    <3>1. UNCHANGED pnl \/ pnl' = [pnl EXCEPT ![job[j].e] = made]
      BY <2>1 DEF CloseLot, ledgerVars
    <3>2. made \in Closes
      BY DEF Closes
    <3> HIDE DEF made
    <3> QED BY <1>1, <3>1, <3>2, ClosedTyped
  <2>2. CASE Upgrade(j)
    BY <1>1, <2>2, ReviseTyped DEF Upgrade, ApplyRedeemProceeds, Notionals
  <2> QED BY <2>1, <2>2
<1> QED BY <1>1, <1>2, FailsStand, QuietTyped DEF TypedInv

LEMMA RegroupReadTyped ==
  ASSUME TypedInv, SettleInv', NEW j \in Jobs, RegroupRead(j) PROVE TypedInv'
<1>1. TxTyped' /\ LedgerTyped' /\ FailsTyped' /\ FailsDrop
  BY BooksStand, FailsStand DEF RegroupRead, chainVars, ledgerVars, TypedInv
<1>2. CASE Done(j)
  BY <1>1, <1>2, QuietTyped
<1>3. ASSUME NEW rows, job' = [job EXCEPT ![j].at = "rewrite", ![j].rows = rows] PROVE TypedInv'
  <2>1. /\ job'[j].at = "rewrite" /\ job'[j].plan = job[j].plan /\ job'[j].todo = job[j].todo
        /\ \A k \in Jobs : k # j => job'[k] = job[k]
    BY <1>3 DEF TypedInv, SettleInv, JobShape, JobFields
  <2>2. PlanTyped(j)' /\ Redeeming(j)'
    BY <2>1 DEF TypedInv, PlanTyped, Redeeming
  <2> QED BY <1>1, <2>1, <2>2, MoveTyped
<1> QED BY <1>2, <1>3 DEF RegroupRead

LEMMA RegroupRewriteTyped ==
  ASSUME TypedInv, SettleInv', NEW j \in Jobs, RegroupRewrite(j) PROVE TypedInv'
<1>1. UNCHANGED <<tx, held, log, fails>> /\ job[j].at = "rewrite"
  BY DEF RegroupRewrite, chainVars
<1>2. FailsTyped' /\ FailsDrop
  BY <1>1, FailsStand DEF TypedInv
<1>3. CASE job[j].rows = {}
  BY <1>1, <1>2, <1>3, BooksStand, QuietTyped DEF RegroupRewrite
<1>4. CASE job[j].rows # {}
  <2>1. PICK r \in job[j].rows :
          /\ IF r[2] = "lost" THEN ApplyExpiredWorthless(r[1])
             ELSE ApplyRedeemProceeds(r[1], Subject(j), r[2])
          /\ job' = [job EXCEPT ![j].rows = job[j].rows \ {r}]
    BY <1>4 DEF RegroupRewrite
  <2>2. r[2] \in Notionals
    BY <1>1 DEF TypedInv, SettleInv, JobKnows
  <2>3. TxTyped' /\ LedgerTyped'
    BY <1>1, <2>1, <2>2, ReviseTyped DEF ApplyExpiredWorthless, ApplyRedeemProceeds, Notionals
  <2>4. /\ job'[j].at = "rewrite" /\ job'[j].plan = job[j].plan /\ job'[j].todo = job[j].todo
        /\ \A k \in Jobs : k # j => job'[k] = job[k]
    BY <1>1, <2>1 DEF TypedInv, SettleInv, JobShape, JobFields
  <2>5. PlanTyped(j)' /\ Redeeming(j)'
    BY <2>4 DEF TypedInv, PlanTyped, Redeeming
  <2> QED BY <1>2, <2>3, <2>4, <2>5, MoveTyped
<1> QED BY <1>3, <1>4

LEMMA TypedNext == TypedInv /\ [SettleNext]_settleVars => TypedInv'
<1> SUFFICES ASSUME TypedInv, [SettleNext]_settleVars PROVE TypedInv'
  OBVIOUS
<1>1. SettleInv'
  BY SettleNextInv DEF TypedInv
<1>2. CASE Transfer \/ \E t \in Tokens : Resolve(t)
  BY <1>1, <1>2, WorldTyped
<1>3. ASSUME NEW j \in Jobs, StartJob(j) \/ JobStep(j) \/ JobDies(j) PROVE TypedInv'
  BY <1>1, <1>3, StartTyped, PhaseTyped, RedeemCheckTyped, RedeemSendTyped, RedeemVerifyTyped, BooksLeft,
     UnsettledTyped, ClosingTyped, RegroupReadTyped, RegroupRewriteTyped DEF JobStep
<1>4. CASE UNCHANGED settleVars
  <2>1. UNCHANGED <<tx, held, log, pnl, fails, job>>
    BY <1>4 DEF settleVars
  <2>2. TxTyped' /\ LedgerTyped' /\ FailsTyped' /\ FailsDrop
    BY <2>1, BooksStand, FailsStand DEF TypedInv
  <2> QED BY <1>1, <2>1, <2>2, StandsTyped DEF TypedInv
<1> QED BY <1>2, <1>3, <1>4 DEF SettleNext

\* Transactions, log rows, executions and closes keep their types, whichever jobs run beside each
\* other and die; and the sweep, the only one that counts, leaves a token alone once it has failed
\* AUTO_REDEEM_MAX_FAILURES times (recordAutoRedeemFailure, shouldSkipAutoRedeemForFailures).
THEOREM SettleTyped == SettleSpec => []SettleTypeOK
<1>1. TypedInv => SettleTypeOK
  BY DEF TypedInv, SettleInv, SettleShape, TxTyped, LedgerTyped, FailsTyped, SettleTypeOK, Closes,
         Executions, Notionals
<1> QED BY <1>1, TypedInit, TypedNext, PTL DEF SettleSpec
=============================================================================

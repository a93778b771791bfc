--------------------------- MODULE CopySettlement ---------------------------
(***************************************************************************)
(* Redeems and worthless settlements of one follower's copied positions.   *)
(* Each token is a condition of its own with one share bought at half its  *)
(* value; the jobs are the redeem sweep, the reconcile sweep, the manual   *)
(* redeem route, the positions page and the executions page, each acting   *)
(* on the list of positions it fetched when it started, which may leave a  *)
(* position out.  What several consumers do to one lot is CopyLots; here a *)
(* lot is open or closed, and the executions, the redeem log, the          *)
(* attributed transactions and the PnL events matter.                      *)
(***************************************************************************)
EXTENDS Integers, FiniteSets, Sequences

CONSTANTS
    Tokens,       \* outcome tokens
    Jobs,         \* jobs that run: among sweep, reconcile, route, page, history
    MaxTx,        \* transactions that move USDC to the deposit address (bound)
    MaxExec,      \* executions created (bound)
    MaxRuns,      \* runs of each job but the redeem sweep (bound)
    MaxFaults,    \* crashes of a job, and lists that do not tell of a position (bound)
    MaxFailures,  \* AUTO_REDEEM_MAX_FAILURES
    None

ASSUME SettleAssumption ==
    /\ MaxTx \in Nat /\ MaxExec \in Nat /\ MaxRuns \in Nat /\ MaxFaults \in Nat /\ MaxFailures \in Nat
    /\ None \notin 1 .. MaxTx
    /\ Tokens \subseteq Nat  \* a job treats them in an order
    /\ Jobs \subseteq {"sweep", "reconcile", "route", "page", "history"}

Txs == 1 .. MaxTx
ExecIds == 1 .. MaxExec

VARIABLES
    market,  \* open, won or lost, per token
    held,    \* tokens whose share is still held on chain
    tx,      \* mined transfers: what each redeemed (None: a deposit) and paid
    lot,     \* tokens with an open lot
    log,     \* PolymarketRedeemLog: token -> transaction
    fails,   \* PolymarketRedeemAttemptState: token -> consecutive failures
    exec,    \* CopyExecutions: token, kind (redeem, expired), transaction, notional
    pnl,     \* what the closes of each execution made: none, lost, half or won
    events,  \* keys of the UserCopyPnlEvents recorded
    daily,   \* sum of UserCopyPnlDaily
    job,     \* what each job is doing
    runs,    \* runs of each job
    faults   \* crashes and unclear lists so far

settleVars == <<market, held, tx, lot, log, fails, exec, pnl, events, daily, job, runs, faults>>
ledgerVars == <<lot, pnl, events, daily>>
chainVars == <<market, held, tx>>
countVars == <<runs, faults>>

\* A share that cost 1 is closed at 0, at half its payout of 2, or at 2.
Made(p) == CASE p = "lost" -> -1 [] p = "won" -> 1 [] OTHER -> 0

\* Mutant: the sweep leaves its last call to the reconcile sweep.
PlanCut == [sweep |-> <<"expire", "redeem", "unsettled", "misstated">>,
            reconcile |-> <<"regroup">>, route |-> <<"redeem">>,
            page |-> <<"expire">>, history |-> <<"expire">>]

\* The calls of each job, in their order.
Plan == [sweep |-> <<"expire", "redeem", "unsettled", "misstated", "regroup">>,
         reconcile |-> <<"regroup">>, route |-> <<"redeem">>,
         page |-> <<"expire">>, history |-> <<"expire">>]
NoJob == [plan |-> <<>>, todo |-> {}, seen |-> None, at |-> "next", x |-> None, e |-> None,
          rows |-> {}]

SettleInit ==
    /\ market = [t \in Tokens |-> "open"]
    /\ held = Tokens /\ lot = Tokens
    /\ tx = <<>>
    /\ log = [t \in Tokens |-> None]
    /\ fails = [t \in Tokens |-> 0]
    /\ exec = <<>>
    /\ pnl = [e \in ExecIds |-> "none"]
    /\ events = {} /\ daily = 0
    /\ job = [j \in Jobs |-> NoJob]
    /\ runs = [j \in Jobs |-> 0] /\ faults = 0

Of(t, kind) == {e \in DOMAIN exec : exec[e].t = t /\ exec[e].kind = kind}
Redeems == {e \in DOMAIN exec : exec[e].kind = "redeem"}
Attributed(x, except) == \E e \in DOMAIN exec \ {except} : exec[e].x = x
Paid(x) == tx[x].usd > 0
Goes(j, at, x, e) == job' = [job EXCEPT ![j].at = at, ![j].x = x, ![j].e = e]

\* A job is about to treat the next subject of its phase, in the order of its list ...
FirstOf(S) == CHOOSE t \in S : \A u \in S : t <= u
Subject(j) == FirstOf(job[j].todo)
At(j, phase) == job[j].at = "next" /\ job[j].todo # {} /\ Head(job[j].plan) = phase

\* ... or is done with it.
Done(j) == job' = [job EXCEPT ![j].at = "next", ![j].todo = @ \ {Subject(j)},
                              ![j].x = None, ![j].e = None, ![j].rows = {}]

-----------------------------------------------------------------------------
(* The world: markets resolve, USDC arrives, Polymarket redeems by itself. *)

Resolve(t) ==
    /\ market[t] = "open"
    /\ \E r \in {"won", "lost"} : market' = [market EXCEPT ![t] = r]
    /\ UNCHANGED <<held, tx, log, fails, exec, job, ledgerVars, countVars>>

\* Mined t: a transfer, which is the redeem of t unless t is None.
Mined(t) ==
    /\ Len(tx) < MaxTx
    /\ tx' = Append(tx, [t |-> t, usd |-> IF t = None \/ (t \in held /\ market[t] = "won") THEN 1 ELSE 0])
    /\ held' = held \ {t}

Transfer ==
    /\ \E t \in {None} \cup {u \in held : market[u] = "won"} : Mined(t)
    /\ UNCHANGED <<market, log, fails, exec, job, ledgerVars, countVars>>

-----------------------------------------------------------------------------
(* A job goes through its phases, in each through its tokens; the phase    *)
(* regroup goes through the transactions of the redeem executions.         *)

Subjects(phase) == IF phase = "regroup" THEN {exec[e].x : e \in Redeems} ELSE Tokens

\* How the Data API may list a held token (a list that lags is that of a job which
\* started before): at a price near zero before it is redeemable, whatever it pays, or
\* not at all.
Unclear == {"zero", "missing"}
Lists(j, T) == [t \in Tokens |-> IF t \in held \cap T /\ j \notin {"reconcile", "history"}
                                 THEN market[t] ELSE "missing"]
Seen(j, T) == {s \in [Tokens -> Unclear \cup {"open", "won", "lost"}] :
                 \A t \in Tokens : \/ s[t] = Lists(j, T)[t]
                                   \/ s[t] = "missing"
                                   \/ s[t] = "zero" /\ Lists(j, T)[t] \in {"open", "won"}}

StartJob(j) ==
    /\ job[j] = NoJob
    /\ IF j = "sweep" THEN UNCHANGED runs
       ELSE runs[j] < MaxRuns /\ runs' = [runs EXCEPT ![j] = @ + 1]
    /\ \E T \in IF j = "route" THEN {{t} : t \in {u \in held : market[u] # "open"}}
                 ELSE {Subjects(Head(Plan[j]))} : \E seen \in Seen(j, T) :
          /\ job' = [job EXCEPT ![j] = [NoJob EXCEPT !.plan = Plan[j], !.todo = T, !.seen = seen]]
          /\ faults' = IF seen = Lists(j, T) THEN faults ELSE faults + 1
          /\ faults' <= MaxFaults
    /\ UNCHANGED <<chainVars, log, fails, exec, ledgerVars>>

\* After the worthless positions the list is asked for the winners, then for nothing.
NextPhase(j) ==
    LET phases == job[j].plan
        seen == [t \in Tokens |-> IF phases[2] = "redeem" /\ job[j].seen[t] = "won" THEN "won" ELSE "missing"] IN
    /\ phases # <<>> /\ job[j].at = "next" /\ job[j].todo = {}
    /\ job' = IF Len(phases) = 1 THEN [job EXCEPT ![j] = NoJob]
              ELSE [job EXCEPT ![j].plan = Tail(phases), ![j].todo = Subjects(phases[2]),
                                 ![j].seen = seen]
    /\ UNCHANGED <<chainVars, log, fails, exec, ledgerVars, countVars>>

\* The process dies between two steps; the next run starts over.
JobDies(j) ==
    /\ job[j] # NoJob /\ faults < MaxFaults
    /\ job' = [job EXCEPT ![j] = NoJob]
    /\ faults' = faults + 1
    /\ UNCHANGED <<chainVars, log, fails, exec, ledgerVars, runs>>

-----------------------------------------------------------------------------
(* Executions, their closes and the PnL events.                            *)

\* The execution of a settlement is created, its lots are consumed after.
CreateExecution(j) ==
    /\ job[j].at \in {"expired", "redeemed"}
    /\ Len(exec) < MaxExec
    /\ exec' = Append(exec, IF job[j].at = "expired"
                            THEN [t |-> Subject(j), kind |-> "expired", x |-> None, notional |-> "lost"]
                            ELSE [t |-> Subject(j), kind |-> "redeem", x |-> job[j].x, notional |-> "won"])
    /\ Goes(j, "close", job[j].x, Len(exec) + 1)
    /\ UNCHANGED <<chainVars, log, fails, ledgerVars, countVars>>

\* consumeOpenCopyLotsForManualSell under execution e, at the price the caller has.
CloseLot(j) ==
    LET t == Subject(j)
        e == job[j].e
        made == IF job[j].x = None THEN "lost" ELSE "won" IN
    /\ job[j].at = "close"
    /\ IF t \in lot
       THEN /\ lot' = lot \ {t}
            /\ pnl' = [pnl EXCEPT ![e] = made]
            /\ events' = events \cup {<<"close", None, e, "none", made>>}
            /\ daily' = daily + Made(made)
       ELSE UNCHANGED ledgerVars
    /\ Done(j)
    /\ UNCHANGED <<chainVars, log, fails, exec, countVars>>

\* Closes are revised under their row lock; an event whose key exists adds nothing.
Revise(e, key, x, made) ==
    LET k == <<key, x, e, pnl[e], made>> IN
    IF pnl[e] \in {"none", made} THEN UNCHANGED <<pnl, events, daily>>
    ELSE /\ pnl' = [pnl EXCEPT ![e] = made]
         /\ events' = events \cup {k}
         /\ daily' = IF k \in events THEN daily ELSE daily + Made(made) - Made(pnl[e])

ApplyExpiredWorthless(e) ==
    /\ Revise(e, "expired", None, "lost")
    /\ exec' = [exec EXCEPT ![e] = [@ EXCEPT !.kind = "expired", !.x = None, !.notional = "lost"]]

ApplyRedeemProceeds(e, x, made) ==
    /\ Revise(e, "redeem", x, made)
    /\ exec' = [exec EXCEPT ![e] = [@ EXCEPT !.kind = "redeem", !.x = x, !.notional = made]]

Upgrade(j) ==
    /\ job[j].at = "upgrade"
    /\ ApplyRedeemProceeds(job[j].e, job[j].x, "won")
    /\ Done(j)
    /\ UNCHANGED <<chainVars, log, fails, lot, countVars>>

-----------------------------------------------------------------------------
(* autoSettleExpiredWorthlessPositions and its repair                      *)

\* Mutant: a listed winner is worthless too.
WorthlessWinner(j, t) == job[j].seen[t] # "open"

\* canAutoSettleTokenNow: a listed winner waits for its redeem.
Worthless(j, t) == job[j].seen[t] \notin {"open", "won"}

\* A listed condition with a log is skipped, but by the repair at the end of the call,
\* all that the page of executions calls; and a lot that is too young is: for a position
\* that is listed as lost that is minutes, for one that is left out hours.
Expire(j) ==
    LET t == Subject(j) IN
    /\ At(j, "expire")
    /\ fails' = IF job[j].seen[t] = "lost" THEN [fails EXCEPT ![t] = 0] ELSE fails
    /\ \/ Done(j)
       \/ /\ t \in lot /\ Worthless(j, t)
          /\ \/ \E e \in Of(t, "expired") : Goes(j, "close", None, e)
             \/ /\ j # "history" /\ Of(t, "expired") = {} /\ (job[j].seen[t] = "missing" \/ log[t] = None)
                /\ Goes(j, "expired", None, None)
    /\ UNCHANGED <<chainVars, log, exec, ledgerVars, countVars>>

-----------------------------------------------------------------------------
(* redeemIfLoggedOrSkip, called by the sweep and by the route.             *)

\* The sweep counts a failure, the route answers with an error.
Throws(j) ==
    /\ fails' = IF j = "sweep" THEN [fails EXCEPT ![Subject(j)] = @ + 1] ELSE fails
    /\ Done(j)

\* Mutant: one failure more.
SkipsLate(j, t) == j = "sweep" /\ (job[j].seen[t] # "won" \/ fails[t] > MaxFailures)

\* The sweep redeems listed winners that have not failed too often.
Skips(j, t) == j = "sweep" /\ (job[j].seen[t] # "won" \/ fails[t] >= MaxFailures)

RedeemCheck(j) ==
    LET t == Subject(j) IN
    /\ At(j, "redeem")
    /\ IF Skips(j, t)
       THEN /\ fails' = IF job[j].seen[t] = "lost" THEN [fails EXCEPT ![t] = 0] ELSE fails
            /\ Done(j)
       ELSE IF log[t] = None THEN Goes(j, "send", None, None) /\ UNCHANGED fails
       ELSE \/ /\ fails' = [fails EXCEPT ![t] = 0]
               /\ IF j = "route" /\ job[j].seen[t] = "won" THEN Done(j)
                  ELSE Goes(j, "book", None, None)
            \/ Throws(j)
    /\ UNCHANGED <<chainVars, log, exec, ledgerVars, countVars>>

\* The relayer mines the redeem; it pays if the winner's share is still there.  The
\* answer may be lost, or the call rejected before anything is mined.
RedeemSend(j) ==
    /\ job[j].at = "send"
    /\ \/ Mined(Subject(j)) /\ Goes(j, "verify", Len(tx) + 1, None) /\ UNCHANGED fails
       \/ Mined(Subject(j)) /\ Throws(j)
       \/ Throws(j) /\ UNCHANGED <<held, tx>>
    /\ UNCHANGED <<market, log, exec, ledgerVars, countVars>>

\* Mutant: what was mined is logged, paid or not.
RedeemVerifyUnpaid(j) ==
    LET t == Subject(j) IN
    /\ job[j].at = "verify"
    /\ log[t] = None
    /\ log' = [log EXCEPT ![t] = job[j].x]
    /\ fails' = [fails EXCEPT ![t] = 0]
    /\ Goes(j, "book", job[j].x, None)
    /\ UNCHANGED <<chainVars, exec, ledgerVars, countVars>>

\* Only proceeds confirmed by the receipt are logged; the log takes one row a condition.
RedeemVerify(j) ==
    LET t == Subject(j)
        x == job[j].x IN
    /\ job[j].at = "verify"
    /\ \/ /\ Paid(x) /\ log[t] = None
          /\ log' = [log EXCEPT ![t] = x]
          /\ fails' = [fails EXCEPT ![t] = 0]
          /\ Goes(j, "book", x, None)
       \/ Throws(j) /\ UNCHANGED log
    /\ UNCHANGED <<chainVars, exec, ledgerVars, countVars>>

\* recordResolvedRedeemExecutionIfMissing, up to its first write.
Book(j) ==
    LET t == Subject(j)
        x == IF job[j].x = None THEN log[t] ELSE job[j].x IN
    /\ job[j].at = "book"
    /\ \/ Done(j)  \* the receipt cannot be read
       \/ /\ Of(t, "redeem") = {} /\ x # None
          /\ t \in lot \/ Of(t, "expired") # {}
          /\ \/ /\ Of(t, "expired") = {} /\ ~Attributed(x, None)
                /\ Goes(j, IF Paid(x) THEN "redeemed" ELSE "expired", IF Paid(x) THEN x ELSE None, None)
             \/ \E e \in Of(t, "expired") :
                   Paid(x) /\ ~Attributed(x, e) /\ Goes(j, "upgrade", x, e)
    /\ UNCHANGED <<chainVars, log, fails, exec, ledgerVars, countVars>>

-----------------------------------------------------------------------------
(* The reconciliations of the sweeps.                                      *)

\* reconcileUnsettledOpenCopyLotsForUser: the transaction of an open lot with no redeem
\* execution is the logged one, or the latest transfer of the amount of the lot
\* that is neither attributed nor logged.
Found == {x \in DOMAIN tx : /\ Paid(x) /\ ~Attributed(x, None)
                            /\ \A t \in Tokens : log[t] # x}
Unsettled(j) ==
    LET t == Subject(j)
        found == {x \in Found : \A y \in Found : y <= x} IN
    /\ At(j, "unsettled")
    /\ IF t \notin lot \/ Of(t, "redeem") # {} THEN Done(j) /\ UNCHANGED log
       ELSE IF log[t] # None /\ ~Attributed(log[t], None)
       THEN Goes(j, "book", log[t], None) /\ UNCHANGED log
       ELSE IF found = {} THEN Goes(j, "book", None, None) /\ UNCHANGED log
       ELSE \E x \in found : /\ Goes(j, "book", x, None)
                              /\ log' = IF log[t] = None THEN [log EXCEPT ![t] = x] ELSE log
    /\ UNCHANGED <<chainVars, fails, exec, ledgerVars, countVars>>

\* reconcileMisstatedExpiredExecutionsForUser: an expired execution whose condition has
\* a log that paid and that no other execution has becomes a redeem.
Misstated(j) ==
    LET x == log[Subject(j)] IN
    /\ At(j, "misstated")
    /\ \/ Done(j)
       \/ /\ x # None /\ Paid(x)
          /\ \E e \in Of(Subject(j), "expired") :
                ~Attributed(x, e) /\ Goes(j, "upgrade", x, e)
    /\ UNCHANGED <<chainVars, log, fails, exec, ledgerVars, countVars>>

\* reconcileRedeemTxGroup: of several executions with one transaction, those of the
\* condition it is logged under keep it; with no such log none does.
Keeps(x) ==
    LET group == {e \in Redeems : exec[e].x = x}
        logged == {t \in Tokens : log[t] = x} IN
    IF Cardinality(group) <= 1 THEN {group}
    ELSE IF logged = {} THEN {{}}
    ELSE {{e \in group : exec[e].t = t} : t \in logged}

RegroupRead(j) ==
    LET x == Subject(j)
        group == {e \in Redeems : exec[e].x = x}
        gets(e, keep) == IF e \notin keep THEN "lost"
                         ELSE IF Cardinality(keep) = 1 THEN "won" ELSE "half" IN
    /\ At(j, "regroup")
    /\ IF group = {} THEN Done(j)
       ELSE \E keep \in Keeps(x) :
              job' = [job EXCEPT ![j].at = "rewrite",
                                 ![j].rows = {<<e, gets(e, keep)>> :
                                     e \in {f \in group : gets(f, keep) # exec[f].notional}}]
    /\ UNCHANGED <<chainVars, log, fails, exec, ledgerVars, countVars>>

\* Each row in a transaction of its own: dropped to expired, or given its share of the
\* proceeds, which differed from what it had when it was read.
RegroupRewrite(j) ==
    /\ job[j].at = "rewrite"
    /\ IF job[j].rows = {} THEN Done(j) /\ UNCHANGED <<exec, pnl, events, daily>>
       ELSE \E r \in job[j].rows :
              /\ IF r[2] = "lost" THEN ApplyExpiredWorthless(r[1])
                 ELSE ApplyRedeemProceeds(r[1], Subject(j), r[2])
              /\ job' = [job EXCEPT ![j].rows = @ \ {r}]
    /\ UNCHANGED <<chainVars, log, fails, lot, countVars>>

-----------------------------------------------------------------------------
JobStep(j) ==
    \/ NextPhase(j) \/ CreateExecution(j) \/ CloseLot(j) \/ Upgrade(j)
    \/ Expire(j) \/ RedeemCheck(j) \/ RedeemSend(j) \/ RedeemVerify(j) \/ Book(j)
    \/ Unsettled(j) \/ Misstated(j) \/ RegroupRead(j) \/ RegroupRewrite(j)

SettleNext ==
    \/ Transfer
    \/ \E t \in Tokens : Resolve(t)
    \/ \E j \in Jobs : StartJob(j) \/ JobStep(j) \/ JobDies(j)

SettleSpec == SettleInit /\ [][SettleNext]_settleVars
SettleFairSpec == SettleSpec /\ WF_settleVars(StartJob("sweep") \/ JobStep("sweep"))

-----------------------------------------------------------------------------
SettleTypeOK ==
    /\ market \in [Tokens -> {"open", "won", "lost"}]
    /\ held \subseteq Tokens /\ lot \subseteq Tokens
    /\ tx \in Seq([t : Tokens \cup {None}, usd : {0, 1}])
    /\ log \in [Tokens -> Txs \cup {None}]
    /\ fails \in [Tokens -> 0 .. MaxFailures]
    /\ exec \in Seq([t : Tokens, kind : {"expired", "redeem"}, x : Txs \cup {None},
                     notional : {"lost", "half", "won"}])
    /\ pnl \in [ExecIds -> {"none", "lost", "half", "won"}]

\* Whatever is discovered, upgraded or regrouped, an execution says redeem only with
\* a transaction that paid, and a log names one that did ("never as estimated").
RedeemPaid ==
    /\ \A e \in Redeems : exec[e].x # None /\ Paid(exec[e].x)
    /\ \A t \in Tokens : log[t] # None => Paid(log[t])

\* canAutoSettleTokenNow keeps a winner for its redeem: its lot is not closed as
\* worthless while the share can be redeemed, however old the list of a job is, unless
\* the list left it out or had it near zero.
WinnerWaitsForRedeem ==
    [][\A t \in lot \ lot' : market[t] = "won" /\ t \in held =>
          \E j \in Jobs : /\ job[j].at = "close" /\ job'[j].at = "next"
                          /\ job[j].x # None \/ job[j].seen[t] \in Unclear]_settleVars

\* The comment of autoSettleExpiredWorthlessPositions: a position that is missing from
\* the response of the Data API is never taken for flat, so no lot of a live position
\* is closed without proceeds by a job whose list left it out.
MissingIsNotFlat ==
    [][\A t \in lot \ lot', j \in Jobs :
          t \in held /\ market[t] # "lost" /\ job[j].at = "close" /\ job'[j].at = "next" /\ t = Subject(j)
            => job[j].x # None \/ job[j].seen[t] # "missing"]_settleVars

\* A transaction two conditions are booked with is taken from one of them in the end,
\* although sweeps start over after a crash and book while others repair.
SharedTx == \E e, f \in Redeems : exec[e].x = exec[f].x /\ exec[e].t # exec[f].t
SharedTxRepaired == []<>~SharedTx

\* The comment of recordCopyPnlEventInTx: each revision of a close adds its delta to
\* the daily ledger exactly once, so that the ledger is what the closes made.
DailyExact ==
    LET made[i \in 0 .. MaxExec] == IF i = 0 THEN 0 ELSE made[i - 1] + Made(pnl[i])
    IN  daily = made[MaxExec]
=============================================================================

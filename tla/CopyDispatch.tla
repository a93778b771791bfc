---------------------------- MODULE CopyDispatch ----------------------------
(***************************************************************************)
(* The real-money copy pipeline: a leader trade arrives as a signal, is    *)
(* announced over NATS (at most once), and is dispatched by the copy       *)
(* worker or, when the announcement fails, by the API process.  A dispatch *)
(* fans the trade out into one CopyTradeRow per subscription and runs one  *)
(* task per queued row; the task claims the row, places an order with the  *)
(* exchange and records the outcome.  A replay loop, a retry sweep and a   *)
(* stale-row reset bring back what was lost or failed.                     *)
(*                                                                         *)
(* One step is what happens between two awaits that another process or     *)
(* another task can see.  Sizes, prices and position lots are abstracted:  *)
(* the choices that depend on them are left open.                          *)
(***************************************************************************)
EXTENDS Integers, FiniteSets

CONSTANTS
  Trades,             \* LeaderTrade ids, unique per (leaderAddress, txHash, logIndex)
  Subs,               \* the CopySubscriptions of the leader
  Users,              \* followers
  UserOf,             \* UserOf[s]: the follower a subscription belongs to
  Side,               \* Side[t]: "BUY" or "SELL"
  ApiSlots,           \* dispatches the API process can have under way
  WorkerSlots,        \* dispatches the copy worker can have under way
  MaxRetries,         \* CONFIG.copyMaxRetries
  VirtualFollowers,   \* the leader has virtual subscriptions too
  MaxSignals,         \* bound: signals received
  MaxCrashes,         \* bound: process crashes and dispatches that throw
  MaxChanges,         \* bound: changes of subscriptions, warnings and the leader
  MaxReads,           \* bound: executions pages that reset stale rows
  MaxOld              \* bound: trades that outlive the lookback of the replay

ASSUME SetsAssumption == /\ IsFiniteSet(ApiSlots) /\ IsFiniteSet(WorkerSlots)
                         /\ ApiSlots \cap WorkerSlots = {}
                         /\ Trades # {}
ASSUME MapsAssumption == UserOf \in [Subs -> Users] /\ Side \in [Trades -> {"BUY", "SELL"}]
ASSUME RetriesAssumption == MaxRetries \in Nat \ {0}
ASSUME BoundsAssumption == /\ MaxSignals \in Nat /\ MaxCrashes \in Nat
                           /\ MaxChanges \in Nat /\ MaxReads \in Nat /\ MaxOld \in Nat

VARIABLES
  lt,        \* lt[t]: "absent", "open" (processed = false) or "processed"
  row,       \* row[<<t, s>>]: the CopyTradeRow, st = "none" when there is none
  sub,       \* sub[s]: [mode, warn]
  leaderOn,  \* CopyLeader.enabled
  nats,      \* nats[t]: copy.trading messages on their way to the worker
  disp,      \* disp[d]: the dispatch in slot d
  task,      \* task[d][s]: the row task of subscription s in dispatch d
  old,       \* stored trades created before the lookback of the replay
  repair,    \* rows an executions page read as failed and is about to repair
  execs,     \* history: orders the exchange executed for a (trade, subscription)
  reopened,  \* history: times it became orderable again (see Recount)
  used       \* how much of each bound is used

vars == <<lt, old, row, sub, leaderOn, nats, disp, task, repair, execs, reopened, used>>

Slots == ApiSlots \cup WorkerSlots
Keys == Trades \X Subs
Retryable == {"transient", "stale_submitting", "clob_partial_fill", "ignored_no_position_sell"}
Codes == Retryable \cup {"", "buy_funding"}
RowStates == {"none", "queued", "submitting", "filled", "failed", "dead", "skipped"}
Row == [st: RowStates, code: Codes, rc: Nat, aged: BOOLEAN, id: Nat]
TaskPcs == {"idle", "delay", "live", "prep", "lock", "post", "sent", "record",
            "settle", "catch", "threw", "done"}
Task == [pc: TaskPcs, rc: Nat, id: Nat, warned: BOOLEAN, own: BOOLEAN, ex: BOOLEAN,
         resp: {"none", "unfilled", "partial", "ok"}]
DispPcs == {"idle", "sweep", "wait", "resolve", "fanout", "read", "run", "close", "orphan"}
Disp == [pc: DispPcs, t: Trades, open: SUBSET Subs, blocked: SUBSET Subs,
         elig: SUBSET (Subs \X Nat)]
Warnings == {"funds", "gas"}

NoRow == [st |-> "none", code |-> "", rc |-> 0, aged |-> FALSE, id |-> 0]
NoTask == [pc |-> "idle", rc |-> 0, id |-> 0, warned |-> FALSE, own |-> FALSE,
           ex |-> FALSE, resp |-> "none"]
NoDisp == [pc |-> "idle", t |-> CHOOSE t \in Trades : TRUE, open |-> {}, blocked |-> {},
           elig |-> {}]

Proc(d) == IF d \in ApiSlots THEN "api" ELSE "worker"
RowsOf(t) == {k \in Keys : k[1] = t /\ row[k].st # "none"}
Pending(t) == {k \in RowsOf(t) : row[k].st \in {"queued", "submitting"}}

\* The row with this id still exists: an update({id}) of it does not throw.
Alive(k, id) == row[k].st # "none" /\ row[k].id = id

\* A failed row the sweep may put back.
Sweepable(r) == r.st = "failed" /\ r.code \in Retryable /\ r.rc < MaxRetries

\* Nothing holds the row back from being ordered: it is there to claim, to
\* requeue or to create.
Orderable(r) == r.st \in {"none", "queued"} \/ Sweepable(r)

\* Subscriptions a dispatch of t may serve.
Eligible(t) ==
  {s \in Subs : sub[s].mode = "on" \/ (Side[t] = "SELL" /\ sub[s].mode = "paused")}

(***************************************************************************)
(* History.  reopened[k] counts the times a stale reset, or a task that    *)
(* did not hold an unexecuted claim (k \notin returned), made k orderable  *)
(* again.  No other step may do so without being counted.                  *)
(***************************************************************************)
Recount(returned) ==
  reopened' = [k \in Keys |->
    IF k \notin returned /\ ~Orderable(row[k]) /\ Orderable(row'[k])
    THEN reopened[k] + 1 ELSE reopened[k]]

Spend(what) == used' = [used EXCEPT ![what] = @ + 1]

Init ==
  /\ lt = [t \in Trades |-> "absent"]
  /\ old = {}
  /\ row = [k \in Keys |-> NoRow]
  /\ sub \in [Subs -> [mode: {"on"}, warn: {"none", "funds"}]]
  /\ leaderOn = TRUE
  /\ nats = [t \in Trades |-> 0]
  /\ disp = [d \in Slots |-> NoDisp]
  /\ task = [d \in Slots |-> [s \in Subs |-> NoTask]]
  /\ repair = {}
  /\ execs = [k \in Keys |-> 0]
  /\ reopened = [k \in Keys |-> 0]
  /\ used = [signals |-> 0, crashes |-> 0, changes |-> 0, reads |-> 0]

-----------------------------------------------------------------------------
(* Signals and the announcement of a trade *)

\* shouldRedispatchLeaderTrade: what a duplicate signal or the replay asks.
ShouldRedispatch(t) ==
  IF RowsOf(t) = {}
  THEN (lt[t] = "open" \/ Side[t] = "SELL") /\ Eligible(t) # {}
  ELSE \E k \in RowsOf(t) :
         \/ row[k].st = "queued"
         \/ row[k].st = "submitting" /\ row[k].aged
         \/ Sweepable(row[k])

\* dispatchLeaderTrade: the dispatch queues behind the lock of its trade.
Enter(d, t) ==
  /\ disp[d].pc = "idle"
  /\ disp' = [disp EXCEPT ![d] = [NoDisp EXCEPT !.pc = "wait", !.t = t]]

\* publishCopyTradingDispatch, or the direct dispatch when it fails.
Announce(t) ==
  \/ nats' = [nats EXCEPT ![t] = @ + 1] /\ UNCHANGED disp
  \/ \E d \in ApiSlots : Enter(d, t) /\ UNCHANGED nats

\* POST /leader-signal.  A trade that is known (found, or lost the race on
\* the unique key) is announced again only if ShouldRedispatch.
Signal(t) ==
  /\ used.signals < MaxSignals
  /\ leaderOn
  /\ VirtualFollowers \/ \E s \in Subs : sub[s].mode = "on"
  /\ \/ lt[t] = "absent" /\ lt' = [lt EXCEPT ![t] = "open"]
     \/ lt[t] # "absent" /\ ShouldRedispatch(t) /\ UNCHANGED lt
  /\ Announce(t)
  /\ Spend("signals")
  /\ UNCHANGED <<old, row, sub, leaderOn, task, execs, reopened, repair>>

\* The subscriber takes a message and dispatches its trade.
Deliver(t, d) ==
  /\ nats[t] > 0
  /\ Enter(d, t)
  /\ nats' = [nats EXCEPT ![t] = @ - 1]
  /\ UNCHANGED <<lt, old, row, sub, leaderOn, task, execs, reopened, used, repair>>

\* Mutant: a message is dropped that is not there.
LoseUnguarded(t) ==
  /\ nats' = [nats EXCEPT ![t] = @ - 1]
  /\ UNCHANGED <<lt, old, row, sub, leaderOn, disp, task, execs, reopened, used, repair>>

\* Not subscribed, session aborted, stopping, or the local queue full.
Lose(t) ==
  /\ nats[t] > 0
  /\ nats' = [nats EXCEPT ![t] = @ - 1]
  /\ UNCHANGED <<lt, old, row, sub, leaderOn, disp, task, execs, reopened, used, repair>>

-----------------------------------------------------------------------------
(* The loops of the copy worker *)

\* replayUnprocessedLeaderTrades for one candidate: a trade created within
\* the lookback.  The list of candidates was read before, so any such trade
\* can be on it; the decision is taken here, the dispatch runs when it gets
\* the lock.
Replay(t, d) ==
  /\ lt[t] # "absent" /\ t \notin old
  /\ lt[t] = "open" \/ ShouldRedispatch(t)
  /\ Enter(d, t)
  /\ UNCHANGED <<lt, old, row, sub, leaderOn, nats, task, execs, reopened, used, repair>>

\* archiveExpiredNoRowLeaderTrades: the trade is hours old, so no message
\* and no dispatch of it is under way any more.
Archive(t) ==
  /\ lt[t] = "open" /\ RowsOf(t) = {}
  /\ nats[t] = 0 /\ \A d \in Slots : disp[d].t = t => disp[d].pc = "idle"
  /\ ~leaderOn \/ Eligible(t) = {}
  /\ lt' = [lt EXCEPT ![t] = "processed"]
  /\ UNCHANGED <<old, row, sub, leaderOn, nats, disp, task, execs, reopened, used, repair>>

\* sweepRetryableCopyTrades reads the rows whose backoff is over (one sweep
\* at a time) ...
SweepRead(t, d) ==
  /\ disp[d].pc = "idle"
  /\ \A e \in WorkerSlots : disp[e].t = t => disp[e].pc # "sweep"
  /\ \E S \in SUBSET Subs :
       /\ S # {} /\ \A s \in S : Sweepable(row[<<t, s>>])
       /\ disp' = [disp EXCEPT ![d] =
            [NoDisp EXCEPT !.pc = "sweep", !.t = t,
                           !.elig = {<<s, row[<<t, s>>].id>> : s \in S}]]
  /\ UNCHANGED <<lt, old, row, sub, leaderOn, nats, task, execs, reopened, used, repair>>

\* Mutants of the compare-and-set: without the tries, without the status.
RequeuedAnyCount(t, elig) ==
  {k \in Keys : k[1] = t /\ <<k[2], row[k].id>> \in elig /\ row[k].st = "failed"}

RequeuedAnyStatus(t, elig) ==
  {k \in Keys : k[1] = t /\ <<k[2], row[k].id>> \in elig /\ row[k].rc < MaxRetries}

\* ... and later puts back those that are still failed, then dispatches.
Requeued(t, elig) ==
  {k \in Keys : /\ k[1] = t /\ <<k[2], row[k].id>> \in elig
                /\ row[k].st = "failed" /\ row[k].rc < MaxRetries}

SweepRequeue(d) ==
  LET t == disp[d].t
      back == Requeued(t, disp[d].elig)
  IN /\ disp[d].pc = "sweep"
     /\ row' = [k \in Keys |-> IF k \in back
                  THEN [row[k] EXCEPT !.st = "queued", !.code = "", !.aged = FALSE]
                  ELSE row[k]]
     /\ disp' = [disp EXCEPT ![d] =
          IF back = {} THEN NoDisp ELSE [NoDisp EXCEPT !.pc = "wait", !.t = t]]
     /\ UNCHANGED <<lt, old, sub, leaderOn, nats, task, execs, reopened, used, repair>>

-----------------------------------------------------------------------------
(* dispatchLeaderTradeInner up to the row tasks *)

Locking == {"resolve", "fanout", "read", "run", "close"}

\* leaderTradeDispatchLocks is a map of the process.
LockFree(d) ==
  \A e \in Slots : e # d /\ Proc(e) = Proc(d) /\ disp[e].t = disp[d].t
                     => disp[e].pc \notin Locking

\* Mutant: stale rows are left as they are.
StaleResetForgotten(r) == r

\* The stale reset of one row: retryable, or dead when that was its last try.
StaleReset(r) ==
  [r EXCEPT !.st = IF r.rc + 1 >= MaxRetries THEN "dead" ELSE "failed",
            !.code = "stale_submitting", !.rc = @ + 1, !.aged = FALSE]

Begin(d) ==
  LET t == disp[d].t
  IN /\ disp[d].pc = "wait" /\ LockFree(d)
     /\ row' = [k \in Keys |-> IF k[1] = t /\ row[k].st = "submitting" /\ row[k].aged
                               THEN StaleReset(row[k]) ELSE row[k]]
     /\ disp' = [disp EXCEPT ![d].pc = IF leaderOn THEN "resolve" ELSE "close"]
     /\ Recount({})
     /\ UNCHANGED <<lt, old, sub, leaderOn, nats, task, execs, used, repair>>

\* resolveDispatchSubscriptionsForLeader: the ids of the runtime index that
\* the database confirms, else every eligible subscription.  The index of a
\* process may be stale, so any set of ids is possible.
Resolve(d) ==
  /\ disp[d].pc = "resolve"
  /\ \E index \in SUBSET Subs :
       LET served == IF leaderOn THEN Eligible(disp[d].t) ELSE {}
           found == IF index \cap served = {} THEN served ELSE index \cap served
           warned == {s \in found : Side[disp[d].t] = "BUY" /\ sub[s].warn # "none"}
       IN disp' = [disp EXCEPT ![d] =
            [@ EXCEPT !.pc = "fanout", !.open = found \ warned, !.blocked = warned]]
  /\ UNCHANGED <<lt, old, row, sub, leaderOn, nats, task, execs, reopened, used, repair>>

\* Mutant: createMany without the unique key.
CreateRowsOverwriting(t, S, st, code) ==
  row' = [k \in Keys |->
    IF k[1] = t /\ k[2] \in S
    THEN [NoRow EXCEPT !.st = st, !.code = code, !.id = row[k].id + 1]
    ELSE row[k]]

\* createMany with skipDuplicates on (leaderTradeId, subscriptionId).
CreateRows(t, S, st, code) ==
  row' = [k \in Keys |->
    IF k[1] = t /\ k[2] \in S /\ row[k].st = "none"
    THEN [NoRow EXCEPT !.st = st, !.code = code, !.id = row[k].id + 1]
    ELSE row[k]]

FanOut(d) ==
  LET t == disp[d].t
      Goto(pc) == disp' = [disp EXCEPT ![d] = [NoDisp EXCEPT !.pc = pc, !.t = t]]
  IN /\ disp[d].pc = "fanout"
     /\ \/ /\ disp[d].open # {}
           /\ CreateRows(t, disp[d].open, "queued", "")
           /\ Goto("read")
        \/ /\ disp[d].open = {} /\ disp[d].blocked # {}
           /\ CreateRows(t, disp[d].blocked, "skipped", "buy_funding")
           /\ Goto("close")
        \/ /\ disp[d].open = {} /\ disp[d].blocked = {}
           /\ UNCHANGED row
           /\ Goto(IF Pending(t) = {} THEN "close" ELSE "read")
     /\ UNCHANGED <<lt, old, sub, leaderOn, nats, task, execs, reopened, used, repair>>

\* findMany of the queued rows, each with a copy of its subscription.
ReadRows(d) ==
  LET t == disp[d].t
  IN /\ disp[d].pc = "read"
     /\ disp' = [disp EXCEPT ![d].pc = "run"]
     /\ task' = [task EXCEPT ![d] = [s \in Subs |->
          IF row[<<t, s>>].st = "queued"
          THEN [NoTask EXCEPT !.pc = "delay", !.rc = row[<<t, s>>].rc,
                              !.id = row[<<t, s>>].id,
                              !.warned = (Side[t] = "BUY" /\ sub[s].warn # "none")]
          ELSE NoTask]]
     /\ UNCHANGED <<lt, old, row, sub, leaderOn, nats, execs, reopened, used, repair>>

\* Mutant: the trade is never marked when its tasks are done.
FinishUnmarked(d) ==
  /\ disp[d].pc = "run"
  /\ \A s \in Subs : task[d][s].pc \in {"idle", "done"}
  /\ disp' = [disp EXCEPT ![d] = NoDisp]
  /\ task' = [task EXCEPT ![d] = [s \in Subs |-> NoTask]]
  /\ UNCHANGED <<lt, old, row, sub, leaderOn, nats, execs, reopened, used, repair>>

\* mapPool has returned: the trade is processed if nothing is in flight.
Finish(d) ==
  /\ disp[d].pc = "run"
  /\ \A s \in Subs : task[d][s].pc \in {"idle", "done"}
  /\ disp' = [disp EXCEPT ![d] =
       IF Pending(disp[d].t) = {} THEN [@ EXCEPT !.pc = "close"] ELSE NoDisp]
  /\ task' = [task EXCEPT ![d] = [s \in Subs |-> NoTask]]
  /\ UNCHANGED <<lt, old, row, sub, leaderOn, nats, execs, reopened, used, repair>>

MarkProcessed(d) ==
  /\ disp[d].pc = "close"
  /\ lt' = [lt EXCEPT ![disp[d].t] = "processed"]
  /\ disp' = [disp EXCEPT ![d] = NoDisp]
  /\ UNCHANGED <<old, row, sub, leaderOn, nats, task, execs, reopened, used, repair>>

\* A task that throws out of its own catch rejects mapPool: the dispatch
\* gives its lock back while the other tasks run on.
Abort(d) ==
  /\ disp[d].pc = "run"
  /\ \E s \in Subs : task[d][s].pc = "threw"
  /\ disp' = [disp EXCEPT ![d].pc = "orphan"]
  /\ UNCHANGED <<lt, old, row, sub, leaderOn, nats, task, execs, reopened, used, repair>>

\* A statement of the dispatch or of the sweep fails before the tasks start
\* or after they ended: the error gives the lock back and changes nothing.
DispatchThrows(d) ==
  /\ used.crashes < MaxCrashes /\ Spend("crashes")
  /\ disp[d].pc \in {"sweep", "wait", "resolve", "fanout", "read", "close"}
  /\ disp' = [disp EXCEPT ![d] = NoDisp]
  /\ UNCHANGED <<lt, old, row, sub, leaderOn, nats, task, execs, reopened, repair>>

\* The tasks a rejected dispatch left behind have ended.
OrphanEnds(d) ==
  /\ disp[d].pc = "orphan"
  /\ \A s \in Subs : task[d][s].pc \in {"idle", "done", "threw"}
  /\ disp' = [disp EXCEPT ![d] = NoDisp]
  /\ task' = [task EXCEPT ![d] = [s \in Subs |-> NoTask]]
  /\ UNCHANGED <<lt, old, row, sub, leaderOn, nats, execs, reopened, used, repair>>

-----------------------------------------------------------------------------
(* A row task *)

Key(d, s) == <<disp[d].t, s>>
IsBuy(d) == Side[disp[d].t] = "BUY"
RowAt(d, s) == row[Key(d, s)]
Found(d, s) == Alive(Key(d, s), task[d][s].id)

Go(d, s, pc) == task' = [task EXCEPT ![d][s].pc = pc]
Stop(d, s, pc) == task' = [task EXCEPT ![d][s] = [NoTask EXCEPT !.pc = pc]]

\* A task that claimed its row and whose order was not executed.
Holds(d, s) == task[d][s].own /\ ~task[d][s].ex

SetRow(d, s, r) ==
  /\ row' = [row EXCEPT ![Key(d, s)] = r]
  /\ Recount(IF Holds(d, s) THEN {Key(d, s)} ELSE {})

\* update({ where: { id } }): it throws when the row was deleted.
UpdateThenStop(d, s, r) ==
  IF Found(d, s) THEN SetRow(d, s, r) /\ Stop(d, s, "done")
                 ELSE Go(d, s, "catch") /\ UNCHANGED <<row, reopened>>

WithStatus(r, st, code) == [r EXCEPT !.st = st, !.code = code, !.aged = FALSE]
WithFailure(r, code, rc) == [WithStatus(r, "failed", code) EXCEPT !.rc = rc]

\* deleteMany({ where: { id } }), whatever the row has become.
Absorb(d, s) ==
  IF Found(d, s) THEN SetRow(d, s, [NoRow EXCEPT !.id = RowAt(d, s).id])
                 ELSE UNCHANGED <<row, reopened>>

\* markUserCopyTradingFundingWarning marks the enabled subscriptions.
MarkWarning(u, w) ==
  sub' = [s \in Subs |-> IF UserOf[s] = u /\ sub[s].mode = "on"
                         THEN [sub[s] EXCEPT !.warn = w] ELSE sub[s]]

ClearFundsWarning(u) ==
  sub' = [s \in Subs |-> IF UserOf[s] = u /\ sub[s].warn = "funds"
                         THEN [sub[s] EXCEPT !.warn = "none"] ELSE sub[s]]

\* Mutant of the claim: the row is not marked.
ClaimUnmarked(d, s) ==
  /\ task[d][s].pc = "delay" /\ Found(d, s) /\ RowAt(d, s).st = "queued"
  /\ task' = [task EXCEPT ![d][s] = [@ EXCEPT !.pc = "live", !.own = TRUE]]
  /\ UNCHANGED <<lt, old, row, sub, leaderOn, nats, disp, execs, reopened, used, repair>>

\* After the delay: a BUY whose copy of the subscription carries a funding
\* warning is absorbed, any other task claims the row by compare-and-set.
Claim(d, s) ==
  /\ task[d][s].pc = "delay"
  /\ IF task[d][s].warned
     THEN Absorb(d, s) /\ Stop(d, s, "done")
     ELSE IF Found(d, s) /\ RowAt(d, s).st = "queued"
          THEN /\ SetRow(d, s, WithStatus(RowAt(d, s), "submitting", ""))
               /\ task' = [task EXCEPT ![d][s] = [@ EXCEPT !.pc = "live", !.own = TRUE]]
          ELSE Stop(d, s, "done") /\ UNCHANGED <<row, reopened>>
  /\ UNCHANGED <<lt, old, sub, leaderOn, nats, disp, execs, used, repair>>

\* The subscription is read again after the claim.
LiveCheck(d, s) ==
  /\ task[d][s].pc = "live"
  /\ IF s \in Eligible(disp[d].t)
     THEN Go(d, s, "prep") /\ UNCHANGED <<row, reopened>>
     ELSE UpdateThenStop(d, s, WithStatus(RowAt(d, s), "skipped", ""))
  /\ UNCHANGED <<lt, old, sub, leaderOn, nats, disp, execs, used, repair>>

\* Size, lots, trading guard and funding precheck.  The intended size is
\* written to the row first, so a row that is gone throws here.
Prepare(d, s) ==
  /\ task[d][s].pc = "prep" /\ Found(d, s)
  /\ \/ \* zero size, risk, no position
        /\ SetRow(d, s, WithStatus(RowAt(d, s), "skipped", ""))
        /\ Stop(d, s, "done") /\ UNCHANGED sub
     \/ \* SELL: no lot yet, but the account holds shares
        /\ ~IsBuy(d)
        /\ SetRow(d, s, WithFailure(RowAt(d, s), "ignored_no_position_sell", task[d][s].rc + 1))
        /\ Stop(d, s, "done") /\ UNCHANGED sub
     \/ \* BUY: gas or collateral missing
        /\ IsBuy(d)
        /\ \E w \in Warnings : MarkWarning(UserOf[s], w)
        /\ \/ Absorb(d, s) /\ Stop(d, s, "done")
           \/ Go(d, s, "catch") /\ UNCHANGED <<row, reopened>>
     \/ /\ SetRow(d, s, [RowAt(d, s) EXCEPT !.aged = FALSE])
        /\ Go(d, s, "lock") /\ UNCHANGED sub
  /\ UNCHANGED <<lt, old, leaderOn, nats, disp, execs, used, repair>>

\* Any await of the task may throw; the catch block follows.
Throw(d, s) ==
  /\ task[d][s].pc \in {"delay", "live", "prep", "post", "record"}
  /\ Go(d, s, "catch")
  /\ UNCHANGED <<lt, old, row, sub, leaderOn, nats, disp, execs, reopened, used, repair>>

\* runUserSerialized: one order at a time per follower and process.
UserFree(d, s) ==
  \A e \in Slots, v \in Subs :
    (e # d \/ v # s) /\ Proc(e) = Proc(d) /\ UserOf[v] = UserOf[s]
      => task[e][v].pc \notin {"post", "sent"}

TakeUserLock(d, s) ==
  /\ task[d][s].pc = "lock" /\ UserFree(d, s)
  /\ Go(d, s, "post")
  /\ UNCHANGED <<lt, old, row, sub, leaderOn, nats, disp, execs, reopened, used, repair>>

\* The order reaches the exchange, which executes it (a SELL perhaps in
\* part) or not: a BUY comes back unfilled, anything else is an error.
Post(d, s) ==
  LET k == Key(d, s)
  IN /\ task[d][s].pc = "post"
     /\ \/ /\ \E resp \in {"ok"} \cup (IF IsBuy(d) THEN {} ELSE {"partial"}) :
                task' = [task EXCEPT ![d][s] =
                           [@ EXCEPT !.pc = "sent", !.ex = TRUE, !.resp = resp]]
           /\ execs' = [execs EXCEPT ![k] = @ + 1]
        \/ /\ IsBuy(d)
           /\ task' = [task EXCEPT ![d][s] = [@ EXCEPT !.pc = "record", !.resp = "unfilled"]]
           /\ UNCHANGED execs
        \/ Go(d, s, "catch") /\ UNCHANGED execs
     /\ UNCHANGED <<lt, old, row, sub, leaderOn, nats, disp, reopened, used, repair>>

\* The answer arrives, or the call throws although the order was executed
\* (answer lost, audit or action log failing after the post).
Return(d, s) ==
  /\ task[d][s].pc = "sent"
  /\ Go(d, s, "record") \/ Go(d, s, "catch")
  /\ UNCHANGED <<lt, old, row, sub, leaderOn, nats, disp, execs, reopened, used, repair>>

\* The outcome is written to the row.  A partial SELL that did not close
\* the position goes back for the rest; one that did is filled.
Record(d, s) ==
  LET resp == task[d][s].resp
  IN /\ task[d][s].pc = "record"
     /\ \/ /\ resp = "unfilled"
           /\ UpdateThenStop(d, s, WithStatus(RowAt(d, s), "skipped", ""))
        \/ /\ resp = "partial"
           /\ UpdateThenStop(d, s,
                WithFailure(RowAt(d, s), "clob_partial_fill", task[d][s].rc + 1))
        \/ /\ resp \in {"partial", "ok"}
           /\ IF Found(d, s)
              THEN SetRow(d, s, WithStatus(RowAt(d, s), "filled", "")) /\ Go(d, s, "settle")
              ELSE Go(d, s, "catch") /\ UNCHANGED <<row, reopened>>
     /\ UNCHANGED <<lt, old, sub, leaderOn, nats, disp, execs, used, repair>>

\* Warnings, lots, audit and streak after the row says filled.  Any of them
\* may throw, before or after the warning was cleared.
Settle(d, s) ==
  /\ task[d][s].pc = "settle"
  /\ \/ ClearFundsWarning(UserOf[s]) /\ Stop(d, s, "done")
     \/ ~IsBuy(d) /\ UNCHANGED sub /\ Stop(d, s, "done")
     \/ (ClearFundsWarning(UserOf[s]) \/ UNCHANGED sub) /\ Go(d, s, "catch")
  /\ UNCHANGED <<lt, old, row, leaderOn, nats, disp, execs, reopened, used, repair>>

\* The catch block.  The error is classified from its message: transient
\* ones are retried while tries are left; a funding error of a BUY marks a
\* warning and absorbs the row.  What follows the row's update (the streak,
\* the pause, the audit) may throw.
Catch(d, s) ==
  \E err \in {"transient", "fatal"} \cup Warnings :
    LET rc == task[d][s].rc + 1
        terminal == err # "transient" \/ rc >= MaxRetries
    IN /\ task[d][s].pc = "catch"
       /\ IF IsBuy(d) /\ err \in Warnings
          THEN /\ MarkWarning(UserOf[s], err)
               /\ \/ Absorb(d, s) /\ Stop(d, s, "done")
                  \/ Stop(d, s, "threw") /\ UNCHANGED <<row, reopened>>
          ELSE /\ Found(d, s)
               /\ SetRow(d, s,
                    IF terminal THEN [WithStatus(RowAt(d, s), "dead", "") EXCEPT !.rc = rc]
                                ELSE WithFailure(RowAt(d, s), "transient", rc))
               /\ IF err = "gas" THEN MarkWarning(UserOf[s], "gas") ELSE UNCHANGED sub
               /\ Stop(d, s, "done") \/ Stop(d, s, "threw")
       /\ UNCHANGED <<lt, old, leaderOn, nats, disp, execs, used, repair>>

\* A statement of the catch block itself fails, as the update of a row that
\* was deleted does: the row stays as it is.
CatchThrows(d, s) ==
  /\ task[d][s].pc = "catch"
  /\ Stop(d, s, "threw")
  /\ UNCHANGED <<lt, old, row, sub, leaderOn, nats, disp, execs, reopened, used, repair>>

-----------------------------------------------------------------------------
(* What happens around the pipeline *)

\* A trade was created before the lookback (COPY_DISPATCH_REPLAY_LOOKBACK_HOURS):
\* no query of the replay finds it any more.
Outlives(t) ==
  /\ lt[t] # "absent" /\ t \notin old /\ Cardinality(old) < MaxOld
  /\ old' = old \cup {t}
  /\ UNCHANGED <<lt, row, sub, leaderOn, nats, disp, task, repair, execs, reopened, used>>

\* A row has been submitting for longer than copyStaleSubmittingMs.
Age(k) ==
  /\ row[k].st = "submitting" /\ ~row[k].aged
  /\ row' = [row EXCEPT ![k].aged = TRUE]
  /\ UNCHANGED <<lt, old, sub, leaderOn, nats, disp, task, execs, reopened, used, repair>>

\* markStaleSubmittingCopyRowsForUser, on a page of the user's executions:
\* unlike Begin it neither counts the try nor gives up.
PageResetsStale(u) ==
  LET stale == {k \in Keys : UserOf[k[2]] = u /\ row[k].st = "submitting" /\ row[k].aged}
  IN /\ stale # {}
     /\ used.reads < MaxReads /\ Spend("reads")
     /\ row' = [k \in Keys |-> IF k \in stale
                  THEN WithStatus(row[k], "failed", "stale_submitting") ELSE row[k]]
     /\ Recount({})
     /\ UNCHANGED <<lt, old, sub, leaderOn, nats, disp, task, execs, repair>>

\* reconcileFailedCopySellRows, on the same page: failed SELL rows that closed
\* lots before (so an order of theirs was executed) are read ...
RepairRead(u) ==
  /\ used.reads < MaxReads /\ Spend("reads")
  /\ repair' = repair \cup
       {k \in Keys : /\ UserOf[k[2]] = u /\ Side[k[1]] = "SELL"
                     /\ row[k].st = "failed" /\ execs[k] > 0}
  /\ repair' # repair
  /\ UNCHANGED <<lt, old, row, sub, leaderOn, nats, disp, task, execs, reopened>>

\* ... and one by one become filled, whatever they are by then, or are left
\* alone because lots remain or a statement failed.
RepairWrite(k) ==
  /\ k \in repair
  /\ repair' = repair \ {k}
  /\ \/ row[k].st # "none" /\ row' = [row EXCEPT ![k] = WithStatus(row[k], "filled", "")]
     \/ UNCHANGED row
  /\ UNCHANGED <<lt, old, sub, leaderOn, nats, disp, task, execs, reopened, used>>

\* The process dies: its dispatches, tasks and locks are gone.
Crash(p) ==
  /\ used.crashes < MaxCrashes /\ Spend("crashes")
  /\ \/ \E d \in Slots : Proc(d) = p /\ disp[d].pc # "idle"
     \/ p = "api" /\ repair # {}
  /\ disp' = [d \in Slots |-> IF Proc(d) = p THEN NoDisp ELSE disp[d]]
  /\ task' = [d \in Slots |-> IF Proc(d) = p THEN [s \in Subs |-> NoTask] ELSE task[d]]
  /\ repair' = IF p = "api" THEN {} ELSE repair
  /\ UNCHANGED <<lt, old, row, sub, leaderOn, nats, execs, reopened>>

\* Users and the funding monitor change subscriptions, admins the leader.
Change ==
  /\ used.changes < MaxChanges /\ Spend("changes")
  /\ \/ /\ \E s \in Subs, m \in {"on", "paused", "off"}, w \in {"none"} \cup Warnings :
             /\ m # "on" => w = sub[s].warn
             /\ sub[s] # [mode |-> m, warn |-> w]
             /\ sub' = [sub EXCEPT ![s] = [mode |-> m, warn |-> w]]
        /\ UNCHANGED leaderOn
     \/ leaderOn' = ~leaderOn /\ UNCHANGED sub
  /\ UNCHANGED <<lt, old, row, nats, disp, task, execs, reopened, repair>>

-----------------------------------------------------------------------------
TaskStep(d, s) ==
  \/ Claim(d, s) \/ LiveCheck(d, s) \/ Prepare(d, s) \/ Throw(d, s)
  \/ TakeUserLock(d, s) \/ Post(d, s) \/ Return(d, s) \/ Record(d, s)
  \/ Settle(d, s) \/ Catch(d, s) \/ CatchThrows(d, s)

DispatchStep(d) ==
  \/ SweepRequeue(d) \/ Begin(d) \/ Resolve(d) \/ FanOut(d) \/ ReadRows(d)
  \/ Finish(d) \/ MarkProcessed(d) \/ Abort(d) \/ OrphanEnds(d)

Next ==
  \/ \E t \in Trades : Signal(t) \/ Lose(t) \/ Archive(t) \/ Outlives(t)
  \/ \E t \in Trades, d \in WorkerSlots : Deliver(t, d) \/ Replay(t, d) \/ SweepRead(t, d)
  \/ \E d \in Slots : DispatchStep(d) \/ DispatchThrows(d)
  \/ \E d \in Slots, s \in Subs : TaskStep(d, s)
  \/ \E k \in Keys : Age(k) \/ RepairWrite(k)
  \/ \E u \in Users : PageResetsStale(u) \/ RepairRead(u)
  \/ \E p \in {"api", "worker"} : Crash(p)
  \/ Change

Spec == Init /\ [][Next]_vars

(***************************************************************************)
(* Fairness: timers and the event loop of the worker run whatever is due;  *)
(* the API process finishes what it started; time passes; the database     *)
(* does not refuse the claim of a row every time.                          *)
(***************************************************************************)
Fairness ==
  /\ \A d \in Slots : WF_vars(DispatchStep(d))
  /\ \A d \in Slots, s \in Subs : WF_vars(TaskStep(d, s)) /\ SF_vars(Claim(d, s))
  /\ \A t \in Trades, d \in WorkerSlots : SF_vars(Replay(t, d)) /\ SF_vars(SweepRead(t, d))
  /\ \A k \in Keys : WF_vars(Age(k))

FairSpec == Spec /\ Fairness

-----------------------------------------------------------------------------
(* Properties *)

\* The types of every variable (Prisma schema, copy_trades and leader_trades).
TypeOK ==
  /\ lt \in [Trades -> {"absent", "open", "processed"}]
  /\ old \subseteq Trades
  /\ row \in [Keys -> Row]
  /\ sub \in [Subs -> [mode: {"on", "paused", "off"}, warn: {"none"} \cup Warnings]]
  /\ leaderOn \in BOOLEAN
  /\ nats \in [Trades -> Nat]
  /\ disp \in [Slots -> Disp]
  /\ task \in [Slots -> [Subs -> Task]]
  /\ repair \subseteq {k \in Keys : Side[k[1]] = "SELL"}
  /\ execs \in [Keys -> Nat]
  /\ reopened \in [Keys -> Nat]
  /\ used \in [{"signals", "crashes", "changes", "reads"} -> Nat]

\* Tasks on k that claimed a row and have not had an order executed: each of
\* them may still execute one or put the row back.
HolderPcs == {"live", "prep", "lock", "post", "record", "catch"}
Holders(k) ==
  {d \in Slots : /\ disp[d].t = k[1] /\ Holds(d, k[2])
                 /\ task[d][k[2]].pc \in HolderPcs}

\* Copying is exactly-once up to what reopened counts: the orders executed
\* for a (leader trade, subscription), those that live tasks may still
\* execute and the one an orderable row invites never exceed one plus the
\* times the row was made orderable again (stale reset, partial SELL, lost
\* answer, failure after the fill, row absorbed under a live task).  It rests
\* on the unique key, the claim by compare-and-set and the status guards of
\* the sweep and of the resets.
OrdersAccounted ==
  \A k \in Keys :
    execs[k] + Cardinality(Holders(k)) + (IF Orderable(row[k]) THEN 1 ELSE 0)
      <= 1 + reopened[k]

\* The tries of a row stay within COPY_MAX_RETRIES (copyRetryPolicy.ts) and
\* whatever is queued, claimed or being worked on has a try left, even when
\* a task that lost its row to a stale reset writes the counter back.
RetriesBounded ==
  /\ \A k \in Keys : /\ row[k].rc <= MaxRetries
                     /\ row[k].st \in {"queued", "submitting"} => row[k].rc < MaxRetries
  /\ \A d \in Slots, s \in Subs : task[d][s].rc < MaxRetries

\* A row that was settled is never taken up again by a signal, a sweep, a
\* replay, a page or another dispatch's fan-out: only a task that had read
\* this very row may still rewrite or delete it, and a page that had read it
\* as failed may call it filled.
SettledRowsStay ==
  [][\A k \in Keys :
       row[k].st \in {"filled", "dead", "skipped"} /\ row'[k] # row[k]
         => \/ k \in repair /\ row'[k].st = "filled"
            \/ \E d \in Slots : /\ disp[d].t = k[1] /\ task[d][k[2]].id = row[k].id
                                /\ task[d][k[2]].pc \in TaskPcs \ {"idle", "done", "threw"}
                                /\ task'[d] # task[d]]_vars

\* A BUY skipped because every subscription carried a funding warning is not
\* taken up later (dispatchLeaderTrade.ts: no late fill).
FundingSkipFinal ==
  [][\A k \in Keys :
       row[k].st = "skipped" /\ row[k].code = "buy_funding" => row'[k] = row[k]]_vars

\* The pipeline can work: the leader is enabled and no funding warning is on.
Calm == leaderOn /\ \A s \in Subs : sub[s].warn = "none"

\* No row stays in flight for ever unless its trade outlived the lookback:
\* what a crash, a lost message or a dead task leaves queued or submitting is
\* brought back by the replay loop in time.  (A lasting warning does leave a
\* row queued until then: see BlockedBuySettledAtOnce.)
NothingStuck ==
  <>[]Calm => \A k \in Keys :
    []<>(row[k].st \notin {"queued", "submitting"} \/ k[1] \in old)

\* A trade that was stored is processed in the end although the announcement
\* was lost, the dispatch crashed or its tasks failed, unless it outlives the
\* lookback first.
TradesProcessed ==
  <>[]leaderOn => \A t \in Trades :
    (lt[t] = "open") ~> (lt[t] = "processed" \/ t \in old)

\* What config/env.ts says of COPY_MAX_RETRIES: n means at most n orders.
AttemptsWithinMaxRetries == \A k \in Keys : execs[k] <= MaxRetries

\* What dispatchLeaderTrade.ts says of a BUY blocked by funding warnings: its
\* rows are skipped at once, so that it cannot be filled late.
BlockedBuySettledAtOnce ==
  [][\A d \in Slots :
       disp[d].pc = "fanout" /\ disp[d].open = {} /\ disp'[d].pc = "close"
         => \A s \in disp[d].blocked : row'[<<disp[d].t, s>>].st # "queued"]_vars
=============================================================================

------------------------------ MODULE CopyLots ------------------------------
(***************************************************************************)
(* The position lots of one follower in one outcome token, and everything  *)
(* that closes them: the dispatch of a leader's SELL, the executions page, *)
(* a manual close, a redeem or worthless settlement, the clearing of dust. *)
(*                                                                         *)
(* A consumer reads the open lots and, in the same READ COMMITTED          *)
(* transaction, the total PnL, and writes the remaining sizes and the      *)
(* total it computed.  The two reads (ReadLots, ReadTotal) and the commit  *)
(* (CommitLots) are actions, so that two consumers can overlap; what keeps *)
(* them apart is the row locks they take.  Shares are counted in units of  *)
(* the dust bound: a size of at most Dust is dust.  Prices are reduced to  *)
(* a profit of one unit a share, won or lost.                              *)
(***************************************************************************)
EXTENDS Integers, FiniteSets, Functions

CONSTANTS
    Buys,       \* filled BUY orders, numbered in the order of their lots
    EntrySize,  \* [Buys -> shares bought]
    LotSub,     \* [Buys -> subscription that bought]
    SellRows,   \* copy trade rows of leader SELLs
    SellSub,    \* [SellRows -> subscription]
    Execs,      \* ids of CopyExecutions (manual close, redeem, expired)
    Workers,    \* requests and jobs running at the same time
    Dust,       \* COPY_LOT_DUST_SHARES
    MaxTries,   \* attempts of a SELL row (bound)
    MaxOps,     \* operations started (bound)
    MaxDay,     \* days of the PnL ledger (bound)
    NoKey       \* no sell key; also the answer of a failing positions API

Keys == SellRows \cup Execs

ASSUME LotsAssumption ==
    /\ EntrySize \in [Buys -> Nat \ {0}] /\ Dust \in Nat
    /\ MaxTries \in Nat \ {0} /\ MaxOps \in Nat /\ MaxDay \in Nat
    /\ IsFiniteSet(Buys) /\ IsFiniteSet(Keys)

VARIABLES
    bought,   \* BUY rows that are filled
    lots,     \* BUY rows that have a lot
    rem,      \* remainingSize of each lot
    closed,   \* shares closed from each lot (sum of its CopyPositionLotClose)
    lastKey,  \* sell key of each lot's latest close
    sold,     \* what is closed under each sell key
    row,      \* SELL rows
    expired,  \* executions booked as manual_expired
    used,     \* executions created
    acct,     \* shares the account holds on chain
    summary,  \* copyPnlTotalUsd
    wk,       \* what each worker is doing
    ops,      \* operations started
    wrote,    \* who wrote the summary last: 0 for a page, or the day of a consumer
    day       \* the day of the PnL ledger

lotVars == <<bought, lots, rem, closed, lastKey, sold, row, expired, used, acct,
             summary, wk, ops, wrote, day>>

SizeOf(f, S) == SumFunctionOnSet(f, S)
SubLots(s) == {b \in lots : LotSub[b] = s}
OpenOf(s) == SizeOf(rem, SubLots(s))
OpenAll == SizeOf(rem, lots)
MaxEntry == CHOOSE n \in {EntrySize[b] : b \in Buys} : \A b \in Buys : EntrySize[b] <= n
Smaller(a, b) == IF a < b THEN a ELSE b
Realized == SizeOf([k \in Keys |-> sold[k].pnl], Keys)

Idle == [at |-> "idle"]
NoLots == [b \in Buys |-> 0]

LotsInit ==
    /\ bought = {} /\ lots = {}
    /\ rem = NoLots /\ closed = NoLots
    /\ lastKey = [b \in Buys |-> NoKey]
    /\ sold = [k \in Keys |-> [size |-> 0, pnl |-> 0]]
    /\ row = [r \in SellRows |-> [status |-> "pending", tries |-> 0]]
    /\ expired = {} /\ used = {}
    /\ acct = 0 /\ summary = 0
    /\ wk = [w \in Workers |-> Idle]
    /\ ops = 0 /\ wrote = 0 /\ day = 1

-----------------------------------------------------------------------------
(* Buys and their lots.                                                    *)

BuyFilled(b) ==
    /\ b \notin bought
    /\ \A c \in Buys : c < b => c \in bought
    /\ bought' = bought \cup {b}
    /\ acct' = acct + EntrySize[b]
    /\ UNCHANGED <<lots, rem, closed, lastKey, sold, row, expired, used, summary, wrote, wk, ops, day>>

\* Mutant: the upsert gives an existing lot its size back.
RecordedAgain(S) ==
    /\ lots' = lots \cup S
    /\ rem' = [b \in Buys |-> IF b \in S THEN EntrySize[b] ELSE rem[b]]

\* recordCopyBuyLot is an upsert that updates nothing: a lot is created once.
Recorded(S) ==
    /\ lots' = lots \cup S
    /\ rem' = [b \in Buys |-> IF b \in S \ lots THEN EntrySize[b] ELSE rem[b]]

RecordCopyBuyLot(b) ==
    /\ b \in bought \ lots
    /\ Recorded({b})
    /\ UNCHANGED <<bought, closed, lastKey, sold, row, expired, used, acct, summary, wrote, wk,
                   ops, day>>

-----------------------------------------------------------------------------
(* One consumption.  "of" is the subscription whose lots are closed, or    *)
(* "all" for consumeOpenCopyLotsForManualSell; "next" is where the worker  *)
(* goes on, "gain" the profit of a share.                                  *)

\* s calls a consumer and goes on at "next".
Call(s, key, of, want, again, gain, next) ==
    [s EXCEPT !.at = "read", !.key = key, !.of = of, !.want = want,
              !.again = again, !.gain = gain, !.next = next]

Working(kind, key) ==
    [at |-> "start", kind |-> kind, key |-> key, of |-> "all", want |-> 0,
     again |-> TRUE, gain |-> 1, next |-> "done", snap |-> NoLots,
     asked |-> 0, told |-> 0, seen |-> NoKey, todo |-> {}, sum |-> 0, total |-> 0, day |-> 0]

InScope(s) == {b \in lots : s.of = "all" \/ LotSub[b] = s.of}
Go(w, at) == wk' = [wk EXCEPT ![w] =
    IF at = "done" THEN Idle
    ELSE [@ EXCEPT !.at = at, !.snap = NoLots, !.want = 0, !.again = TRUE, !.next = "done",
                   !.total = 0, !.day = 0]]

\* Mutant: a lot may be taken beyond what was read of it.
TakesBeyond(snap, want) ==
    {t \in [Buys -> 0 .. MaxEntry] : SizeOf(t, Buys) = Smaller(want, SizeOf(snap, Buys))}

\* The lots are taken in order, each until the wanted size is reached.
Takes(snap, want) ==
    {t \in [Buys -> 0 .. MaxEntry] :
        /\ \A b \in Buys : t[b] <= snap[b]
        /\ \A b, c \in Buys : c < b /\ t[b] > 0 => t[c] = snap[c]
        /\ SizeOf(t, Buys) = Smaller(want, SizeOf(snap, Buys))}

ReadLots(w) ==
    LET s == wk[w] IN
    /\ s.at = "read"
    /\ IF \/ s.want <= 0
          \/ ~s.again /\ sold[s.key].size > 0
          \/ \A b \in InScope(s) : rem[b] = 0
       THEN Go(w, s.next)
       ELSE wk' = [wk EXCEPT ![w].at = "total", ![w].day = day,
                             ![w].snap = [b \in Buys |-> IF b \in InScope(s) THEN rem[b] ELSE 0]]
    /\ UNCHANGED <<bought, lots, rem, closed, lastKey, sold, row, expired, used, acct, summary,
                   wrote, ops, day>>

\* Mutant: the total is read before the row of the day is locked.
ReadsTotalFirst(w) ==
    /\ wk[w].at = "total"
    /\ wk' = [wk EXCEPT ![w].at = "commit", ![w].total = summary]
    /\ UNCHANGED <<bought, lots, rem, closed, lastKey, sold, row, expired, used, acct, summary,
                   wrote, ops, day>>

FirstOf(snap) == CHOOSE b \in Buys : snap[b] > 0 /\ \A c \in Buys : snap[c] > 0 => b <= c

\* v has updated, and not committed, a row that s updates before it reads the total:
\* its first lot, or the UserCopyPnlDaily of its day (recordCopyPnlEventInTx).
Locks(v, s) == wk[v].at = "commit" /\ (wk[v].day = s.day \/ FirstOf(wk[v].snap) = FirstOf(s.snap))

\* applyCopyPnlSummaryDeltaInTx reads the total, a plain read, to write it increased.
ReadTotal(w) ==
    /\ wk[w].at = "total"
    /\ \A v \in Workers : ~Locks(v, wk[w])
    /\ wk' = [wk EXCEPT ![w].at = "commit", ![w].total = summary]
    /\ UNCHANGED <<bought, lots, rem, closed, lastKey, sold, row, expired, used, acct, summary,
                   wrote, ops, day>>

\* consumeCopyLotsForSell ends with an update of the sell row: under the key of
\* an execution there is no row, the transaction rolls back and its caller stops.
RollsBack(s) == s.of # "all" /\ s.key \notin SellRows

CommitLots(w) ==
    LET s == wk[w] IN
    /\ s.at = "commit"
    /\ ~RollsBack(s)
    /\ \E t \in Takes(s.snap, s.want) :
          LET size == SizeOf(t, Buys) IN
          /\ rem' = [b \in Buys |-> IF t[b] > 0 THEN s.snap[b] - t[b] ELSE rem[b]]
          /\ closed' = [b \in Buys |-> closed[b] + t[b]]
          /\ lastKey' = [b \in Buys |-> IF t[b] > 0 THEN s.key ELSE lastKey[b]]
          /\ sold' = [sold EXCEPT ![s.key] = [size |-> @.size + size, pnl |-> @.pnl + size * s.gain]]
          /\ summary' = s.total + size * s.gain
    /\ wrote' = s.day
    /\ Go(w, s.next)
    /\ UNCHANGED <<bought, lots, row, expired, used, acct, ops, day>>

ConsumeThrows(w) ==
    /\ wk[w].at = "commit"
    /\ RollsBack(wk[w])
    /\ Go(w, "done")
    /\ UNCHANGED <<bought, lots, rem, closed, lastKey, sold, row, expired, used, acct, summary,
                   wrote, ops, day>>

\* The process dies: the open transaction is rolled back, the rest is not done.
Crash(w) ==
    /\ wk[w] # Idle
    /\ Go(w, "done")
    /\ UNCHANGED <<bought, lots, rem, closed, lastKey, sold, row, expired, used, acct, summary,
                   wrote, ops, day>>

-----------------------------------------------------------------------------
(* A SELL row is dispatched.                                               *)

Starts(w) == wk[w] = Idle /\ ops < MaxOps /\ ops' = ops + 1
FailRow(r, again) ==
    row' = [row EXCEPT ![r] = [status |-> "failed",
                               tries |-> IF again THEN @.tries + 1 ELSE MaxTries]]

\* Missing lots are backfilled, the size is all the subscription's open lots,
\* capped by the position the API reports (which may not answer).
SellStart(w, r) ==
    LET missing == {b \in bought : LotSub[b] = SellSub[r]}
        open == SizeOf([b \in Buys |-> IF b \in lots THEN rem[b] ELSE EntrySize[b]],
                       missing) IN
    /\ Starts(w)
    /\ row[r].status # "filled" /\ row[r].tries < MaxTries
    /\ \A v \in Workers : wk[v] # Idle => ~(wk[v].kind = "sell" /\ wk[v].key = r)
    /\ Recorded(missing)
    /\ \E seen \in {acct, NoKey} :
          IF open = 0 \/ seen = 0
          THEN /\ FailRow(r, open = 0 /\ seen \notin {0, NoKey})
               /\ UNCHANGED wk
          ELSE /\ wk' = [wk EXCEPT ![w] =
                    [Working("sell", r) EXCEPT !.at = "post", !.of = SellSub[r], !.seen = seen,
                        !.asked = IF seen = NoKey THEN open ELSE Smaller(open, seen)]]
               /\ UNCHANGED row
    /\ UNCHANGED <<bought, closed, lastKey, sold, expired, used, acct, summary, wrote, day>>

SellRejected(w) ==
    /\ wk[w].at = "post"
    /\ FailRow(wk[w].key, TRUE)
    /\ Go(w, "done")
    /\ UNCHANGED <<bought, lots, rem, closed, lastKey, sold, expired, used, acct, summary, wrote,
                   ops, day>>

\* The order sells "fill" shares; an answer without a size counts as the size asked.
\* A partial fill closes its shares, a full one marks the row before it does.
SellFilled(w) ==
    LET s == wk[w] IN
    /\ s.at = "post"
    /\ \E fill \in 1 .. Smaller(s.asked, acct) : \E told \in {fill, s.asked} :
          /\ acct' = acct - fill
          /\ IF told < s.asked
             THEN /\ wk' = [wk EXCEPT ![w] =
                              [Call(s, s.key, s.of, told, TRUE, 1, "residual") EXCEPT !.told = told]]
                  /\ UNCHANGED row
             ELSE /\ wk' = [wk EXCEPT ![w].at = "rest", ![w].told = told]
                  /\ row' = [row EXCEPT ![s.key].status = "filled"]
    /\ UNCHANGED <<bought, lots, rem, closed, lastKey, sold, expired, used, summary, wrote, ops, day>>

\* closeResidualCopyLotWhenFlat: a position that is not known counts as flat, and
\* the one a dispatch knows was cached before its order.
ClosesResidual(s, position) == position = NoKey \/ position <= Dust
SellResidual(w) ==
    LET s == wk[w] IN
    /\ s.at = "residual"
    /\ wk' = [wk EXCEPT ![w] = IF ClosesResidual(s, s.seen)
                               THEN Call(s, s.key, s.of, OpenOf(s.of), TRUE, 1, "judge")
                               ELSE [s EXCEPT !.at = "judge"]]
    /\ UNCHANGED <<bought, lots, rem, closed, lastKey, sold, row, expired, used, acct, summary,
                   wrote, ops, day>>

\* isCopySellFillComplete: the fill covers the lots there were, the lots are gone
\* now, or the account is flat.
FillComplete(s, after) ==
    \/ after <= Dust
    \/ s.seen # NoKey /\ s.seen <= Dust
SellJudge(w) ==
    LET s == wk[w] IN
    /\ s.at = "judge"
    /\ IF FillComplete(s, OpenOf(s.of))
       THEN row' = [row EXCEPT ![s.key].status = "filled"] /\ Go(w, "rest")
       ELSE FailRow(s.key, TRUE) /\ Go(w, "done")
    /\ UNCHANGED <<bought, lots, rem, closed, lastKey, sold, expired, used, acct, summary, wrote,
                   ops, day>>

\* resolveSellLotCloseFromFill: what is still open, up to the fill, is closed.
SellRest(w) ==
    LET s == wk[w] IN
    /\ s.at = "rest"
    /\ wk' = [wk EXCEPT ![w] =
                Call(s, s.key, s.of, Smaller(OpenOf(s.of), s.told), TRUE, 1, "done")]
    /\ UNCHANGED <<bought, lots, rem, closed, lastKey, sold, row, expired, used, acct, summary,
                   wrote, ops, day>>

-----------------------------------------------------------------------------
(* A manual close, a redeem, a worthless settlement: one execution each.   *)

NewExec(e) == e \notin used /\ used' = used \cup {e}

ManualClose(w) ==
    /\ Starts(w)
    /\ \E e \in Execs, fill \in 1 .. acct :
          /\ NewExec(e)
          /\ acct' = acct - fill
          /\ wk' = [wk EXCEPT ![w] =
                      Call(Working("manual", e), e, "all", fill, FALSE, 1, "manualRest")]
    /\ UNCHANGED <<bought, lots, rem, closed, lastKey, sold, row, expired, summary, wrote, day>>

ManualRest(w) ==
    LET s == wk[w] IN
    /\ s.at = "manualRest"
    /\ wk' = [wk EXCEPT ![w] = IF acct <= Dust
                               THEN Call(s, s.key, "all", OpenAll, TRUE, 1, "done")
                               ELSE Idle]
    /\ UNCHANGED <<bought, lots, rem, closed, lastKey, sold, row, expired, used, acct, summary,
                   wrote, ops, day>>

\* The size settled is read before: the open lots, capped by the wallet's shares.
SettleSize == IF acct > 0 THEN Smaller(OpenAll, acct) ELSE OpenAll

Redeem(w) ==
    /\ Starts(w)
    /\ OpenAll > 0
    /\ \E e \in Execs :
          /\ NewExec(e)
          /\ wk' = [wk EXCEPT ![w] =
                      Call(Working("redeem", e), e, "all", SettleSize, FALSE, 1, "done")]
    /\ acct' = 0
    /\ UNCHANGED <<bought, lots, rem, closed, lastKey, sold, row, expired, summary, wrote, day>>

Expire(w) ==
    /\ Starts(w)
    /\ OpenAll > Dust /\ expired = {}
    /\ \E e \in Execs :
          /\ NewExec(e)
          /\ expired' = {e}
          /\ wk' = [wk EXCEPT ![w] =
                      Call(Working("expire", e), e, "all", SettleSize, TRUE, -1, "done")]
    /\ UNCHANGED <<bought, lots, rem, closed, lastKey, sold, row, acct, summary, wrote, day>>

\* Mutant: every open lot is cleared, dust or not.
DustReadAny(w) ==
    /\ Starts(w)
    /\ used # {}
    /\ wk' = [wk EXCEPT ![w] = [Working("dust", NoKey) EXCEPT !.at = "dust",
                                    !.todo = {b \in lots : rem[b] > 0}]]
    /\ UNCHANGED <<bought, lots, rem, closed, lastKey, sold, row, expired, used, acct, summary,
                   wrote, day>>

\* collectStalePositionAssetsToHide: dust lots of a settled token are set to 0,
\* with no close, by the ids read before.
DustRead(w) ==
    /\ Starts(w)
    /\ used # {}
    /\ LET dust == {b \in lots : rem[b] \in 1 .. Dust} IN
       /\ dust # {}
       /\ wk' = [wk EXCEPT ![w] = [Working("dust", NoKey) EXCEPT !.at = "dust", !.todo = dust]]
    /\ UNCHANGED <<bought, lots, rem, closed, lastKey, sold, row, expired, used, acct, summary,
                   wrote, day>>

DustClear(w) ==
    /\ wk[w].at = "dust"
    /\ rem' = [b \in Buys |-> IF b \in wk[w].todo THEN 0 ELSE rem[b]]
    /\ Go(w, "done")
    /\ UNCHANGED <<bought, lots, closed, lastKey, sold, row, expired, used, acct, summary, wrote,
                   ops, day>>

-----------------------------------------------------------------------------
(* The executions page repairs lots and rows, then its summary.            *)

\* repairManualExpiredOpenLots: open lots of a token booked as expired.
PageStart(w) ==
    /\ Starts(w)
    /\ \A v \in Workers : wk[v] # Idle => wk[v].kind # "page"
    /\ wk' = [wk EXCEPT ![w] =
                IF expired # {} /\ OpenAll > 0
                THEN LET e == CHOOSE x \in expired : TRUE IN
                     Call(Working("page", e), e, "all", SettleSize, TRUE, -1, "lots")
                ELSE [Working("page", NoKey) EXCEPT !.at = "lots"]]
    /\ UNCHANGED <<bought, lots, rem, closed, lastKey, sold, row, expired, used, acct, summary,
                   wrote, day>>

\* reconcilePartiallyClosedBuyLots reads the lots over the dust bound ...
PageReadLots(w) ==
    /\ wk[w].at = "lots"
    /\ wk' = [wk EXCEPT ![w].at = "lot",
                        ![w].todo = {<<b, rem[b]>> : b \in {c \in lots : rem[c] > Dust}}]
    /\ UNCHANGED <<bought, lots, rem, closed, lastKey, sold, row, expired, used, acct, summary,
                   wrote, ops, day>>

\* ... and closes the size it read of each that has an earlier close, under its key.
PageCloseLot(w) ==
    LET s == wk[w] IN
    /\ s.at = "lot"
    /\ \E x \in s.todo :
          LET b == x[1]
              rest == [s EXCEPT !.todo = @ \ {x}] IN
          wk' = [wk EXCEPT ![w] = IF lastKey[b] = NoKey THEN rest
                   ELSE Call(rest, lastKey[b], LotSub[b], x[2], TRUE, 1, "lot")]
    /\ UNCHANGED <<bought, lots, rem, closed, lastKey, sold, row, expired, used, acct, summary,
                   wrote, ops, day>>

PageReadRows(w) ==
    /\ wk[w].at = "lot" /\ wk[w].todo = {}
    /\ wk' = [wk EXCEPT ![w].at = "row",
                        ![w].todo = {r \in SellRows : row[r].status = "failed"}]
    /\ UNCHANGED <<bought, lots, rem, closed, lastKey, sold, row, expired, used, acct, summary,
                   wrote, ops, day>>

\* reconcileFailedCopySellRows: a failed row that has closes takes the open lots
\* of its subscription too: the account's position is given as 0, not read.
PageRow(w) ==
    LET s == wk[w] IN
    /\ s.at = "row"
    /\ \E r \in s.todo :
          LET rest == [s EXCEPT !.todo = @ \ {r}, !.key = r, !.of = SellSub[r]]
              open == OpenOf(SellSub[r]) IN
          wk' = [wk EXCEPT ![w] =
                   IF sold[r].size = 0 THEN rest
                   ELSE IF open > Dust /\ ~ClosesResidual(s, 0) THEN [rest EXCEPT !.at = "mark"]
                   ELSE Call(rest, r, SellSub[r], open, TRUE, 1, "mark")]
    /\ UNCHANGED <<bought, lots, rem, closed, lastKey, sold, row, expired, used, acct, summary,
                   wrote, ops, day>>

PageMarkRow(w) ==
    LET s == wk[w] IN
    /\ s.at = "mark"
    /\ row' = IF OpenOf(s.of) > Dust THEN row ELSE [row EXCEPT ![s.key].status = "filled"]
    /\ Go(w, "row")
    /\ UNCHANGED <<bought, lots, rem, closed, lastKey, sold, expired, used, acct, summary, wrote,
                   ops, day>>

\* ensureCopyPnlSummaryLedgerSyncedForUser rebuilds the total when it differs from
\* the closes or a day has begun: it sums the closes, then writes the total.
PageSum(w) ==
    /\ wk[w].at = "row" /\ wk[w].todo = {}
    /\ \/ summary = Realized /\ Go(w, "done")
       \/ wk' = [wk EXCEPT ![w].at = "sum", ![w].sum = Realized]
    /\ UNCHANGED <<bought, lots, rem, closed, lastKey, sold, row, expired, used, acct, summary,
                   wrote, ops, day>>

PageWriteSum(w) ==
    /\ wk[w].at = "sum"
    /\ summary' = wk[w].sum /\ wrote' = 0
    /\ Go(w, "done")
    /\ UNCHANGED <<bought, lots, rem, closed, lastKey, sold, row, expired, used, acct, ops, day>>

-----------------------------------------------------------------------------
\* A day of the ledger begins (getPnlDayWindowStartUtc).
DayBegins ==
    /\ day < MaxDay
    /\ day' = day + 1
    /\ UNCHANGED <<bought, lots, rem, closed, lastKey, sold, row, expired, used, acct, summary,
                   wrote, wk, ops>>

SellStep(w) ==
    \/ \E r \in SellRows : SellStart(w, r)
    \/ SellRejected(w) \/ SellFilled(w) \/ SellResidual(w) \/ SellJudge(w) \/ SellRest(w)
PageStep(w) ==
    \/ PageStart(w) \/ PageReadLots(w) \/ PageCloseLot(w) \/ PageReadRows(w)
    \/ PageRow(w) \/ PageMarkRow(w) \/ PageSum(w) \/ PageWriteSum(w)

LotsNext ==
    \/ DayBegins
    \/ \E b \in Buys : BuyFilled(b) \/ RecordCopyBuyLot(b)
    \/ \E w \in Workers :
          \/ SellStep(w) \/ PageStep(w)
          \/ ReadLots(w) \/ ReadTotal(w) \/ CommitLots(w) \/ ConsumeThrows(w) \/ Crash(w)
          \/ ManualClose(w) \/ ManualRest(w) \/ Redeem(w) \/ Expire(w)
          \/ DustRead(w) \/ DustClear(w)

LotsSpec == LotsInit /\ [][LotsNext]_lotVars

-----------------------------------------------------------------------------
LotsTypeOK ==
    /\ lots \subseteq bought /\ bought \subseteq Buys
    /\ rem \in [Buys -> Nat] /\ closed \in [Buys -> Nat]
    /\ lastKey \in [Buys -> Keys \cup {NoKey}]
    /\ expired \subseteq used /\ used \subseteq Execs
    /\ acct \in Nat /\ summary \in Int /\ day \in Nat

\* Whatever overlaps, no bought share leaves a lot without a close: what remains
\* and what was closed cover the entry, up to dust cleared from an empty lot.
LotAccounted ==
    \A b \in lots : EntrySize[b] <= rem[b] + closed[b] + (IF rem[b] = 0 THEN Dust ELSE 0)

Excess(b) == rem[b] + closed[b]

\* Shares are closed twice, or given back, only by a transaction that read a lot
\* before another one changed it, and vanish only in a clearing of dust.
ExcessNeedsOverlap ==
    [][\A b \in lots :
          Excess(b)' # Excess(b) =>
             \E w \in Workers : /\ wk'[w] # wk[w]
                                /\ \/ wk[w].at = "commit" /\ wk[w].snap[b] # rem[b]
                                   \/ wk[w].at = "dust" /\ b \in wk[w].todo]_lotVars

\* Consumers of one day never lose a write of the total among themselves: it departs
\* from the closes only when a page writes a sum that a commit made old, or a consumer
\* writes over what a page or a consumer of another day wrote since it read the total.
\* Any other write of a page heals it.
SummaryDriftNeedsOverlap ==
    [][summary' - Realized' # summary - Realized =>
          \E w \in Workers :
             \/ /\ wk[w].at = "sum" /\ wk'[w] = Idle
                /\ summary' = Realized' \/ wk[w].sum # Realized
             \/ /\ wk[w].at = "commit" /\ wk'[w] # wk[w]
                /\ wk[w].total # summary /\ wrote # wk[w].day]_lotVars

\* The comment on closeResidualCopyLotWhenFlat: leftover lots are book-closed when
\* the account holds no shares.  Stated for its call on the executions page.
PageClosesOnlyWhenFlat ==
    [][\A w \in Workers :
          wk[w].at = "row" /\ wk'[w].at = "read" /\ wk'[w].want > Dust => acct <= Dust]_lotVars
=============================================================================

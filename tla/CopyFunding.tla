------------------------------ MODULE CopyFunding ------------------------------
(***************************************************************************)
(* The funding warning of one user's subscriptions (copyFundingMonitor.ts) *)
(* beside the money it is about: gas points and the balance of the deposit *)
(* wallet.  A buy that finds too little of either raises the warning, and  *)
(* while it is up no buy is dispatched.  It is lowered by a filled buy, by *)
(* the proceeds of a sell, by a deposit the chain monitor announces and by *)
(* the page that shows the state of the funding; nothing in the server     *)
(* looks at it by itself.  An order costs one unit of each.                *)
(***************************************************************************)
EXTENDS Integers

CONSTANTS
  Traders,        \* tasks that place copy orders, one in each process
  MaxIncome,      \* bound: deposits and purchases of gas
  MaxMishaps      \* bound: failed reads of the balance, and stops

ASSUME FundingAssumption == {MaxIncome, MaxMishaps} \subseteq Nat

VARIABLES
  points,       \* User.gasBalance
  usdc,         \* the balance of the deposit wallet
  held,         \* orders bought and not sold
  warning,      \* fundingWarningCode: "none", "gas" or "usdc"
  precheck,     \* depositCollateralCache of each process: a balance, or NoEntry
  trader,       \* what each trader does next, and the balance it has read
  page,         \* what the page does next, and the funds it has read
  callback,     \* the deposit callback: "idle" or "clears"
  announced,    \* deposits mined and not yet written to the ledger
  income,       \* deposits and purchases so far
  mishaps,      \* failed reads and stops so far
  excused       \* the warning was raised on an old balance, or nothing will
                \* lower it for what has come in since

fundingVars == <<points, usdc, held, warning, precheck, trader, page, callback,
                 announced, income, mishaps, excused>>

NoEntry == -1
Money == <<points, usdc, held>>
Counts == <<announced, income, mishaps>>
-----------------------------------------------------------------------------
FundingInit ==
  /\ points = 0 /\ usdc = 0 /\ held = 0
  /\ warning = "none" /\ excused = FALSE
  /\ precheck = [t \in Traders |-> NoEntry]
  /\ trader = [t \in Traders |-> [at |-> "idle", saw |-> 0]]
  /\ page = [at |-> "closed", gas |-> FALSE, saw |-> 0]
  /\ callback = "idle"
  /\ announced = 0 /\ income = 0 /\ mishaps = 0

TraderGoes(t, from, to) ==
  trader[t].at = from /\ trader' = [trader EXCEPT ![t] = [at |-> to, saw |-> 0]]
PageGoes(from, to) == page.at = from /\ page' = [at |-> to, gas |-> FALSE, saw |-> 0]
Forgets(t) == precheck' = [precheck EXCEPT ![t] = NoEntry]

\* markUserCopyTradingFundingWarning writes over any warning that is up.
MarkWarning(code) == warning' = code /\ excused' = (usdc > 0)

\* clearCopyFundingWarningForCode
ClearForCode(code) == warning' = IF warning = code THEN "none" ELSE warning

-----------------------------------------------------------------------------
(* Buys.                                                                   *)

\* Only a subscription without a warning gets a row.
BuyBegins(t) ==
  /\ warning = "none"
  /\ TraderGoes(t, "idle", "gas")
  /\ UNCHANGED <<Money, warning, precheck, page, callback, Counts, excused>>

PrecheckGas(t) ==
  /\ TraderGoes(t, "gas", IF points > 0 THEN "cache" ELSE "warns gas")
  /\ UNCHANGED <<Money, warning, precheck, page, callback, Counts, excused>>

Affords(balance) == IF balance > 0 THEN "orders" ELSE "warns usdc"

\* A balance in the cache is used, be it old.
PrecheckCached(t) ==
  /\ precheck[t] /= NoEntry
  /\ TraderGoes(t, "cache", Affords(precheck[t]))
  /\ UNCHANGED <<Money, warning, precheck, page, callback, Counts, excused>>

\* Otherwise the chain is asked, and the answer cached when it comes.
PrecheckAsks(t) ==
  /\ precheck[t] = NoEntry /\ trader[t].at = "cache"
  /\ trader' = [trader EXCEPT ![t] = [at |-> "answer", saw |-> usdc]]
  /\ UNCHANGED <<Money, warning, precheck, page, callback, Counts, excused>>

PrecheckAnswered(t) ==
  /\ TraderGoes(t, "answer", Affords(trader[t].saw))
  /\ precheck' = [precheck EXCEPT ![t] = trader[t].saw]
  /\ UNCHANGED <<Money, warning, page, callback, Counts, excused>>

CacheExpires(t) ==
  /\ precheck[t] /= NoEntry /\ Forgets(t)
  /\ UNCHANGED <<Money, warning, trader, page, callback, Counts, excused>>

\* handleBuyFundingSkip: the warning, then the row and the cache are dropped.
BuyWarns(t) ==
  /\ \/ TraderGoes(t, "warns gas", "skips") /\ MarkWarning("gas")
     \/ TraderGoes(t, "warns usdc", "skips") /\ MarkWarning("usdc")
  /\ UNCHANGED <<Money, precheck, page, callback, Counts>>

BuySkips(t) ==
  /\ TraderGoes(t, "skips", "idle") /\ Forgets(t)
  /\ UNCHANGED <<Money, warning, page, callback, Counts, excused>>

\* The order is matched and gas deducted; when another order has spent the
\* last of it meanwhile, this one is matched without.
BuyFills(t) ==
  /\ usdc > 0
  /\ usdc' = usdc - 1 /\ held' = held + 1
  /\ points' = IF points > 0 THEN points - 1 ELSE points
  /\ TraderGoes(t, "orders", "filled")
  /\ UNCHANGED <<warning, precheck, page, callback, Counts, excused>>

\* The order is refused: for want of money it warns at its last try, and
\* before that, or for another reason, the row is tried again later.
BuyFails(t) ==
  /\ \/ TraderGoes(t, "orders", "idle")
     \/ points <= 0 /\ TraderGoes(t, "orders", "warns gas")
     \/ points > 0 /\ usdc <= 0 /\ TraderGoes(t, "orders", "warns usdc")
  /\ UNCHANGED <<Money, warning, precheck, page, callback, Counts, excused>>

BuyClears(t) ==
  /\ TraderGoes(t, "filled", "idle")
  /\ ClearForCode("usdc") /\ Forgets(t)
  /\ UNCHANGED <<Money, page, callback, Counts, excused>>

-----------------------------------------------------------------------------
(* Sells go on whatever the warning; their gas may become a debt.          *)

SellFills(t) ==
  /\ held > 0
  /\ held' = held - 1 /\ usdc' = usdc + 1 /\ points' = points - 1
  /\ TraderGoes(t, "idle", "sold")
  /\ UNCHANGED <<warning, precheck, page, callback, Counts, excused>>

SellReadsGas(t) ==
  /\ TraderGoes(t, "sold", IF points < 0 THEN "owes gas" ELSE "syncs")
  /\ UNCHANGED <<Money, warning, precheck, page, callback, Counts, excused>>

SellWarns(t) ==
  /\ TraderGoes(t, "owes gas", "syncs")
  /\ MarkWarning("gas")
  /\ UNCHANGED <<Money, precheck, page, callback, Counts>>

\* The balance is looked at only by a sell that is written as filled: one that
\* was matched in part and leaves the position open is put back as failed, and
\* one whose lots cannot be closed throws.
SellReturns(t) ==
  /\ TraderGoes(t, "syncs", "idle") /\ excused' = TRUE
  /\ UNCHANGED <<Money, warning, precheck, page, callback, Counts>>

\* syncCopyTradingCollateralFundingState drops the cache of its own process
\* and reads the balance; a read that fails counts as nothing.
SellReads(t) ==
  /\ trader[t].at = "syncs" /\ Forgets(t)
  /\ \/ /\ trader' = [trader EXCEPT ![t] = [at |-> "read", saw |-> usdc]]
        /\ UNCHANGED <<mishaps, excused>>
     \/ /\ mishaps < MaxMishaps /\ mishaps' = mishaps + 1 /\ excused' = TRUE
        /\ trader' = [trader EXCEPT ![t] = [at |-> "read", saw |-> 0]]
  /\ UNCHANGED <<Money, warning, page, callback, announced, income>>

\* A plausible bug: the sync lowers the warning about gas instead.
SellClearsGas(t) ==
  /\ TraderGoes(t, "read", "idle")
  /\ ClearForCode("gas")
  /\ UNCHANGED <<Money, precheck, page, callback, Counts, excused>>

SellClears(t) ==
  /\ TraderGoes(t, "read", "idle")
  /\ IF trader[t].saw > 0 THEN ClearForCode("usdc") ELSE UNCHANGED warning
  /\ UNCHANGED <<Money, precheck, page, callback, Counts, excused>>

TraderStep(t) ==
  \/ PrecheckGas(t) \/ PrecheckCached(t) \/ PrecheckAsks(t) \/ PrecheckAnswered(t)
  \/ BuyWarns(t) \/ BuySkips(t) \/ BuyFills(t) \/ BuyFails(t) \/ BuyClears(t)
  \/ SellReadsGas(t) \/ SellWarns(t) \/ SellReturns(t) \/ SellReads(t) \/ SellClears(t)

\* A process dies with its task and its cache.
TraderStops(t) ==
  /\ trader[t].at /= "idle" /\ mishaps < MaxMishaps /\ mishaps' = mishaps + 1
  /\ trader' = [trader EXCEPT ![t] = [at |-> "idle", saw |-> 0]]
  /\ Forgets(t)
  /\ excused' = (excused \/ trader[t].at \in {"sold", "owes gas", "syncs", "read"})
  /\ UNCHANGED <<Money, warning, page, callback, announced, income>>

-----------------------------------------------------------------------------
(* Income.                                                                 *)

Earns == income < MaxIncome /\ income' = income + 1

\* A package is fulfilled.  resumeUserCopyTradingPausedForGas enables the
\* subscriptions that are paused, of which there are none any more; a
\* warning stays.
RechargesGas ==
  /\ Earns /\ points' = points + 1
  /\ UNCHANGED <<usdc, held, warning, precheck, trader, page, callback, announced, mishaps, excused>>

\* A deposit to the deposit wallet; one that is forwarded by the platform is
\* skipped by the callback.
Deposits ==
  /\ Earns /\ usdc' = usdc + 1
  /\ \/ announced' = announced + 1 /\ UNCHANGED excused
     \/ excused' = TRUE /\ UNCHANGED announced
  /\ UNCHANGED <<points, held, warning, precheck, trader, page, callback, mishaps>>

\* The callback writes the ledger row and drops the cache of its process.
CallbackLedger(t) ==
  /\ callback = "idle" /\ announced > 0
  /\ announced' = announced - 1 /\ callback' = "clears"
  /\ Forgets(t)
  /\ UNCHANGED <<Money, warning, trader, page, income, mishaps, excused>>

\* A plausible bug: only the warning about gas is lowered.
CallbackClearsGas ==
  /\ callback = "clears" /\ callback' = "idle"
  /\ ClearForCode("gas")
  /\ UNCHANGED <<Money, precheck, trader, page, Counts, excused>>

\* The deposit lowers any warning.
CallbackClears ==
  /\ callback = "clears" /\ callback' = "idle"
  /\ warning' = "none"
  /\ UNCHANGED <<Money, precheck, trader, page, Counts, excused>>

\* It dies; the monitor calls again and finds the row, which lowers nothing.
CallbackStops ==
  /\ callback = "clears" /\ callback' = "idle"
  /\ mishaps < MaxMishaps /\ mishaps' = mishaps + 1 /\ excused' = TRUE
  /\ UNCHANGED <<Money, warning, precheck, trader, page, announced, income>>

-----------------------------------------------------------------------------
(* The page with the state of the funding.                                 *)

PageOpens ==
  /\ page.at = "closed" /\ page' = [at |-> "gas", gas |-> points > 0, saw |-> 0]
  /\ UNCHANGED <<Money, warning, precheck, trader, callback, Counts, excused>>

\* syncCopyTradingGasFundingState
PageSyncsGas ==
  /\ PageGoes("gas", "usdc")
  /\ IF page.gas THEN ClearForCode("gas") /\ UNCHANGED excused ELSE MarkWarning("gas")
  /\ UNCHANGED <<Money, precheck, trader, callback, Counts>>

PageReads(t) ==
  /\ page.at = "usdc" /\ Forgets(t)
  /\ \/ page' = [page EXCEPT !.at = "clears", !.saw = usdc] /\ UNCHANGED mishaps
     \/ /\ mishaps < MaxMishaps /\ mishaps' = mishaps + 1
        /\ page' = [page EXCEPT !.at = "clears", !.saw = 0]
  /\ UNCHANGED <<Money, warning, trader, callback, announced, income, excused>>

\* A plausible bug: the page lowers the warning about gas a second time.
PageClearsGas ==
  /\ PageGoes("clears", "closed")
  /\ IF page.saw > 0 THEN ClearForCode("gas") ELSE UNCHANGED warning
  /\ UNCHANGED <<Money, precheck, trader, callback, Counts, excused>>

PageClears ==
  /\ PageGoes("clears", "closed")
  /\ IF page.saw > 0 THEN ClearForCode("usdc") ELSE UNCHANGED warning
  /\ UNCHANGED <<Money, precheck, trader, callback, Counts, excused>>

PageStep(t) == PageOpens \/ PageSyncsGas \/ PageReads(t) \/ PageClears

\* The callback and the page are answered by the process of api.
FundingNextOf(api, traders) ==
  \/ \E t \in traders :
       BuyBegins(t) \/ SellFills(t) \/ TraderStep(t) \/ TraderStops(t) \/ CacheExpires(t)
  \/ RechargesGas \/ Deposits
  \/ CallbackLedger(api) \/ CallbackClears \/ CallbackStops
  \/ PageStep(api)

\* Tasks go on, and the user looks at the page again and again, which asks
\* for the state while it is open.
FundingFairness(api) ==
  /\ \A t \in Traders : WF_fundingVars(TraderStep(t))
  /\ WF_fundingVars(CallbackLedger(api) \/ CallbackClears)
  /\ WF_fundingVars(PageStep(api))

FundingSpec(api) ==
  FundingInit /\ [][FundingNextOf(api, Traders)]_fundingVars /\ FundingFairness(api)
-----------------------------------------------------------------------------
FundingTypeOK ==
  /\ points \in Int /\ usdc \in Nat /\ held \in Nat
  /\ warning \in {"none", "gas", "usdc"} /\ excused \in BOOLEAN
  /\ \A t \in Traders : precheck[t] \in Nat \union {NoEntry} /\ trader[t].saw \in Nat
  /\ page.at \in {"closed", "gas", "usdc", "clears"} /\ page.gas \in BOOLEAN /\ page.saw \in Nat
  /\ callback \in {"idle", "clears"}
  /\ announced \in 0 .. MaxIncome /\ income \in 0 .. MaxIncome /\ mishaps \in 0 .. MaxMishaps

\* The warning that blocks buys for want of balance is up beside a balance
\* only while the deposit or the sale it came from is still being worked on,
\* unless it was raised on an older balance, or the deposit was forwarded by
\* the platform, its callback died, the sale was matched in part and put back,
\* or a balance could not be read: deposits announced twice, two processes
\* with a cache each, and sells beside buys leave no other.
WarnedBesideBalance ==
  warning = "usdc" /\ usdc > 0 =>
    \/ excused \/ announced > 0 \/ callback = "clears"
    \/ \E t \in Traders : trader[t].at \in {"sold", "owes gas", "syncs", "read"}

\* When there is gas and a balance for good and the user looks at the page,
\* buys are let through in the end and stay so: stale caches, warnings raised
\* late and warnings that were left up do not keep them out for ever.
BuysResume == <>[](points > 0 /\ usdc > 0) => <>[](warning = "none")
=============================================================================

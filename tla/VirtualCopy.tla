---------------------------- MODULE VirtualCopy ----------------------------
(***************************************************************************)
(* One virtual account that copies one token of a leader: executions       *)
(* claimed and simulated by workers, manual closes, the settlement of the  *)
(* market, the lifecycle of the account and the reconciliation that pauses *)
(* buying.  Transactions that lock the account are Serializable and taken  *)
(* as one step; what a worker reads before its transaction may be old.     *)
(* Prices are one, fees are nought, and amounts are whole: what a Decimal  *)
(* of twenty digits rounds away is less than the unit.                     *)
(***************************************************************************)
EXTENDS Integers, FiniteSets, Functions

CONSTANTS
    VWorkers,    \* executors that may run at once
    VBuys,       \* executions of leader buys
    VSells,      \* executions of leader sells
    VCloses,     \* executions of manual closes
    VAddsOn,     \* buys whose configuration adds to an open position (skipBuyIfOpenPosition)
    VDust,       \* what does not count as an open position (0.01)
    VTarget,     \* target size of an execution
    VCash,       \* initial balance
    VRetries,    \* retries after an error; a claim that went stale has one more (2)
    MaxThrows    \* failures, stops and slowness of workers (bound)

Settlement == "settlement"   \* in the ledger, beside the executions
VExecs == VBuys \cup VSells \cup VCloses

ASSUME VirtualAssumption ==
    /\ VTarget \in Nat \ {0} /\ VCash \in Nat /\ VRetries \in Nat /\ MaxThrows \in Nat
    /\ VDust \in Nat /\ VAddsOn \subseteq VBuys
    /\ VBuys \cap VSells = {} /\ VBuys \cap VCloses = {} /\ VSells \cap VCloses = {}
    /\ IsFiniteSet(VExecs) /\ Settlement \notin VExecs

VARIABLES
    account,   \* VirtualCopyAccount: status and cash
    due,       \* expiresAt has passed
    exec,      \* VirtualCopyExecution: status, claim token, retryCount, target size
    lot,       \* VirtualPositionLot of each buy: entry and remaining size, its place by openedAt
    closed,    \* sum of VirtualPositionLotClose of each lot
    ledger,    \* VirtualAccountLedger: amount of each execution and of the settlement
    resolution,\* of the market: open, resolved, or settled for the account
    worker,    \* what each executor is doing
    lifecycle, \* what the lifecycle sweep is doing
    recon,     \* what the reconciliation is doing: the cash it read
    paused,    \* buying is paused
    throws,    \* failures so far
    late       \* executions taken from a worker that was only slow

virtualVars == <<account, due, exec, lot, closed, ledger, resolution, worker, lifecycle, recon, paused,
                 throws, late>>

NoWork == [pc |-> "idle", e |-> Settlement, size |-> 0]

VirtualInit ==
    /\ account = [st |-> "ACTIVE", cash |-> VCash] /\ due = FALSE
    /\ exec = [e \in VExecs |-> [st |-> "none", by |-> "none", retry |-> 0, target |-> VTarget]]
    /\ lot = [b \in VBuys |-> [entry |-> 0, remaining |-> 0, nth |-> 0]]
    /\ closed = [b \in VBuys |-> 0]
    /\ ledger = [k \in VExecs \cup {Settlement} |-> 0]
    /\ resolution = "open"
    /\ worker = [w \in VWorkers |-> NoWork]
    /\ lifecycle = "idle" /\ recon = [pc |-> "idle", cash |-> 0] /\ paused = FALSE
    /\ throws = 0 /\ late = {}

OpenLots == {b \in VBuys : lot[b].remaining > 0}
Remaining == [b \in VBuys |-> lot[b].remaining]
Available == SumFunctionOnSet(Remaining, VBuys)
LedgerSum == VCash + SumFunctionOnSet(ledger, VExecs \cup {Settlement})
Tradable == account.st \notin {"ARCHIVED", "SETTLED"}
Becomes(e, st) == exec' = [exec EXCEPT ![e].st = st]
Works(w, pc) == worker' = [worker EXCEPT ![w].pc = pc]
Rests(w) == worker' = [worker EXCEPT ![w] = NoWork]
Holds(w) == exec[worker[w].e].st = "SIMULATING" /\ exec[worker[w].e].by = w
Elsewhere == <<due, resolution, lifecycle, recon, paused>>

-----------------------------------------------------------------------------
(* Executions.                                                             *)

\* A leader's trade, once per subscription and trade; a sell only with something to close or
\* an active subscription.
DispatchVirtual(e) ==
    /\ exec[e].st = "none" /\ e \notin VCloses /\ Tradable
    /\ Becomes(e, "QUEUED")
    /\ UNCHANGED <<account, lot, closed, ledger, worker, throws, late, Elsewhere>>

\* The quote is checked against what is available and consumed with the execution's creation.
ConfirmVirtualClose(e) ==
    /\ e \in VCloses /\ exec[e].st = "none" /\ Tradable
    /\ \E size \in 1 .. Available :
          exec' = [exec EXCEPT ![e].st = "QUEUED", ![e].target = size]
    /\ UNCHANGED <<account, lot, closed, ledger, worker, throws, late, Elsewhere>>

\* Mutant: the claim does not ask for the status.
ClaimsAny(w, e) ==
    /\ worker[w].pc = "idle" /\ exec[e].st /= "none"
    /\ exec' = [exec EXCEPT ![e].st = "SIMULATING", ![e].by = w]
    /\ worker' = [worker EXCEPT ![w] = [NoWork EXCEPT !.pc = "look", !.e = e]]
    /\ UNCHANGED <<account, lot, closed, ledger, throws, late, Elsewhere>>

ClaimVirtual(w, e) ==
    /\ worker[w].pc = "idle" /\ exec[e].st = "QUEUED"
    /\ exec' = [exec EXCEPT ![e].st = "SIMULATING", ![e].by = w]
    /\ worker' = [worker EXCEPT ![w] = [NoWork EXCEPT !.pc = "look", !.e = e]]
    /\ UNCHANGED <<account, lot, closed, ledger, throws, late, Elsewhere>>

\* What can be sold is read, then the book: nothing available, no book or no fill skips the
\* execution.  Nothing ties the book to the resolution of the market.
LooksAtMarket(w) ==
    /\ worker[w].pc = "look"
    /\ LET e == worker[w].e
           most == IF e \in VBuys \/ Available >= exec[e].target THEN exec[e].target ELSE Available
       IN \/ Works(w, "skip")
          \/ \E size \in 1 .. most : worker' = [worker EXCEPT ![w].pc = "fill", ![w].size = size]
    /\ UNCHANGED <<account, exec, lot, closed, ledger, throws, late, Elsewhere>>

\* By id, whoever holds the claim by now.
SkipsVirtual(w) ==
    /\ worker[w].pc = "skip"
    /\ Becomes(worker[w].e, "SKIPPED") /\ Rests(w)
    /\ UNCHANGED <<account, lot, closed, ledger, throws, late, Elsewhere>>

LostClaim(w) ==
    /\ worker[w].pc = "fill" /\ ~Holds(w)
    /\ Rests(w)
    /\ UNCHANGED <<account, exec, lot, closed, ledger, throws, late, Elsewhere>>

\* The paused platform, an expired account, a position that is not to be added to and too
\* little cash.
BuyRefused(e, size) ==
    \/ paused \/ account.st /= "ACTIVE" \/ due
    \/ e \notin VAddsOn /\ Available > VDust
    \/ account.cash < size

Least(m, n) == IF m <= n THEN m ELSE n

\* Mutant: a sell closes what it looked up of every lot.
ClosesLookedUp(size) == [b \in VBuys |-> IF b \in OpenLots THEN size ELSE 0]

\* What a sell closes of each lot is planned again on the locked lots: all of the older ones
\* before any of a younger.
PlanCloses(size) ==
    [b \in VBuys |->
        LET older == {c \in VBuys : lot[c].nth < lot[b].nth}
            left  == size - SumFunctionOnSet(Remaining, older)
        IN IF left <= 0 THEN 0 ELSE Least(lot[b].remaining, left)]

\* In the transaction: a closed account, a buy that is refused or beyond a cap or within the
\* cooldown of its market, or nothing left to sell.
SkipsInFill(w) ==
    /\ worker[w].pc = "fill" /\ Holds(w)
    /\ ~Tradable \/ worker[w].e \in VBuys \/ Available = 0
    /\ Becomes(worker[w].e, "SKIPPED") /\ Rests(w)
    /\ UNCHANGED <<account, lot, closed, ledger, throws, late, Elsewhere>>

Opened == {b \in VBuys : lot[b].nth > 0}

FillsBuy(w) ==
    /\ worker[w].pc = "fill" /\ Holds(w) /\ Tradable
    /\ LET e == worker[w].e
           size == worker[w].size
       IN /\ e \in VBuys /\ ~BuyRefused(e, size)
          /\ account' = [account EXCEPT !.cash = @ - size]
          /\ ledger' = [ledger EXCEPT ![e] = @ - size]
          /\ lot' = [lot EXCEPT ![e] = [entry |-> size, remaining |-> size, nth |-> Cardinality(Opened) + 1]]
          /\ Becomes(e, "FILLED")
    /\ Rests(w)
    /\ UNCHANGED <<closed, throws, late, Elsewhere>>

\* The proceeds are those of the closes.
FillsSell(w) ==
    /\ worker[w].pc = "fill" /\ Holds(w) /\ Tradable
    /\ LET e == worker[w].e
           closes == PlanCloses(worker[w].size)
           proceeds == SumFunctionOnSet(closes, VBuys)
       IN /\ e \notin VBuys /\ proceeds > 0
          /\ lot' = [b \in VBuys |-> [lot[b] EXCEPT !.remaining = @ - closes[b]]]
          /\ closed' = [b \in VBuys |-> closed[b] + closes[b]]
          /\ account' = [account EXCEPT !.cash = @ + proceeds]
          /\ ledger' = [ledger EXCEPT ![e] = @ + proceeds]
          /\ Becomes(e, "FILLED")
    /\ Rests(w)
    /\ UNCHANGED <<throws, late, Elsewhere>>

\* An error before the transaction commits: tried VRetries times more, then dead.
WorkerThrows(w) ==
    /\ worker[w].pc /= "idle" /\ throws < MaxThrows /\ throws' = throws + 1
    /\ LET e == worker[w].e
       IN exec' = IF ~Holds(w) THEN exec
                  ELSE [exec EXCEPT ![e].st = IF @ = "SIMULATING" /\ exec[e].retry < VRetries THEN "QUEUED" ELSE "DEAD",
                                    ![e].by = "none", ![e].retry = @ + 1]
    /\ Rests(w)
    /\ UNCHANGED <<account, lot, closed, ledger, late, Elsewhere>>

WorkerStops(w) ==
    /\ worker[w].pc /= "idle" /\ throws < MaxThrows /\ throws' = throws + 1
    /\ Rests(w)
    /\ UNCHANGED <<account, exec, lot, closed, ledger, late, Elsewhere>>

\* Mutant: stale claims are taken back without limit.
RecoversForever(e) ==
    /\ exec[e].st = "SIMULATING"
    /\ throws < MaxThrows /\ throws' = throws + 1
    /\ exec' = [exec EXCEPT ![e].st = "QUEUED", ![e].by = "none", ![e].retry = @ + 1]
    /\ late' = IF \E w \in VWorkers : worker[w].e = e THEN late \cup {e} ELSE late
    /\ UNCHANGED <<account, lot, closed, ledger, worker, Elsewhere>>

\* A claim whose lease has passed is taken back, be its worker dead or slow.
RecoverClaim(e) ==
    /\ exec[e].st = "SIMULATING" /\ exec[e].retry < VRetries + 1
    /\ throws < MaxThrows /\ throws' = throws + 1
    /\ exec' = [exec EXCEPT ![e].st = "QUEUED", ![e].by = "none", ![e].retry = @ + 1]
    /\ late' = IF \E w \in VWorkers : worker[w].e = e THEN late \cup {e} ELSE late
    /\ UNCHANGED <<account, lot, closed, ledger, worker, Elsewhere>>

VirtualExecNext(execs) ==
    \/ \E e \in execs : DispatchVirtual(e) \/ ConfirmVirtualClose(e) \/ RecoverClaim(e)
    \/ \E w \in VWorkers :
          \/ \E e \in execs : ClaimVirtual(w, e)
          \/ LooksAtMarket(w) \/ SkipsVirtual(w) \/ LostClaim(w) \/ SkipsInFill(w)
          \/ FillsBuy(w) \/ FillsSell(w) \/ WorkerThrows(w) \/ WorkerStops(w)

-----------------------------------------------------------------------------
(* Settlement, lifecycle, archive.                                         *)

MarketResolves ==
    /\ resolution = "open" /\ resolution' = "resolved"
    /\ UNCHANGED <<account, due, exec, lot, closed, ledger, worker, lifecycle, recon, paused, throws, late>>

\* Once per account, subscription and token, for whatever lots are open then; the payout of a
\* share is between nought and one.
SettleVirtualToken ==
    /\ resolution = "resolved" /\ Tradable /\ OpenLots /= {}
    /\ resolution' = "settled"
    /\ \E payout \in 0 .. Available :
          /\ account' = [account EXCEPT !.cash = @ + payout]
          /\ ledger' = [ledger EXCEPT ![Settlement] = payout]
    /\ lot' = [b \in VBuys |-> [lot[b] EXCEPT !.remaining = 0]]
    /\ closed' = [b \in VBuys |-> closed[b] + lot[b].remaining]
    /\ UNCHANGED <<due, exec, worker, lifecycle, recon, paused, throws, late>>

TimeIsUp ==
    /\ ~due /\ due' = TRUE
    /\ UNCHANGED <<account, exec, lot, closed, ledger, resolution, worker, lifecycle, recon, paused, throws, late>>

LifecycleExpires ==
    /\ lifecycle = "idle" /\ due
    /\ account' = [account EXCEPT !.st = IF @ = "ACTIVE" THEN "EXPIRED_CLOSING" ELSE @]
    /\ lifecycle' = "read"
    /\ UNCHANGED <<due, exec, lot, closed, ledger, resolution, worker, recon, paused, throws, late>>

LifecycleReads ==
    /\ lifecycle = "read"
    /\ lifecycle' = IF OpenLots /= {} THEN "idle" ELSE "settle"
    /\ UNCHANGED <<account, due, exec, lot, closed, ledger, resolution, worker, recon, paused, throws, late>>

LifecycleSettles ==
    /\ lifecycle = "settle" /\ lifecycle' = "idle"
    /\ account' = [account EXCEPT !.st = IF @ = "EXPIRED_CLOSING" THEN "SETTLED" ELSE @]
    /\ UNCHANGED <<due, exec, lot, closed, ledger, resolution, worker, recon, paused, throws, late>>

\* Mutant: open lots are not counted.
ArchivesAnyway ==
    /\ account.st /= "ARCHIVED"
    /\ account' = [account EXCEPT !.st = "ARCHIVED"]
    /\ UNCHANGED <<due, exec, lot, closed, ledger, resolution, worker, lifecycle, recon, paused, throws, late>>

ArchiveAccount ==
    /\ account.st /= "ARCHIVED" /\ OpenLots = {}
    /\ account' = [account EXCEPT !.st = "ARCHIVED"]
    /\ UNCHANGED <<due, exec, lot, closed, ledger, resolution, worker, lifecycle, recon, paused, throws, late>>

LifecycleNext ==
    \/ MarketResolves \/ SettleVirtualToken \/ TimeIsUp
    \/ LifecycleExpires \/ LifecycleReads \/ LifecycleSettles \/ ArchiveAccount

-----------------------------------------------------------------------------
(* Reconciliation: the cash of the accounts, then the ledger of each.      *)

ReconcileReads ==
    /\ recon.pc = "idle" /\ account.st /= "ARCHIVED"
    /\ recon' = [pc |-> "sum", cash |-> account.cash]
    /\ UNCHANGED <<account, due, exec, lot, closed, ledger, resolution, worker, lifecycle, paused, throws, late>>

\* A cash that is not the sum of the ledger and a lot out of its bounds pause the platform.  So
\* may what is not modelled: sums that are compared to the last digit though they are rounded,
\* the snapshot of the equity, and what is found in other accounts.
ReconcileSums ==
    /\ recon.pc = "sum"
    /\ \/ paused' = TRUE
       \/ /\ LedgerSum = recon.cash /\ \A b \in VBuys : lot[b].remaining \in 0 .. lot[b].entry
          /\ UNCHANGED paused
    /\ recon' = [pc |-> "idle", cash |-> 0]
    /\ UNCHANGED <<account, due, exec, lot, closed, ledger, resolution, worker, lifecycle, throws, late>>

ReconcileNext == ReconcileReads \/ ReconcileSums

VirtualNext == VirtualExecNext(VExecs) \/ LifecycleNext \/ ReconcileNext

VirtualSpec == VirtualInit /\ [][VirtualNext]_virtualVars
-----------------------------------------------------------------------------
(* Properties.                                                             *)

\* Types of the virtual account's state; an execution that is still to be filled was
\* tried again at most once more than its retries allow.
VirtualTypeOK ==
    /\ account \in [st : {"ACTIVE", "EXPIRED_CLOSING", "SETTLED", "ARCHIVED"}, cash : Int]
    /\ due \in BOOLEAN /\ paused \in BOOLEAN /\ throws \in 0 .. MaxThrows
    /\ \A e \in VExecs :
          /\ exec[e].st \in {"none", "QUEUED", "SIMULATING", "SKIPPED", "FILLED", "DEAD"}
          /\ exec[e].target \in Nat \ {0}
          /\ exec[e].retry <= IF exec[e].st \in {"QUEUED", "SIMULATING"} THEN VRetries + 1 ELSE VRetries + 2
    /\ lot \in [VBuys -> [entry : Nat, remaining : Int, nth : Nat]] /\ closed \in [VBuys -> Int]
    /\ ledger \in [VExecs \cup {Settlement} -> Int] /\ resolution \in {"open", "resolved", "settled"}
    /\ \A w \in VWorkers : worker[w].pc \in {"idle", "look", "skip", "fill"} /\ worker[w].size \in Nat
    /\ lifecycle \in {"idle", "read", "settle"} /\ recon \in [pc : {"idle", "sum"}, cash : Int]
    /\ late \subseteq VExecs

\* The money and the tokens of the account are conserved: cash is never negative and is what the
\* ledger adds up to, and of each lot what was closed and what remains make what was bought,
\* though sells, manual closes and the settlement are sized before the lots are locked and take
\* from several lots at once.
VirtualConserved ==
    /\ account.cash >= 0 /\ account.cash = LedgerSum
    /\ \A b \in VBuys : lot[b].remaining >= 0 /\ closed[b] + lot[b].remaining = lot[b].entry

\* An account is never settled or archived over an open position, which no sell, close or
\* settlement could touch any more, whatever was bought between the sweep's steps.
OpenLotsCanClose == OpenLots /= {} => Tradable

\* A filled execution, whose cash and lot have moved, stays filled, unless a worker lost its claim
\* only by being slow and then skips by id what another has filled.
FilledStaysFilled ==
    [][\A e \in VExecs : exec[e].st = "FILLED" /\ exec'[e].st /= "FILLED" => e \in late]_virtualVars
=============================================================================

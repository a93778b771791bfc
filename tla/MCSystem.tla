------------------------------- MODULE MCSystem -------------------------------
(***************************************************************************)
(* The components around the copy engine in one run.  They share no state  *)
(* in these models, so their product would only multiply what each of them *)
(* does: a behaviour chooses a part of the system at the start, and the    *)
(* rest stands still.  Each part is a component with some of its actors.   *)
(***************************************************************************)
EXTENDS DepositPayout, GasShop, EoaForward, VirtualCopy, CopyRisk, CopyFunding

CONSTANTS f1, r1, r2

VARIABLE part

MCRobotOf == [b \in RiskRows |-> IF b = "b2" THEN r2 ELSE r1]
MCRiskRows == {"b1", "b2", "b3", "s"}
MCSellRows == {"s"}

\* What the parts name: executions, rows, and the process that answers the page.
ASSUME SystemAssumption ==
  {"b1", "b2", "s1", "m1"} \subseteq VExecs /\ {"b1", "b2", "b3", "s"} \subseteq RiskRows /\ "api" \in Traders

systemVars == <<payVars, shopVars, fwdVars, virtualVars, riskVars, fundingVars, part>>

Parts ==
  {"withdrawal", "purchase", "two payments",
   "gas and packages", "tiers", "commissions", "forwards", "failing forwards",
   "virtual orders", "virtual buys", "virtual sell", "virtual lots",
   "robots", "one robot", "buy and sell", "funding", "failing funding"}

SystemInit ==
  /\ part \in Parts
  /\ PayInit /\ GasInit /\ FwdInit /\ VirtualInit
  /\ RiskInit /\ FundingInit
  /\ upline <=> part = "commissions"

\* All but one component stand still.
OnlyPayments == UNCHANGED <<shopVars, fwdVars, virtualVars, riskVars, fundingVars, part>>
OnlyShop     == UNCHANGED <<payVars, fwdVars, virtualVars, riskVars, fundingVars, part>>
OnlyForwards == UNCHANGED <<payVars, shopVars, virtualVars, riskVars, fundingVars, part>>
OnlyVirtual  == UNCHANGED <<payVars, shopVars, fwdVars, riskVars, fundingVars, part>>
OnlyRisk     == UNCHANGED <<payVars, shopVars, fwdVars, virtualVars, fundingVars, part>>
OnlyFunding  == UNCHANGED <<payVars, shopVars, fwdVars, virtualVars, riskVars, part>>

\* Two calls of one request, with a stop and with looks at the preview, or of
\* two requests of the wallet.
PayPart ==
  \/ part = "withdrawal" /\ PayNextOf(Withdrawals, {})
  \/ part = "purchase" /\ PayNextOf({}, Purchases)
  \/ part = "two payments" /\ PayNext /\ stops' = 0
     /\ (\A c \in PayCalls : pcall'[c].slot = 1 /\ (pcall'[c].key = NoKey => pcall'[c].pc = "idle"))
     /\ (\A k \in Purchases : ~request'[k].old)

ShopPart ==
  \/ part = "gas and packages" /\ (SpendNext \/ PackageNext \/ \E c \in ShopCalls : ShopHalts(c))
  \/ part = "tiers" /\ (PackageNext \/ TierNext \/ \E c \in ShopCalls : ShopHalts(c))
     /\ Cardinality({o \in GasOrders : order'[o] /= "none"}) <= 1
  \/ part = "commissions" /\ (PackageNext \/ ClaimNext \/ \E c \in ShopCalls : ShopHalts(c))

\* Orders of all kinds without the end of the market; the end of the market,
\* the account and the reconciliation beside buys or a sell; or sales from
\* two lots, with the end of the market.
VirtualPart ==
  \/ part = "virtual orders" /\ VirtualExecNext({"b1", "s1", "m1"})
  \/ part = "virtual buys" /\ VirtualExecNext({"b1", "b2"}) /\ throws' = 0
  \/ part = "virtual sell" /\ VirtualExecNext({"b1", "s1"}) /\ throws' = 0
  \/ part \in {"virtual buys", "virtual sell"} /\ (LifecycleNext \/ ReconcileNext)
  \/ part = "virtual lots" /\ VirtualExecNext({"b1", "b2", "s1", "m1"}) /\ throws' = 0
  \/ part = "virtual lots" /\ (MarketResolves \/ SettleVirtualToken)

RiskPart ==
  \/ part = "robots" /\ RiskNextOf({"b1", "b2"})
  \/ part = "one robot" /\ RiskNextOf({"b1", "b3"})
  \/ part = "buy and sell" /\ RiskNextOf({"b1", "s"})

\* The API, which answers the page and the callback, and the worker, or the
\* API alone with reads that fail and stops.
FundingPart ==
  \/ part = "funding" /\ FundingNextOf("api", Traders) /\ mishaps' = 0
  \/ part = "failing funding" /\ FundingNextOf("api", {"api"})

\* Two forwards at once, or two that may fail and may lack gas, one of the callbacks and
\* one of the polls.
FwdPart ==
  \/ part = "forwards" /\ FwdNext /\ faults' = 0 /\ pol'
  \/ part = "failing forwards" /\ FwdNext
     /\ \A c \in FwdCalls : fcall'[c].pc = "idle" \/ fcall'[c].piped = (c = f1)

SystemNext ==
  \/ PayPart /\ OnlyPayments
  \/ ShopPart /\ OnlyShop
  \/ FwdPart /\ OnlyForwards
  \/ VirtualPart /\ OnlyVirtual
  \/ RiskPart /\ OnlyRisk
  \/ FundingPart /\ OnlyFunding

\* FwdFairness and FundingFairness within the parts they are about.
ForwardGoesOn(c) ==
  \/ part \in {"forwards", "failing forwards"} /\ ForwardStep(c)
  \/ part = "forwards" /\ BalancePoll(c)
  \/ part = "failing forwards" /\ c /= f1 /\ BalancePoll(c)

FundingParts == {"funding", "failing funding"}

SystemFairness ==
  /\ WF_fwdVars(part \in {"forwards", "failing forwards"} /\ \E i \in DOMAIN sent : ChainMines(i))
  /\ \A c \in FwdCalls : WF_fwdVars(ForwardGoesOn(c))
  /\ \A t \in Traders : WF_fundingVars(part \in FundingParts /\ TraderStep(t))
  /\ WF_fundingVars(part \in FundingParts /\ (CallbackLedger("api") \/ CallbackClears))
  /\ WF_fundingVars(part \in FundingParts /\ PageStep("api"))

SystemSpec == SystemInit /\ [][SystemNext]_systemVars /\ SystemFairness

\* Types of every component.
SystemTypeOK ==
  /\ part \in Parts
  /\ PayTypeOK /\ GasTypeOK /\ FwdTypeOK /\ VirtualTypeOK /\ RiskTypeOK
  /\ FundingTypeOK
=============================================================================

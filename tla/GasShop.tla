------------------------------ MODULE GasShop ------------------------------
(***************************************************************************)
(* One user's gas balance, gas package orders and affiliate tier, and the  *)
(* commissions an upline earns on the orders.  Calls run beside each other *)
(* in READ COMMITTED transactions: what a statement read may be old when a *)
(* later statement writes, until the first write of the user's row locks   *)
(* it.  An order costs one gas, a package brings PackageGas.               *)
(***************************************************************************)
EXTENDS Integers, FiniteSets

CONSTANTS
    ShopCalls,   \* calls that may run at once
    GasOrders,   \* gas package orders
    PackageGas,  \* gas of a package
    StartGas,    \* gas at the start
    MaxSpends,   \* gas spends (bound)
    TopTier,     \* MAX_AUTO_UPGRADE_TIER
    MaxTierSets, \* tiers set by an administrator (bound)
    MaxPayouts,  \* payouts of one commission (bound)
    MaxHalts     \* stops of a process in mid-call (bound)

ASSUME GasAssumption ==
    /\ PackageGas \in Nat /\ StartGas \in Nat /\ MaxSpends \in Nat /\ MaxTierSets \in Nat
    /\ TopTier \in Nat \ {0} /\ MaxPayouts \in Nat \ {0} /\ MaxHalts \in Nat

VARIABLES
    gas,         \* User.gasBalance
    spends,      \* gas spends so far
    order,       \* GasPackageOrder: none, PENDING, PAID or FULFILLED
    grants,      \* how often an order's gas was added to the balance
    upline,      \* the user was referred by one who earns a commission
    commission,  \* MallOrderCommission of each order: none, open or claimed
    payouts,     \* transfers of the treasury for each commission
    tier,        \* User.affiliateTier
    tierSets,    \* tiers set by an administrator
    gcall,       \* what each call is doing
    halts,       \* process stops so far
    crossed,     \* orders fulfilled while another call was between its read and its write of them
    unlucky      \* commissions whose payout was cut off, unanswered, or reserved in a conflict

shopVars == <<gas, spends, order, grants, upline, commission, payouts, tier, tierSets, gcall, halts,
              crossed, unlucky>>
gasVars == <<gas, spends>>
orderVars == <<order, grants, crossed>>
commVars == <<commission, payouts, unlucky>>
tierVars == <<tier, tierSets>>

NoShopCall == [pc |-> "idle", orders |-> {}, tier |-> 0, debt |-> FALSE, raced |-> FALSE]

GasInit ==
    /\ gas = StartGas /\ spends = 0
    /\ order = [o \in GasOrders |-> "none"] /\ grants = [o \in GasOrders |-> 0]
    /\ upline \in BOOLEAN
    /\ commission = [o \in GasOrders |-> "none"] /\ payouts = [o \in GasOrders |-> 0]
    /\ tier = 0 /\ tierSets = 0
    /\ gcall = [c \in ShopCalls |-> NoShopCall]
    /\ halts = 0 /\ crossed = {} /\ unlucky = {}

At(c, pc) == gcall[c].pc = pc
To(c, pc) == gcall' = [gcall EXCEPT ![c].pc = pc]
Over(c) == gcall' = [gcall EXCEPT ![c] = NoShopCall]
TheOrder(c) == CHOOSE o \in gcall[c].orders : TRUE
\* The call ends; what the calls in old have read is old.
OverAndRaced(c, old) ==
    gcall' = [d \in ShopCalls |-> IF d = c THEN NoShopCall
                                  ELSE [gcall[d] EXCEPT !.raced = @ \/ d \in old]]

-----------------------------------------------------------------------------
(* Gas of an order: assert before the order, deduct after it.              *)

\* A copied sell may go into debt and is not checked beforehand.
OrderAssertsGas(c) ==
    /\ At(c, "idle") /\ spends < MaxSpends
    /\ \E debt \in BOOLEAN :
          /\ debt \/ gas >= 1
          /\ gcall' = [gcall EXCEPT ![c].pc = "placing", ![c].debt = debt]
    /\ UNCHANGED <<gasVars, orderVars, upline, commVars, tierVars, halts>>

OrderPlaced(c) ==
    /\ At(c, "placing")
    /\ To(c, "charge") \/ Over(c)
    /\ UNCHANGED <<gasVars, orderVars, upline, commVars, tierVars, halts>>

\* Mutant: the balance is decremented without a look at it.
SpendsBlindly(c) ==
    /\ At(c, "charge") /\ To(c, "spend")
    /\ UNCHANGED <<gasVars, orderVars, upline, commVars, tierVars, halts>>

\* Too little gas is only logged: the order stands.
SpendReads(c) ==
    /\ At(c, "charge")
    /\ IF gcall[c].debt \/ gas >= 1 THEN To(c, "spend") ELSE Over(c)
    /\ UNCHANGED <<gasVars, orderVars, upline, commVars, tierVars, halts>>

SpendGasBalance(c) ==
    /\ At(c, "spend") /\ spends < MaxSpends
    /\ gas' = gas - 1 /\ spends' = spends + 1
    /\ OverAndRaced(c, {d \in ShopCalls : At(d, "spend")})
    /\ UNCHANGED <<orderVars, upline, commVars, tierVars, halts>>

-----------------------------------------------------------------------------
(* Gas package orders.                                                     *)

CreatePackageOrder(o) ==
    /\ order[o] = "none"
    /\ order' = [order EXCEPT ![o] = "PENDING"]
    /\ UNCHANGED <<gasVars, grants, crossed, upline, commVars, tierVars, gcall, halts>>

ConfirmReads(c, o) ==
    /\ At(c, "idle") /\ order[o] = "PENDING"
    /\ gcall' = [gcall EXCEPT ![c].pc = "confirm", ![c].orders = {o}]
    /\ UNCHANGED <<gasVars, orderVars, upline, commVars, tierVars, halts>>

\* The update is by id, whatever the order has become.
ConfirmWrites(c) ==
    /\ At(c, "confirm")
    /\ order' = [order EXCEPT ![TheOrder(c)] = "PAID"]
    /\ Over(c)
    /\ UNCHANGED <<gasVars, grants, crossed, upline, commVars, tierVars, halts>>

\* Mutant: an order that is fulfilled is fulfilled again.
FulfilsAny(c, o) ==
    /\ At(c, "idle") /\ order[o] \in {"PAID", "FULFILLED"}
    /\ gcall' = [gcall EXCEPT ![c].pc = "fulfil", ![c].orders = {o}]
    /\ UNCHANGED <<gasVars, orderVars, upline, commVars, tierVars, halts>>

FulfilReads(c, o) ==
    /\ At(c, "idle") /\ order[o] = "PAID"
    /\ gcall' = [gcall EXCEPT ![c].pc = "fulfil", ![c].orders = {o}]
    /\ UNCHANGED <<gasVars, orderVars, upline, commVars, tierVars, halts>>

\* A second commission of an order violates its unique key and rolls the transaction back.
\* The first package activates tier 1.
FulfilPaidPackageOrder(c) ==
    /\ At(c, "fulfil")
    /\ LET o == TheOrder(c)
       IN /\ IF upline /\ commission[o] /= "none"
             THEN Over(c) /\ UNCHANGED <<gas, orderVars, commission, tier>>
             ELSE /\ gas' = gas + PackageGas
                  /\ order' = [order EXCEPT ![o] = "FULFILLED"]
                  /\ grants' = [grants EXCEPT ![o] = @ + 1]
                  /\ commission' = IF upline THEN [commission EXCEPT ![o] = "open"] ELSE commission
                  /\ tier' = IF tier = 0 THEN 1 ELSE tier
                  /\ crossed' = crossed \cup
                        {p \in {o} : \E d \in ShopCalls \ {c} :
                                        p \in gcall[d].orders /\ gcall[d].pc \in {"confirm", "fulfil"}}
                  /\ OverAndRaced(c, {d \in ShopCalls : tier = 0 /\ gcall[d].pc \in {"tierWrite", "upgrade"}})
    /\ UNCHANGED <<spends, upline, payouts, unlucky, tierSets, halts>>

-----------------------------------------------------------------------------
(* Affiliate tiers.                                                        *)

\* Mutant: the highest tier is not checked.
TierBuysAny(c) ==
    /\ At(c, "idle")
    /\ \E t \in tier + 1 .. TopTier + 1 : gcall' = [gcall EXCEPT ![c].pc = "tierPay", ![c].tier = t]
    /\ UNCHANGED <<gasVars, orderVars, upline, commVars, tierVars, halts>>

\* The target is above the tier the purchase starts with.
TierBuys(c) ==
    /\ At(c, "idle")
    /\ \E t \in tier + 1 .. TopTier : gcall' = [gcall EXCEPT ![c].pc = "tierPay", ![c].tier = t]
    /\ UNCHANGED <<gasVars, orderVars, upline, commVars, tierVars, halts>>

TierPaid(c) ==
    /\ At(c, "tierPay")
    /\ To(c, "tierRead") \/ Over(c)
    /\ UNCHANGED <<gasVars, orderVars, upline, commVars, tierVars, halts>>

\* Mutant: the tier is written whatever it has become.
FulfilsAnyTier(c) ==
    /\ At(c, "tierRead") /\ To(c, "tierWrite")
    /\ UNCHANGED <<gasVars, orderVars, upline, commVars, tierVars, halts>>

\* Paid for a tier reached meanwhile, the order is rolled back.
FulfilTierReads(c) ==
    /\ At(c, "tierRead")
    /\ IF gcall[c].tier <= tier THEN Over(c) ELSE To(c, "tierWrite")
    /\ UNCHANGED <<gasVars, orderVars, upline, commVars, tierVars, halts>>

WritesTier(c) ==
    /\ tier' = gcall[c].tier
    /\ OverAndRaced(c, {d \in ShopCalls : gcall[d].pc \in {"tierWrite", "upgrade"}})
    /\ UNCHANGED <<gasVars, orderVars, upline, commVars, tierSets, halts>>

FulfilTierWrites(c) == At(c, "tierWrite") /\ WritesTier(c)

\* A new or upgraded referral: the tier the counts allow is computed from what was read.
AutoUpgradeReads(c) ==
    /\ At(c, "idle") /\ tier > 0
    /\ \E t \in tier + 1 .. TopTier : gcall' = [gcall EXCEPT ![c].pc = "upgrade", ![c].tier = t]
    /\ UNCHANGED <<gasVars, orderVars, upline, commVars, tierVars, halts>>

AutoUpgradeWrites(c) == At(c, "upgrade") /\ WritesTier(c)

AdminSetsTier(t) ==
    /\ tierSets < MaxTierSets
    /\ tier' = t /\ tierSets' = tierSets + 1
    /\ gcall' = [d \in ShopCalls |->
                   [gcall[d] EXCEPT !.raced = @ \/ gcall[d].pc \in {"tierWrite", "upgrade"}]]
    /\ UNCHANGED <<gasVars, orderVars, upline, commVars, halts>>

-----------------------------------------------------------------------------
(* The upline claims its commissions.                                      *)

ClaimReads(c) ==
    /\ At(c, "idle")
    /\ LET rows == {o \in GasOrders : commission[o] = "open"}
       IN rows /= {} /\ gcall' = [gcall EXCEPT ![c].pc = "reserve", ![c].orders = rows]
    /\ UNCHANGED <<gasVars, orderVars, upline, commVars, tierVars, halts>>

\* Mutant: rows are reserved that another claim has.
ReservesAll(c) ==
    /\ At(c, "reserve")
    /\ commission' = [o \in GasOrders |-> IF o \in gcall[c].orders THEN "claimed" ELSE commission[o]]
    /\ To(c, "payout")
    /\ UNCHANGED <<gasVars, orderVars, upline, payouts, unlucky, tierVars, halts>>

\* Fewer rows than were read: a conflict, and those it did reserve stay reserved.
ClaimReserves(c) ==
    /\ At(c, "reserve")
    /\ LET rows == {o \in gcall[c].orders : commission[o] = "open"}
       IN /\ commission' = [o \in GasOrders |-> IF o \in rows THEN "claimed" ELSE commission[o]]
          /\ IF rows = gcall[c].orders
             THEN To(c, "payout") /\ UNCHANGED unlucky
             ELSE Over(c) /\ unlucky' = unlucky \cup rows
    /\ UNCHANGED <<gasVars, orderVars, upline, payouts, tierVars, halts>>

\* The transfer is made or not, and the call may throw in either case.
TreasuryPays(c) ==
    /\ At(c, "payout")
    /\ \E sent, answered \in BOOLEAN :
          /\ answered => sent
          /\ sent => \A o \in gcall[c].orders : payouts[o] < MaxPayouts
          /\ payouts' = [o \in GasOrders |-> IF sent /\ o \in gcall[c].orders
                                             THEN payouts[o] + 1 ELSE payouts[o]]
          /\ unlucky' = IF sent /\ ~answered THEN unlucky \cup gcall[c].orders ELSE unlucky
          /\ To(c, IF answered THEN "record" ELSE "release")
    /\ UNCHANGED <<gasVars, orderVars, upline, commission, tierVars, halts>>

\* Mutant: the reservation of a failed payout is kept.
KeepsReserved(c) ==
    /\ At(c, "release") /\ Over(c)
    /\ UNCHANGED <<gasVars, orderVars, upline, commVars, tierVars, halts>>

ClaimReleases(c) ==
    /\ At(c, "release")
    /\ commission' = [o \in GasOrders |-> IF o \in gcall[c].orders THEN "open" ELSE commission[o]]
    /\ Over(c)
    /\ UNCHANGED <<gasVars, orderVars, upline, payouts, unlucky, tierVars, halts>>

ClaimRecords(c) ==
    /\ At(c, "record") /\ Over(c)
    /\ UNCHANGED <<gasVars, orderVars, upline, commVars, tierVars, halts>>

ShopHalts(c) ==
    /\ ~At(c, "idle") /\ halts < MaxHalts
    /\ halts' = halts + 1
    /\ unlucky' = IF gcall[c].pc \in {"payout", "release", "record"}
                  THEN unlucky \cup gcall[c].orders ELSE unlucky
    /\ Over(c)
    /\ UNCHANGED <<gasVars, orderVars, upline, commission, payouts, tierVars>>

SpendNext == \E c \in ShopCalls :
    OrderAssertsGas(c) \/ OrderPlaced(c) \/ SpendReads(c) \/ SpendGasBalance(c)

PackageNext ==
    \/ \E o \in GasOrders : CreatePackageOrder(o) \/ \E c \in ShopCalls : ConfirmReads(c, o) \/ FulfilReads(c, o)
    \/ \E c \in ShopCalls : ConfirmWrites(c) \/ FulfilPaidPackageOrder(c)

TierNext ==
    \/ \E c \in ShopCalls :
          \/ TierBuys(c) \/ TierPaid(c) \/ FulfilTierReads(c) \/ FulfilTierWrites(c)
          \/ AutoUpgradeReads(c) \/ AutoUpgradeWrites(c)
    \/ \E t \in 0 .. TopTier : AdminSetsTier(t)

ClaimNext == \E c \in ShopCalls :
    ClaimReads(c) \/ ClaimReserves(c) \/ TreasuryPays(c) \/ ClaimReleases(c) \/ ClaimRecords(c)

GasNext == SpendNext \/ PackageNext \/ TierNext \/ ClaimNext \/ \E c \in ShopCalls : ShopHalts(c)

GasSpec == GasInit /\ [][GasNext]_shopVars

-----------------------------------------------------------------------------
(* Properties.                                                             *)

\* Types of the shop's state.
GasTypeOK ==
    /\ gas \in Int /\ spends \in 0 .. MaxSpends
    /\ order \in [GasOrders -> {"none", "PENDING", "PAID", "FULFILLED"}]
    /\ grants \in [GasOrders -> Nat] /\ upline \in BOOLEAN
    /\ commission \in [GasOrders -> {"none", "open", "claimed"}]
    /\ payouts \in [GasOrders -> 0 .. MaxPayouts]
    /\ tier \in 0 .. TopTier /\ tierSets \in 0 .. MaxTierSets /\ halts \in 0 .. MaxHalts
    /\ crossed \subseteq GasOrders /\ unlucky \subseteq GasOrders
    /\ gcall \in [ShopCalls -> [pc : {"idle", "placing", "charge", "spend", "confirm", "fulfil", "tierPay",
                                      "tierRead", "tierWrite", "upgrade", "reserve", "payout", "release", "record"},
                                orders : SUBSET GasOrders, tier : 0 .. TopTier, debt : BOOLEAN,
                                raced : BOOLEAN]]

\* A spend that may not go into debt brings the balance below zero only when another spend took
\* gas between its check and its decrement.
OverspendNeedsOverlap ==
    [][gas' < 0 /\ gas' < gas
         => \E c \in ShopCalls : At(c, "spend") /\ (gcall[c].debt \/ gcall[c].raced)]_shopVars

\* An order's gas is added to the balance a second time only when two calls about the order
\* overlapped and no upline earned a commission on it.
GrantedTwiceNeedsOverlap ==
    \A o \in GasOrders : grants[o] > 1 => o \in crossed /\ commission[o] = "none"

\* A commission is paid out again only after a payout that was made but not answered.
PaidAgainNeedsLostAnswer ==
    [][\A o \in GasOrders : payouts'[o] > payouts[o] /\ payouts[o] > 0 => o \in unlucky]_shopVars

\* A commission that is claimed while no claim is at work was paid, unless its claim was cut off
\* or only part of the rows it had read could be reserved.
ClaimedIsPaid ==
    \A o \in GasOrders :
        commission[o] = "claimed" /\ o \notin unlucky
        /\ (\A c \in ShopCalls : gcall[c].pc \in {"payout", "release", "record"} => o \notin gcall[c].orders)
           => payouts[o] > 0

\* The tier of a user drops only at an administrator's hand, or when a purchase or an automatic
\* upgrade writes what it computed from a tier that was raised since.
TierDropNeedsOverlap ==
    [][tier' < tier => tierSets' > tierSets \/ \E c \in ShopCalls :
          gcall[c].pc \in {"tierWrite", "upgrade"} /\ gcall[c].raced /\ gcall'[c].pc = "idle"]_shopVars
=============================================================================

---------------------------- MODULE SystemProofs ----------------------------
(***************************************************************************)
(* The components around the copy engine side by side: a behaviour of the  *)
(* composition is one of a component, whose invariant it keeps while the   *)
(* others stand still.                                                     *)
(***************************************************************************)
EXTENDS MCSystem, CustodyProofs, CopyGuardProofs

ComponentsInv ==
  /\ part \in Parts
  /\ PayInv /\ GasInv /\ FwdInv /\ PolOK
  /\ VirtualInv /\ BooksInv /\ RiskInv /\ FundingInv

LEMMA SystemInitInv == SystemInit => ComponentsInv
<1> SUFFICES ASSUME SystemInit PROVE ComponentsInv
  OBVIOUS
<1>1. PayInit /\ GasInit /\ FwdInit /\ VirtualInit /\ RiskInit /\ FundingInit /\ part \in Parts
  BY DEF SystemInit
<1> QED BY <1>1, PayInitInv, GasInitInv, FwdInitInv, FwdInitPol, VirtualInitInv, BooksInitInv,
           RiskInitInv, FundingInitInv
        DEF ComponentsInv

\* The parts narrow what a component does; they add nothing to it.
LEMMA PayPartSteps == PayPart => PayNext
BY DEF PayPart, PayNext, PayNextOf

LEMMA ShopPartSteps == ShopPart => GasNext
BY DEF ShopPart, GasNext

LEMMA FwdPartSteps == FwdPart => FwdNext
BY DEF FwdPart

LEMMA SomeExecs == ASSUME NEW execs \in SUBSET VExecs, VirtualExecNext(execs) PROVE VirtualExecNext(VExecs)
BY DEF VirtualExecNext

LEMMA VirtualPartSteps == VirtualPart => VirtualNext
<1> SUFFICES ASSUME VirtualPart PROVE VirtualNext
  OBVIOUS
<1>1. /\ {"b1", "s1", "m1"} \in SUBSET VExecs /\ {"b1", "b2"} \in SUBSET VExecs
      /\ {"b1", "s1"} \in SUBSET VExecs /\ {"b1", "b2", "s1", "m1"} \in SUBSET VExecs
  BY SystemAssumption
<1>2. \/ VirtualExecNext({"b1", "s1", "m1"}) \/ VirtualExecNext({"b1", "b2"}) \/ VirtualExecNext({"b1", "s1"})
      \/ VirtualExecNext({"b1", "b2", "s1", "m1"}) \/ LifecycleNext \/ ReconcileNext
  BY DEF VirtualPart, LifecycleNext
<1> QED BY <1>1, <1>2, SomeExecs DEF VirtualNext

LEMMA SomeRows == ASSUME NEW bs \in SUBSET RiskRows, RiskNextOf(bs) PROVE RiskNext
BY DEF RiskNext, RiskNextOf

LEMMA RiskPartSteps == RiskPart => RiskNext
<1> SUFFICES ASSUME RiskPart PROVE RiskNext
  OBVIOUS
<1>1. {"b1", "b2"} \in SUBSET RiskRows /\ {"b1", "b3"} \in SUBSET RiskRows /\ {"b1", "s"} \in SUBSET RiskRows
  BY SystemAssumption
<1> QED BY <1>1, SomeRows DEF RiskPart

LEMMA FundingPartSteps == FundingPart => FundingNextOf("api", Traders)
<1> SUFFICES ASSUME FundingPart PROVE FundingNextOf("api", Traders)
  OBVIOUS
<1>1. FundingNextOf("api", Traders) \/ FundingNextOf("api", {"api"})
  BY DEF FundingPart
<1> QED BY <1>1, SystemAssumption DEF FundingNextOf

\* Every step of the composition is a step or a stutter of each component.
LEMMA ComponentSteps ==
  ASSUME [SystemNext]_systemVars
  PROVE  /\ [PayNext]_payVars /\ [GasNext]_shopVars /\ [FwdNext]_fwdVars
         /\ [VirtualNext]_virtualVars /\ [RiskNext]_riskVars
         /\ [FundingNextOf("api", Traders)]_fundingVars
         /\ part' = part
<1>1. CASE UNCHANGED systemVars
  BY <1>1 DEF systemVars
<1>2. CASE PayPart /\ OnlyPayments
  BY <1>2, PayPartSteps DEF OnlyPayments
<1>3. CASE ShopPart /\ OnlyShop
  BY <1>3, ShopPartSteps DEF OnlyShop
<1>4. CASE FwdPart /\ OnlyForwards
  BY <1>4, FwdPartSteps DEF OnlyForwards
<1>5. CASE VirtualPart /\ OnlyVirtual
  BY <1>5, VirtualPartSteps DEF OnlyVirtual
<1>6. CASE RiskPart /\ OnlyRisk
  BY <1>6, RiskPartSteps DEF OnlyRisk
<1>7. CASE FundingPart /\ OnlyFunding
  BY <1>7, FundingPartSteps DEF OnlyFunding
<1> QED BY <1>1, <1>2, <1>3, <1>4, <1>5, <1>6, <1>7 DEF SystemNext

LEMMA SystemNextInv == ComponentsInv /\ [SystemNext]_systemVars => ComponentsInv'
<1> SUFFICES ASSUME ComponentsInv, [SystemNext]_systemVars PROVE ComponentsInv'
  OBVIOUS
<1>1. /\ [PayNext]_payVars /\ [GasNext]_shopVars /\ [FwdNext]_fwdVars
      /\ [VirtualNext]_virtualVars /\ [RiskNext]_riskVars
      /\ [FundingNextOf("api", Traders)]_fundingVars
      /\ part' = part
  BY ComponentSteps
<1>2. PayInv' /\ GasInv' /\ FwdInv' /\ PolOK'
  BY <1>1, PayNextInv, GasNextInv, FwdNextInv, FwdNextPol DEF ComponentsInv
<1>3. VirtualInv' /\ BooksInv' /\ RiskInv'
  BY <1>1, VirtualNextInv, BooksNextInv, RiskNextInv DEF ComponentsInv
<1>4. FundingInv'
  BY <1>1, SystemAssumption, FundingNextInv DEF ComponentsInv
<1> QED BY <1>1, <1>2, <1>3, <1>4 DEF ComponentsInv

\* The components keep their types side by side.
THEOREM SystemTyped == SystemSpec => []SystemTypeOK
<1>1. ComponentsInv => SystemTypeOK
  BY PayTypes, GasTypes, FwdTypes, VirtualTypes, RiskTypes, FundingTypes DEF ComponentsInv, SystemTypeOK
<1> QED BY <1>1, SystemInitInv, SystemNextInv, PTL DEF SystemSpec

\* What the components promise of their own specifications they keep side by side.
THEOREM SystemCorrect ==
  SystemSpec => [](/\ PaidIffCredited /\ GrantedTwiceNeedsOverlap /\ ClaimedIsPaid /\ DebitsMatchTransfers
                   /\ VirtualConserved /\ OpenLotsCanClose /\ WarnedBesideBalance)
<1>1. ComponentsInv => /\ PaidIffCredited /\ GrantedTwiceNeedsOverlap /\ ClaimedIsPaid /\ DebitsMatchTransfers
                       /\ VirtualConserved /\ OpenLotsCanClose /\ WarnedBesideBalance
  BY PayPromise, GrantPromise, ClaimPromise, FwdPromise, BooksPromise, LotsPromise, WarningPromise DEF ComponentsInv
<1> QED BY <1>1, SystemInitInv, SystemNextInv, PTL DEF SystemSpec

\* A behaviour of the composition is one of each component that states no fairness.
LEMMA SystemParts == SystemSpec => PaySpec /\ GasSpec /\ VirtualSpec /\ RiskSpec
<1>1. SystemInit => PayInit /\ GasInit /\ VirtualInit /\ RiskInit
  BY DEF SystemInit
<1>2. [SystemNext]_systemVars => /\ [PayNext]_payVars /\ [GasNext]_shopVars
                                 /\ [VirtualNext]_virtualVars /\ [RiskNext]_riskVars
  BY ComponentSteps
<1> QED BY <1>1, <1>2, PTL DEF SystemSpec, PaySpec, GasSpec, VirtualSpec, RiskSpec

\* What a step of the composition may not do: a second batch of a key, two open requests, a
\* balance below zero, a commission paid again, a lower tier, a fill undone, a pause lifted and
\* a cap exceeded come only of the overlaps their properties name.
THEOREM SystemSteps ==
  SystemSpec => /\ SecondBatchNeedsRateLimit /\ SecondOpenNeedsOverlap
                /\ OverspendNeedsOverlap /\ PaidAgainNeedsLostAnswer /\ TierDropNeedsOverlap
                /\ FilledStaysFilled
                /\ CapExceededNeedsOverlap /\ PauseLiftedByLateRow
BY SystemParts, BatchesCorrect, OpensCorrect, OverspendsCorrect, PayoutsCorrect, TiersCorrect,
   FillsStay, CapsCorrect, PausesCorrect, PTL
=============================================================================

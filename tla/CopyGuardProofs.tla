--------------------------- MODULE CopyGuardProofs ---------------------------
(***************************************************************************)
(* What holds a buy back, for every set of rows, robots and tasks: the     *)
(* warning about funds, the daily caps and the pause after failures.  Then *)
(* the virtual account: its lots can be closed, its fills stay.            *)
(***************************************************************************)
EXTENDS CopyFunding, CopyRisk, VirtualCopy, SumProofs
-----------------------------------------------------------------------------
(* The warning about funds *)

TraderAts ==
  {"idle", "gas", "cache", "answer", "warns gas", "warns usdc", "skips", "orders", "filled",
   "sold", "owes gas", "syncs", "read"}
TraderState == [at: TraderAts, saw: Nat]
PageState == [at: {"closed", "gas", "usdc", "clears"}, gas: BOOLEAN, saw: Nat]

MoneyTypeOK == points \in Int /\ usdc \in Nat /\ held \in Nat
TasksTypeOK ==
  /\ precheck \in [Traders -> Nat \union {NoEntry}]
  /\ trader \in [Traders -> TraderState]
  /\ page \in PageState /\ callback \in {"idle", "clears"}
CountsTypeOK ==
  /\ announced \in Nat /\ income \in Nat /\ mishaps \in Nat
  /\ announced <= income /\ income <= MaxIncome /\ mishaps <= MaxMishaps
WarningTypeOK == warning \in {"none", "gas", "usdc"} /\ excused \in BOOLEAN

\* A sale that is going to lower the warning: when it has read the balance it
\* does so only if it found one.
Lowers(t) ==
  \/ trader[t].at \in {"sold", "owes gas", "syncs"}
  \/ trader[t].at = "read" /\ trader[t].saw > 0

\* What came in beside the warning is still worked on.
WarningDue ==
  warning = "usdc" /\ usdc > 0 =>
    excused \/ announced > 0 \/ callback = "clears" \/ \E t \in Traders : Lowers(t)

FundingInv ==
  MoneyTypeOK /\ TasksTypeOK /\ CountsTypeOK /\ WarningTypeOK /\ WarningDue

LEMMA FundingInitInv == FundingInit => FundingInv
<1> SUFFICES ASSUME FundingInit PROVE FundingInv
  OBVIOUS
<1>1. TasksTypeOK
  BY DEF FundingInit, TasksTypeOK, TraderState, TraderAts, PageState, NoEntry
<1>2. CountsTypeOK
  BY FundingAssumption DEF FundingInit, CountsTypeOK
<1>3. MoneyTypeOK
  BY DEF FundingInit, MoneyTypeOK
<1>4. WarningTypeOK
  BY DEF FundingInit, WarningTypeOK
<1>5. WarningDue
  BY DEF FundingInit, WarningDue
<1> QED BY <1>1, <1>2, <1>3, <1>4, <1>5 DEF FundingInv

\* A task that takes a step.
LEMMA TraderMoved ==
  ASSUME TasksTypeOK, NEW t \in Traders, NEW r \in TraderState,
         trader' = [trader EXCEPT ![t] = r]
  PROVE  /\ trader' \in [Traders -> TraderState] /\ trader'[t] = r
         /\ \A d \in Traders \ {t} : trader'[d] = trader[d]
BY DEF TasksTypeOK

LEMMA TraderWent ==
  ASSUME TasksTypeOK, NEW t \in Traders, NEW from, NEW to \in TraderAts, TraderGoes(t, from, to)
  PROVE  /\ trader' \in [Traders -> TraderState]
         /\ trader[t].at = from /\ trader'[t].at = to /\ trader'[t].saw = 0
         /\ \A d \in Traders \ {t} : trader'[d] = trader[d]
<1> DEFINE r == [at |-> to, saw |-> 0]
<1>1. r \in TraderState /\ r.at = to /\ r.saw = 0
  BY DEF TraderState
<1> HIDE DEF r
<1>2. trader[t].at = from /\ trader' = [trader EXCEPT ![t] = r]
  BY DEF TraderGoes, r
<1> QED BY <1>1, <1>2, TraderMoved

LEMMA Forgotten ==
  ASSUME TasksTypeOK, NEW t \in Traders, Forgets(t)
  PROVE  precheck' \in [Traders -> Nat \union {NoEntry}]
BY DEF TasksTypeOK, Forgets

LEMMA ForCode ==
  ASSUME WarningTypeOK, NEW code \in {"gas", "usdc"}, ClearForCode(code)
  PROVE  warning' \in {"none", "gas", "usdc"} /\ (warning' = "usdc" => warning = "usdc" /\ code # "usdc")
BY DEF WarningTypeOK, ClearForCode

\* A task that goes on before it has sold, or after its buy was filled.
LEMMA BuyGoesOn ==
  ASSUME FundingInv, NEW t \in Traders, NEW from \in TraderAts, NEW to \in TraderAts,
         TraderGoes(t, from, to), from \notin {"sold", "owes gas", "syncs", "read"},
         UNCHANGED <<callback, announced, excused>>,
         warning' = "usdc" => warning = "usdc", usdc' > 0 => usdc > 0
  PROVE  WarningDue'
<1>1. /\ trader[t].at = from
      /\ \A d \in Traders \ {t} : trader'[d] = trader[d]
  BY TraderWent DEF FundingInv
<1>2. \A d \in Traders : Lowers(d) => Lowers(d)'
  BY <1>1 DEF Lowers
<1> QED BY <1>2 DEF FundingInv, WarningDue

LEMMA BuyKeeps ==
  ASSUME FundingInv, NEW t \in Traders,
         \/ BuyBegins(t) \/ PrecheckGas(t) \/ PrecheckCached(t)
         \/ BuySkips(t) \/ BuyFails(t) \/ BuyClears(t) \/ BuyFills(t) \/ PrecheckAnswered(t)
  PROVE  FundingInv'
<1> USE DEF Money, Counts
<1>1. MoneyTypeOK /\ TasksTypeOK /\ CountsTypeOK /\ WarningTypeOK
  BY DEF FundingInv
<1>2. UNCHANGED <<page, callback, announced, income, mishaps, excused>>
  BY DEF BuyBegins, PrecheckGas, PrecheckCached, BuySkips, BuyFails, BuyClears, BuyFills, PrecheckAnswered
<1>3. MoneyTypeOK' /\ (usdc' > 0 => usdc > 0)
  <2>1. CASE UNCHANGED Money
    BY <1>1, <2>1 DEF MoneyTypeOK
  <2>2. CASE BuyFills(t)
    BY <1>1, <2>2 DEF MoneyTypeOK, BuyFills
  <2> QED BY <2>1, <2>2 DEF BuyBegins, PrecheckGas, PrecheckCached, BuySkips, BuyFails, BuyClears,
          PrecheckAnswered
<1>4. WarningTypeOK' /\ (warning' = "usdc" => warning = "usdc")
  <2>1. CASE UNCHANGED warning
    BY <1>1, <1>2, <2>1 DEF WarningTypeOK
  <2>2. CASE ClearForCode("usdc")
    BY <1>1, <1>2, <2>2, ForCode DEF WarningTypeOK
  <2> QED BY <2>1, <2>2 DEF BuyBegins, PrecheckGas, PrecheckCached, BuySkips, BuyFails, BuyClears,
          BuyFills, PrecheckAnswered
<1>5. precheck' \in [Traders -> Nat \union {NoEntry}]
  <2>1. CASE UNCHANGED precheck
    BY <1>1, <2>1 DEF TasksTypeOK
  <2>2. CASE Forgets(t)
    BY <1>1, <2>2, Forgotten
  <2>3. CASE PrecheckAnswered(t)
    BY <1>1, <2>3 DEF PrecheckAnswered, TasksTypeOK, TraderState
  <2> QED BY <2>1, <2>2, <2>3 DEF BuyBegins, PrecheckGas, PrecheckCached, BuySkips, BuyFails,
          BuyClears, BuyFills
<1>6. \E from, to \in TraderAts :
        TraderGoes(t, from, to) /\ from \notin {"sold", "owes gas", "syncs", "read"}
  BY DEF BuyBegins, PrecheckGas, PrecheckCached, BuySkips, BuyFails, BuyClears, BuyFills,
     PrecheckAnswered, TraderAts, Affords
<1>7. trader' \in [Traders -> TraderState]
  BY <1>1, <1>6, TraderWent
<1>8. WarningDue'
  BY <1>2, <1>3, <1>4, <1>6, BuyGoesOn
<1> QED BY <1>1, <1>2, <1>3, <1>4, <1>5, <1>7, <1>8 DEF FundingInv, TasksTypeOK, CountsTypeOK

LEMMA AsksKeeps ==
  ASSUME FundingInv, NEW t \in Traders, PrecheckAsks(t)
  PROVE  FundingInv'
<1> DEFINE r == [at |-> "answer", saw |-> usdc]
<1>1. MoneyTypeOK /\ TasksTypeOK /\ UNCHANGED <<Money, warning, precheck, page, callback, Counts, excused>>
      /\ trader[t].at = "cache"
  BY DEF FundingInv, PrecheckAsks
<1>2. r \in TraderState /\ r.at = "answer"
  BY <1>1 DEF MoneyTypeOK, TraderState, TraderAts
<1> HIDE DEF r
<1>3. trader' = [trader EXCEPT ![t] = r]
  BY DEF PrecheckAsks, r
<1>4. /\ trader' \in [Traders -> TraderState] /\ trader'[t] = r
      /\ \A d \in Traders \ {t} : trader'[d] = trader[d]
  BY <1>1, <1>2, <1>3, TraderMoved
<1>5. \A d \in Traders : Lowers(d) => Lowers(d)'
  BY <1>1, <1>2, <1>4 DEF Lowers
<1> QED BY <1>1, <1>4, <1>5 DEF FundingInv, MoneyTypeOK, TasksTypeOK, CountsTypeOK, WarningTypeOK,
        WarningDue, Money, Counts

\* A warning that is raised on a balance is excused; one without a balance has
\* nothing to come.
LEMMA MarkedIsExcused ==
  ASSUME FundingInv, NEW code \in {"gas", "usdc"}, MarkWarning(code), UNCHANGED usdc
  PROVE  WarningTypeOK' /\ WarningDue'
<1>1. warning' = code /\ excused' = (usdc > 0)
  BY DEF MarkWarning
<1>2. usdc \in Nat
  BY DEF FundingInv, MoneyTypeOK
<1>3. WarningTypeOK'
  BY <1>1, <1>2 DEF WarningTypeOK
<1>4. usdc' > 0 => excused'
  BY <1>1
<1> QED BY <1>3, <1>4 DEF WarningDue

LEMMA WarnsKeep ==
  ASSUME FundingInv, NEW t \in Traders, BuyWarns(t) \/ SellWarns(t)
  PROVE  FundingInv'
<1> USE DEF Money, Counts
<1>1. /\ UNCHANGED <<Money, precheck, page, callback, Counts>>
      /\ \E code \in {"gas", "usdc"} : MarkWarning(code)
      /\ \E from, to \in TraderAts : TraderGoes(t, from, to)
  BY DEF BuyWarns, SellWarns, TraderAts
<1>2. WarningTypeOK' /\ WarningDue'
  BY <1>1, MarkedIsExcused
<1>3. trader' \in [Traders -> TraderState]
  BY <1>1, TraderWent DEF FundingInv
<1> QED BY <1>1, <1>2, <1>3 DEF FundingInv, MoneyTypeOK, TasksTypeOK, CountsTypeOK

LEMMA SellFillsKeeps ==
  ASSUME FundingInv, NEW t \in Traders, SellFills(t) \/ SellReadsGas(t)
  PROVE  FundingInv'
<1> USE DEF Money, Counts
<1>1. MoneyTypeOK /\ TasksTypeOK /\ UNCHANGED <<warning, precheck, page, callback, Counts, excused>>
  BY DEF FundingInv, SellFills, SellReadsGas
<1>2. MoneyTypeOK'
  <2>1. CASE SellFills(t)
    <3>1. held > 0 /\ held' = held - 1 /\ usdc' = usdc + 1 /\ points' = points - 1
      BY <2>1 DEF SellFills
    <3> QED BY <1>1, <3>1 DEF MoneyTypeOK
  <2>2. CASE UNCHANGED Money
    BY <1>1, <2>2 DEF MoneyTypeOK
  <2> QED BY <2>1, <2>2 DEF SellReadsGas
<1>3. PICK from \in TraderAts, to \in {"sold", "owes gas", "syncs"} : TraderGoes(t, from, to)
  BY DEF SellFills, SellReadsGas, TraderAts
<1>4. /\ trader' \in [Traders -> TraderState] /\ trader'[t].at = to
      /\ \A d \in Traders \ {t} : trader'[d] = trader[d]
  <2>1. to \in TraderAts
    BY DEF TraderAts
  <2> QED BY <1>1, <1>3, <2>1, TraderWent
<1>5. Lowers(t)'
  BY <1>4 DEF Lowers
<1> QED BY <1>1, <1>2, <1>4, <1>5 DEF FundingInv, TasksTypeOK, CountsTypeOK, WarningTypeOK, WarningDue

\* The balance is read: one that is not there now needs no lowering, and a read
\* that fails is excused.
LEMMA SellReadsKeeps ==
  ASSUME FundingInv, NEW t \in Traders, SellReads(t)
  PROVE  FundingInv'
<1> USE DEF Money, Counts
<1>1. /\ MoneyTypeOK /\ TasksTypeOK /\ CountsTypeOK /\ WarningTypeOK
      /\ UNCHANGED <<Money, warning, page, callback, announced, income>>
  BY DEF FundingInv, SellReads
<1>2. precheck' \in [Traders -> Nat \union {NoEntry}]
  BY <1>1, Forgotten DEF SellReads
<1>3. PICK n \in Nat :
        /\ trader' = [trader EXCEPT ![t] = [at |-> "read", saw |-> n]]
        /\ \/ n = usdc /\ UNCHANGED <<mishaps, excused>>
           \/ mishaps < MaxMishaps /\ mishaps' = mishaps + 1 /\ excused' = TRUE
  BY <1>1 DEF SellReads, MoneyTypeOK
<1> DEFINE r == [at |-> "read", saw |-> n]
<1>4. r \in TraderState /\ r.at = "read" /\ r.saw = n
  BY DEF TraderState, TraderAts
<1> HIDE DEF r
<1>5. trader' = [trader EXCEPT ![t] = r]
  BY <1>3 DEF r
<1>6. /\ trader' \in [Traders -> TraderState] /\ trader'[t] = r
      /\ \A d \in Traders \ {t} : trader'[d] = trader[d]
  BY <1>1, <1>4, <1>5, TraderMoved
<1>7. CASE n = usdc /\ UNCHANGED <<mishaps, excused>>
  <2>1. usdc > 0 => Lowers(t)'
    BY <1>4, <1>6, <1>7 DEF Lowers
  <2> QED BY <1>1, <1>2, <1>6, <1>7, <2>1
          DEF FundingInv, MoneyTypeOK, TasksTypeOK, CountsTypeOK, WarningTypeOK, WarningDue
<1>8. CASE mishaps < MaxMishaps /\ mishaps' = mishaps + 1 /\ excused' = TRUE
  <2>1. CountsTypeOK'
    BY <1>1, <1>8, FundingAssumption DEF CountsTypeOK
  <2> QED BY <1>1, <1>2, <1>6, <1>8, <2>1
          DEF FundingInv, MoneyTypeOK, TasksTypeOK, WarningTypeOK, WarningDue
<1> QED BY <1>3, <1>7, <1>8

LEMMA SellClearsKeeps ==
  ASSUME FundingInv, NEW t \in Traders, SellClears(t)
  PROVE  FundingInv'
<1> USE DEF Money, Counts
<1>1. /\ MoneyTypeOK /\ TasksTypeOK /\ WarningTypeOK /\ TraderGoes(t, "read", "idle")
      /\ UNCHANGED <<Money, precheck, page, callback, Counts, excused>>
  BY DEF FundingInv, SellClears
<1>2. /\ trader' \in [Traders -> TraderState] /\ trader[t].at = "read"
      /\ \A d \in Traders \ {t} : trader'[d] = trader[d]
  BY <1>1, TraderWent DEF TraderAts
<1>3. /\ warning' \in {"none", "gas", "usdc"} /\ (warning' = "usdc" => warning = "usdc")
      /\ warning' = "usdc" => ~(trader[t].saw > 0)
  BY <1>1, ForCode DEF SellClears, WarningTypeOK
<1>4. WarningDue'
  BY <1>1, <1>2, <1>3 DEF FundingInv, WarningDue, Lowers
<1>5. TasksTypeOK'
  BY <1>1, <1>2 DEF TasksTypeOK
<1>6. WarningTypeOK'
  BY <1>1, <1>3 DEF WarningTypeOK
<1> QED BY <1>1, <1>4, <1>5, <1>6 DEF FundingInv, MoneyTypeOK, CountsTypeOK

\* A sell that does not look at the balance is excused.
LEMMA ReturnsKeeps ==
  ASSUME FundingInv, NEW t \in Traders, SellReturns(t)
  PROVE  FundingInv'
<1> USE DEF Money, Counts
<1>1. /\ MoneyTypeOK /\ TasksTypeOK /\ CountsTypeOK /\ WarningTypeOK
      /\ TraderGoes(t, "syncs", "idle") /\ excused' = TRUE
      /\ UNCHANGED <<Money, warning, precheck, page, callback, Counts>>
  BY DEF FundingInv, SellReturns
<1>2. trader' \in [Traders -> TraderState]
  BY <1>1, TraderWent DEF TraderAts
<1>3. WarningDue'
  BY <1>1 DEF WarningDue
<1> QED BY <1>1, <1>2, <1>3
        DEF FundingInv, MoneyTypeOK, TasksTypeOK, CountsTypeOK, WarningTypeOK

LEMMA StopsKeeps ==
  ASSUME FundingInv, NEW t \in Traders, TraderStops(t)
  PROVE  FundingInv'
<1> USE DEF Money, Counts
<1> DEFINE r == [at |-> "idle", saw |-> 0]
<1>1. /\ MoneyTypeOK /\ TasksTypeOK /\ CountsTypeOK /\ WarningTypeOK /\ WarningDue
      /\ UNCHANGED <<Money, warning, page, callback, announced, income>>
  BY DEF FundingInv, TraderStops
<1>2. precheck' \in [Traders -> Nat \union {NoEntry}]
  BY <1>1, Forgotten DEF TraderStops
<1>3. r \in TraderState
  BY DEF TraderState, TraderAts
<1> HIDE DEF r
<1>4. trader' = [trader EXCEPT ![t] = r]
  BY DEF TraderStops, r
<1>5. /\ trader' \in [Traders -> TraderState]
      /\ \A d \in Traders \ {t} : trader'[d] = trader[d]
  BY <1>1, <1>3, <1>4, TraderMoved
<1>6. CountsTypeOK'
  <2>1. mishaps < MaxMishaps /\ mishaps' = mishaps + 1
    BY DEF TraderStops
  <2> QED BY <1>1, <2>1, FundingAssumption DEF CountsTypeOK
<1>7. excused' \in BOOLEAN /\ (excused => excused') /\ (Lowers(t) => excused')
  BY <1>1 DEF TraderStops, WarningTypeOK, Lowers
<1>8. WarningDue'
  BY <1>1, <1>5, <1>7 DEF WarningDue, Lowers
<1> QED BY <1>1, <1>2, <1>5, <1>6, <1>7, <1>8 DEF FundingInv, MoneyTypeOK, TasksTypeOK, WarningTypeOK

\* Income, the cache, the callback and the page leave the traders alone.
LEMMA OutsideKeeps ==
  ASSUME FundingInv, UNCHANGED trader, MoneyTypeOK', TasksTypeOK', CountsTypeOK', WarningTypeOK',
         warning' = "usdc" => warning = "usdc",
         usdc' > 0 => usdc > 0 \/ excused' \/ announced' > 0,
         excused => excused',
         announced > 0 => announced' > 0 \/ callback' = "clears",
         callback = "clears" => callback' = "clears" \/ excused' \/ warning' = "none"
  PROVE  FundingInv'
<1>1. WarningDue
  BY DEF FundingInv
<1>2. (\E t \in Traders : Lowers(t)) => (\E t \in Traders : Lowers(t)')
  BY DEF Lowers
<1>3. WarningDue'
  BY <1>1, <1>2 DEF WarningDue
<1> QED BY <1>3 DEF FundingInv

LEMMA IncomeKeeps ==
  ASSUME FundingInv, NEW t \in Traders,
         RechargesGas \/ Deposits \/ CacheExpires(t)
  PROVE  FundingInv'
<1> USE DEF Money, Counts
<1>1. MoneyTypeOK /\ TasksTypeOK /\ CountsTypeOK /\ WarningTypeOK
  BY DEF FundingInv
<1>2. CASE RechargesGas
  <2>1. MoneyTypeOK'
    BY <1>1, <1>2 DEF MoneyTypeOK, RechargesGas
  <2>2. CountsTypeOK'
    BY <1>1, <1>2, FundingAssumption DEF CountsTypeOK, RechargesGas, Earns
  <2>3. TasksTypeOK' /\ WarningTypeOK'
    BY <1>1, <1>2 DEF TasksTypeOK, WarningTypeOK, RechargesGas
  <2> QED BY <1>2, <2>1, <2>2, <2>3, OutsideKeeps DEF RechargesGas
<1>3. CASE Deposits
  <2>1. MoneyTypeOK'
    BY <1>1, <1>3 DEF MoneyTypeOK, Deposits
  <2>2. CountsTypeOK' /\ announced <= announced'
    BY <1>1, <1>3, FundingAssumption DEF CountsTypeOK, Deposits, Earns
  <2>3. \/ announced' = announced + 1 /\ excused' = excused
        \/ excused' = TRUE /\ announced' = announced
    BY <1>3 DEF Deposits
  <2>4. TasksTypeOK' /\ WarningTypeOK'
    BY <1>1, <1>3, <2>3 DEF TasksTypeOK, WarningTypeOK, Deposits
  <2>5. announced \in Nat /\ announced' \in Nat
    BY <1>1, <2>2 DEF CountsTypeOK
  <2>6. excused' \/ announced' > 0
    BY <2>3, <2>5
  <2> QED BY <1>3, <2>1, <2>2, <2>3, <2>4, <2>5, <2>6, OutsideKeeps DEF Deposits
<1>4. CASE CacheExpires(t)
  <2>1. precheck' \in [Traders -> Nat \union {NoEntry}]
    BY <1>1, <1>4, Forgotten DEF CacheExpires
  <2>2. TasksTypeOK' /\ WarningTypeOK' /\ MoneyTypeOK' /\ CountsTypeOK'
    BY <1>1, <1>4, <2>1 DEF TasksTypeOK, WarningTypeOK, MoneyTypeOK, CountsTypeOK, CacheExpires
  <2> QED BY <1>4, <2>2, OutsideKeeps DEF CacheExpires
<1> QED BY <1>2, <1>3, <1>4

LEMMA CallbackKeeps ==
  ASSUME FundingInv, NEW t \in Traders,
         CallbackLedger(t) \/ CallbackClears \/ CallbackStops
  PROVE  FundingInv'
<1> USE DEF Money, Counts
<1>1. MoneyTypeOK /\ TasksTypeOK /\ CountsTypeOK /\ WarningTypeOK
  BY DEF FundingInv
<1>2. CASE CallbackLedger(t)
  <2>1. precheck' \in [Traders -> Nat \union {NoEntry}]
    BY <1>1, <1>2, Forgotten DEF CallbackLedger
  <2>2. CountsTypeOK'
    BY <1>1, <1>2 DEF CountsTypeOK, CallbackLedger
  <2>3. TasksTypeOK' /\ WarningTypeOK' /\ MoneyTypeOK'
    BY <1>1, <1>2, <2>1 DEF TasksTypeOK, WarningTypeOK, MoneyTypeOK, CallbackLedger
  <2> QED BY <1>2, <2>2, <2>3, OutsideKeeps DEF CallbackLedger
<1>3. CASE CallbackClears
  <2>1. TasksTypeOK' /\ WarningTypeOK' /\ MoneyTypeOK' /\ CountsTypeOK'
    BY <1>1, <1>3 DEF TasksTypeOK, WarningTypeOK, MoneyTypeOK, CountsTypeOK, CallbackClears
  <2> QED BY <1>3, <2>1, OutsideKeeps DEF CallbackClears
<1>4. CASE CallbackStops
  <2>1. CountsTypeOK'
    BY <1>1, <1>4, FundingAssumption DEF CountsTypeOK, CallbackStops
  <2>2. TasksTypeOK' /\ WarningTypeOK' /\ MoneyTypeOK'
    BY <1>1, <1>4 DEF TasksTypeOK, WarningTypeOK, MoneyTypeOK, CallbackStops
  <2> QED BY <1>4, <2>1, <2>2, OutsideKeeps DEF CallbackStops
<1> QED BY <1>2, <1>3, <1>4

LEMMA PageKeeps ==
  ASSUME FundingInv, NEW t \in Traders, PageStep(t)
  PROVE  FundingInv'
<1> USE DEF Money, Counts
<1>1. MoneyTypeOK /\ TasksTypeOK /\ CountsTypeOK /\ WarningTypeOK
  BY DEF FundingInv
<1>2. CASE PageOpens
  <2>1. page' \in PageState
    BY <1>1, <1>2 DEF MoneyTypeOK, PageOpens, PageState
  <2>2. TasksTypeOK' /\ WarningTypeOK' /\ MoneyTypeOK' /\ CountsTypeOK'
    BY <1>1, <1>2, <2>1 DEF TasksTypeOK, WarningTypeOK, MoneyTypeOK, CountsTypeOK, PageOpens
  <2> QED BY <1>2, <2>2, OutsideKeeps DEF PageOpens
<1>3. CASE PageSyncsGas
  <2>1. page' \in PageState
    BY <1>3 DEF PageSyncsGas, PageGoes, PageState
  <2>2. TasksTypeOK' /\ MoneyTypeOK' /\ CountsTypeOK'
    BY <1>1, <1>3, <2>1 DEF TasksTypeOK, MoneyTypeOK, CountsTypeOK, PageSyncsGas
  <2>3. CASE ClearForCode("gas") /\ UNCHANGED excused
    <3>1. WarningTypeOK' /\ (warning' = "usdc" => warning = "usdc")
      BY <1>1, <2>3, ForCode DEF WarningTypeOK
    <3> QED BY <1>3, <2>2, <2>3, <3>1, OutsideKeeps DEF PageSyncsGas
  <2>4. CASE MarkWarning("gas")
    <3>1. WarningTypeOK' /\ WarningDue'
      BY <1>3, <2>4, MarkedIsExcused DEF PageSyncsGas
    <3> QED BY <2>2, <3>1 DEF FundingInv
  <2> QED BY <1>3, <2>3, <2>4 DEF PageSyncsGas
<1>4. CASE PageReads(t)
  <2>1. precheck' \in [Traders -> Nat \union {NoEntry}]
    BY <1>1, <1>4, Forgotten DEF PageReads
  <2>2. page' \in PageState
    <3>1. PICK n \in Nat : page' = [page EXCEPT !.at = "clears", !.saw = n]
      BY <1>1, <1>4 DEF MoneyTypeOK, PageReads
    <3> QED BY <1>1, <3>1 DEF TasksTypeOK, PageState
  <2>3. CountsTypeOK'
    BY <1>1, <1>4, FundingAssumption DEF CountsTypeOK, PageReads
  <2>4. TasksTypeOK' /\ WarningTypeOK' /\ MoneyTypeOK'
    BY <1>1, <1>4, <2>1, <2>2 DEF TasksTypeOK, WarningTypeOK, MoneyTypeOK, PageReads
  <2> QED BY <1>4, <2>3, <2>4, OutsideKeeps DEF PageReads
<1>5. CASE PageClears
  <2>1. page' \in PageState
    BY <1>5 DEF PageClears, PageGoes, PageState
  <2>2. WarningTypeOK' /\ (warning' = "usdc" => warning = "usdc")
    BY <1>1, <1>5, ForCode DEF WarningTypeOK, PageClears
  <2>3. TasksTypeOK' /\ MoneyTypeOK' /\ CountsTypeOK'
    BY <1>1, <1>5, <2>1 DEF TasksTypeOK, MoneyTypeOK, CountsTypeOK, PageClears
  <2> QED BY <1>5, <2>2, <2>3, OutsideKeeps DEF PageClears
<1> QED BY <1>2, <1>3, <1>4, <1>5 DEF PageStep

LEMMA FundingNextInv ==
  ASSUME FundingInv, NEW api \in Traders, [FundingNextOf(api, Traders)]_fundingVars
  PROVE  FundingInv'
<1>1. ASSUME NEW t \in Traders,
             BuyBegins(t) \/ SellFills(t) \/ TraderStep(t) \/ TraderStops(t) \/ CacheExpires(t)
      PROVE  FundingInv'
  BY <1>1, BuyKeeps, AsksKeeps, WarnsKeep, SellFillsKeeps, SellReadsKeeps, SellClearsKeeps,
     ReturnsKeeps, StopsKeeps, IncomeKeeps DEF TraderStep
<1>2. CASE RechargesGas \/ Deposits
  BY <1>2, IncomeKeeps
<1>3. CASE CallbackLedger(api) \/ CallbackClears \/ CallbackStops \/ PageStep(api)
  BY <1>3, CallbackKeeps, PageKeeps
<1>4. CASE UNCHANGED fundingVars
  BY <1>4 DEF fundingVars, FundingInv, MoneyTypeOK, TasksTypeOK, CountsTypeOK, WarningTypeOK,
     WarningDue, Lowers
<1> QED BY <1>1, <1>2, <1>3, <1>4 DEF FundingNextOf

LEMMA FundingTypes == FundingInv => FundingTypeOK
BY FundingAssumption DEF FundingInv, MoneyTypeOK, TasksTypeOK, CountsTypeOK, WarningTypeOK, TraderState, PageState,
   FundingTypeOK

\* The money, the warning, the tasks and what they have read keep their types,
\* and a deposit is announced at most once for each that came in.
THEOREM FundingTyped ==
  ASSUME NEW api \in Traders
  PROVE  FundingSpec(api) => []FundingTypeOK
BY FundingTypes, FundingInitInv, FundingNextInv, PTL DEF FundingSpec

LEMMA WarningPromise == FundingInv => WarnedBesideBalance
BY DEF FundingInv, WarningDue, Lowers, WarnedBesideBalance

\* The warning for want of balance is up beside a balance only while the
\* deposit or the sale it came from is still worked on, or for one of the
\* reasons that are named.
THEOREM WarningsCorrect ==
  ASSUME NEW api \in Traders
  PROVE  FundingSpec(api) => []WarnedBesideBalance
BY WarningPromise, FundingInitInv, FundingNextInv, PTL DEF FundingSpec
-----------------------------------------------------------------------------
(* Caps and pauses *)

Checking == {"streak", "unpause", "paused", "cooldown", "caps", "place"}
RiskAts == Checking \union {"idle", "clear", "arm", "count", "write"}
RowStates == {"queued", "submitting", "filled", "skipped", "failed", "dead"}
PauseStates == {"none", "on", "past"}

\* The rows and the state of a subscription, in two parts.
RowTypeOK ==
  /\ riskRow \in [RiskRows -> RowStates]
  /\ riskAt \in [RiskRows -> RiskAts]
  /\ tries \in [RiskRows -> 0 .. MaxTries]
  /\ seenCount \in [RiskRows -> Nat]
  /\ overtaken \subseteq RiskRows
RobotTypesOK ==
  /\ failCount \in [Robots -> Nat]
  /\ pause \in [Robots -> PauseStates]
  /\ cooldown \in [Robots -> PauseStates]
  /\ under \in [Robots -> SUBSET RiskRows]

\* A row is submitting just while it is checked or placed, and a row that may
\* be placed has an attempt left.
RowsAt ==
  \A b \in RiskRows :
    /\ riskAt[b] \in Checking <=> riskRow[b] = "submitting"
    /\ riskRow[b] \in {"queued", "submitting"} => tries[b] < MaxTries

\* The places a buy comes to only past the check of the pause.
PastPause == {"unpause", "cooldown", "caps", "place", "clear", "arm", "count", "write"}

\* While a subscription is paused, only the rows that were under way when the
\* pause began are past its check.
PauseSeen ==
  \A b \in RiskRows \ SellRows :
    pause[RobotOf[b]] = "on" /\ riskAt[b] \in PastPause => b \in under[RobotOf[b]]

MineOf(b) == {c \in RiskRows : RobotOf[c] = RobotOf[b]}

\* A buy about to be placed fits under both caps, or was overtaken.
CapsLeft ==
  \A b \in RiskRows \ SellRows :
    riskAt[b] = "place" /\ b \notin overtaken =>
      ~WouldExceedCap(MineOf(b), RobotCap) /\ ~WouldExceedCap(RiskRows, UserCap)

RiskInv == RowTypeOK /\ RobotTypesOK /\ RowsAt /\ PauseSeen /\ CapsLeft

LEMMA RiskInitInv == RiskInit => RiskInv
<1> SUFFICES ASSUME RiskInit PROVE RiskInv
  OBVIOUS
<1>1. RowTypeOK
  BY RiskAssumption DEF RiskInit, RowTypeOK, RowStates, RiskAts
<1>2. RobotTypesOK
  BY DEF RiskInit, RobotTypesOK, PauseStates
<1>3. RowsAt /\ PauseSeen /\ CapsLeft
  BY RiskAssumption DEF RiskInit, RowsAt, PauseSeen, CapsLeft, PastPause, Checking
<1> QED BY <1>1, <1>2, <1>3 DEF RiskInv

\* The worker of a row takes a step.
LEMMA WorkerMoved ==
  ASSUME RowTypeOK, NEW b \in RiskRows, NEW to \in RiskAts, riskAt' = [riskAt EXCEPT ![b] = to]
  PROVE  /\ riskAt' \in [RiskRows -> RiskAts] /\ riskAt'[b] = to
         /\ \A c \in RiskRows \ {b} : riskAt'[c] = riskAt[c]
BY DEF RowTypeOK

LEMMA RowSet ==
  ASSUME RowTypeOK, NEW b \in RiskRows, NEW status \in RowStates, SetRow(b, status)
  PROVE  /\ riskRow' \in [RiskRows -> RowStates] /\ riskRow'[b] = status
         /\ \A c \in RiskRows \ {b} : riskRow'[c] = riskRow[c]
BY DEF RowTypeOK, SetRow

\* The day's notional changes only by a row that is filled.
LEMMA NotionalKept ==
  ASSUME RowTypeOK, RowTypeOK', NEW b \in RiskRows,
         \A c \in RiskRows \ {b} : riskRow'[c] = riskRow[c],
         riskRow[b] # "filled", riskRow'[b] # "filled",
         NEW rows \in SUBSET RiskRows
  PROVE  DailyNotional(rows)' = DailyNotional(rows)
<1>1. \A c \in rows : riskRow'[c] \in {"submitted", "filled"} <=> riskRow[c] \in {"submitted", "filled"}
  BY DEF RowTypeOK, RowStates
<1>2. {c \in rows : riskRow'[c] \in {"submitted", "filled"}} = {c \in rows : riskRow[c] \in {"submitted", "filled"}}
  BY <1>1
<1> QED BY <1>2 DEF DailyNotional

LEMMA NotionalGrows ==
  ASSUME RowTypeOK, NEW b \in RiskRows, SetRow(b, "filled"), NEW rows \in SUBSET RiskRows
  PROVE  /\ DailyNotional(rows) \in Nat /\ DailyNotional(rows)' \in Nat
         /\ DailyNotional(rows)' <= DailyNotional(rows) + 1
<1> DEFINE counted == {c \in rows : riskRow[c] \in {"submitted", "filled"}}
           counted2 == {c \in rows : riskRow'[c] \in {"submitted", "filled"}}
<1>1. counted2 \subseteq counted \union {b}
  BY RowSet DEF RowStates
<1>2. IsFiniteSet(counted)
  BY RiskAssumption, FS_Subset
<1>3. /\ IsFiniteSet(counted \union {b}) /\ Cardinality(counted) \in Nat
      /\ Cardinality(counted \union {b}) \in {Cardinality(counted), Cardinality(counted) + 1}
  BY <1>2, FS_AddElement, FS_CardinalityType
<1>4. Cardinality(counted2) \in Nat /\ Cardinality(counted2) <= Cardinality(counted \union {b})
  BY <1>1, <1>3, FS_Subset, FS_CardinalityType
<1>5. DailyNotional(rows) = Cardinality(counted) /\ DailyNotional(rows)' = Cardinality(counted2)
  BY DEF DailyNotional
<1> HIDE DEF counted, counted2
<1> QED BY <1>3, <1>4, <1>5

\* A step on one row that fills none and brings no buy past the check of the
\* pause that was not.
LEMMA RowStepKeeps ==
  ASSUME RiskInv, NEW b \in RiskRows, RowTypeOK', RobotTypesOK',
         \A c \in RiskRows \ {b} : /\ riskRow'[c] = riskRow[c] /\ riskAt'[c] = riskAt[c]
                                   /\ tries'[c] = tries[c],
         riskRow' = riskRow \/ (riskRow[b] # "filled" /\ riskRow'[b] # "filled"),
         riskAt'[b] \in Checking <=> riskRow'[b] = "submitting",
         riskRow'[b] \in {"queued", "submitting"} => tries'[b] < MaxTries,
         overtaken' = overtaken, riskAt'[b] = "place" => b \in SellRows,
         \A s \in Robots : pause'[s] = "on" => pause[s] = "on" /\ under'[s] = under[s],
         b \in SellRows \/ (riskAt'[b] \in PastPause => riskAt[b] \in PastPause \/ pause[RobotOf[b]] # "on")
  PROVE  RiskInv'
<1>1. RowTypeOK /\ RobotTypesOK /\ RowsAt /\ PauseSeen /\ CapsLeft
  BY DEF RiskInv
<1>2. RowsAt'
  BY <1>1 DEF RowsAt
<1>3. \A c \in RiskRows : RobotOf[c] \in Robots
  BY DEF Robots
<1>4. PauseSeen'
  BY <1>1, <1>3 DEF PauseSeen
<1>5. ASSUME NEW rows \in SUBSET RiskRows PROVE DailyNotional(rows)' = DailyNotional(rows)
  <2>1. CASE riskRow' = riskRow
    BY <2>1 DEF DailyNotional
  <2>2. CASE riskRow[b] # "filled" /\ riskRow'[b] # "filled"
    BY <1>1, <2>2, NotionalKept
  <2> QED BY <2>1, <2>2
<1>6. CapsLeft'
  <2> SUFFICES ASSUME NEW c \in RiskRows \ SellRows, riskAt'[c] = "place", c \notin overtaken'
               PROVE  ~WouldExceedCap(MineOf(c), RobotCap)' /\ ~WouldExceedCap(RiskRows, UserCap)'
    BY DEF CapsLeft
  <2>1. c # b /\ riskAt[c] = "place" /\ c \notin overtaken
    OBVIOUS
  <2>2. ~WouldExceedCap(MineOf(c), RobotCap) /\ ~WouldExceedCap(RiskRows, UserCap)
    BY <1>1, <2>1 DEF CapsLeft
  <2>3. DailyNotional(MineOf(c))' = DailyNotional(MineOf(c)) /\ DailyNotional(RiskRows)' = DailyNotional(RiskRows)
    BY <1>5 DEF MineOf
  <2> QED BY <2>2, <2>3 DEF WouldExceedCap
<1> QED BY <1>1, <1>2, <1>4, <1>6 DEF RiskInv

\* The worker goes from one place to another and leaves the row as it is.
LEMMA WorkerGoes ==
  ASSUME RiskInv, NEW b \in RiskRows, NEW from \in RiskAts, NEW to \in RiskAts, RiskGoes(b, from, to),
         (from \in Checking) <=> (to \in Checking), to # "place",
         UNCHANGED <<riskRow, tries, overtaken>>, seenCount' \in [RiskRows -> Nat], RobotTypesOK',
         \A s \in Robots : pause'[s] = "on" => pause[s] = "on" /\ under'[s] = under[s],
         to \in PastPause => from \in PastPause \/ pause[RobotOf[b]] # "on"
  PROVE  RiskInv'
<1>1. RowTypeOK /\ RowsAt
  BY DEF RiskInv
<1>2. /\ riskAt' \in [RiskRows -> RiskAts] /\ riskAt'[b] = to /\ riskAt[b] = from
      /\ \A c \in RiskRows \ {b} : riskAt'[c] = riskAt[c]
  BY <1>1, WorkerMoved DEF RiskGoes
<1>3. RowTypeOK'
  BY <1>1, <1>2 DEF RowTypeOK
<1>4. /\ riskAt'[b] \in Checking <=> riskRow'[b] = "submitting"
      /\ riskRow'[b] \in {"queued", "submitting"} => tries'[b] < MaxTries
  BY <1>1, <1>2 DEF RowsAt
<1> QED BY <1>2, <1>3, <1>4, RowStepKeeps

LEMMA SkipKeeps ==
  ASSUME RiskInv, NEW b \in RiskRows, riskAt[b] \in Checking, SkipsRisk(b),
         UNCHANGED <<tries, seenCount, failCount, pause, cooldown, under>>, overtaken' = overtaken
  PROVE  RiskInv'
<1>1. RowTypeOK /\ RobotTypesOK /\ RowsAt
  BY DEF RiskInv
<1>2. /\ riskAt' \in [RiskRows -> RiskAts] /\ riskAt'[b] = "idle"
      /\ \A c \in RiskRows \ {b} : riskAt'[c] = riskAt[c]
  BY <1>1, WorkerMoved DEF SkipsRisk, RiskAts
<1>3. /\ riskRow' \in [RiskRows -> RowStates] /\ riskRow'[b] = "skipped"
      /\ \A c \in RiskRows \ {b} : riskRow'[c] = riskRow[c]
  BY <1>1, RowSet DEF SkipsRisk, RowStates
<1>4. riskRow[b] = "submitting"
  BY <1>1 DEF RowsAt
<1>5. RowTypeOK' /\ RobotTypesOK'
  BY <1>1, <1>2, <1>3 DEF RowTypeOK, RobotTypesOK
<1> QED BY <1>2, <1>3, <1>4, <1>5, RowStepKeeps DEF Checking, PastPause

\* An order ends without a fill, or is claimed or queued again.
LEMMA StatusKeeps ==
  ASSUME RiskInv, NEW b \in RiskRows,
         riskAt' = [riskAt EXCEPT ![b] = riskAt'[b]], riskAt'[b] \in RiskAts,
         SetRow(b, riskRow'[b]), riskRow'[b] \in RowStates \ {"filled"}, riskRow[b] # "filled",
         tries' = [tries EXCEPT ![b] = tries'[b]], tries'[b] \in 0 .. MaxTries,
         riskAt'[b] \in Checking <=> riskRow'[b] = "submitting",
         riskRow'[b] \in {"queued", "submitting"} => tries'[b] < MaxTries,
         riskAt'[b] = "place" => b \in SellRows,
         b \in SellRows \/ (riskAt'[b] \in PastPause => riskAt[b] \in PastPause),
         UNCHANGED <<seenCount, overtaken, failCount, pause, cooldown, under>>
  PROVE  RiskInv'
<1>1. RowTypeOK /\ RobotTypesOK
  BY DEF RiskInv
<1>2. riskAt' \in [RiskRows -> RiskAts] /\ \A c \in RiskRows \ {b} : riskAt'[c] = riskAt[c]
  BY <1>1, WorkerMoved
<1>3. riskRow' \in [RiskRows -> RowStates] /\ \A c \in RiskRows \ {b} : riskRow'[c] = riskRow[c]
  BY <1>1, RowSet
<1>4. tries' \in [RiskRows -> 0 .. MaxTries] /\ \A c \in RiskRows \ {b} : tries'[c] = tries[c]
  BY <1>1 DEF RowTypeOK
<1>5. RowTypeOK' /\ RobotTypesOK'
  BY <1>1, <1>2, <1>3, <1>4 DEF RowTypeOK, RobotTypesOK
<1> QED BY <1>2, <1>3, <1>4, <1>5, RowStepKeeps

LEMMA ChecksKeep ==
  ASSUME RiskInv, NEW b \in RiskRows,
         \/ ReadsStreak(b) \/ ClearExpiredPause(b) \/ GetFailStreakState(b)
         \/ GetMarketCooldownState(b) \/ ReadsFailures(b) \/ ClearFailureStreak(b)
         \/ ArmMarketCooldown(b)
  PROVE  RiskInv'
<1> USE DEF RiskAts, Checking, PastPause
<1>1. RowTypeOK /\ RobotTypesOK /\ RobotOf[b] \in Robots
  BY DEF RiskInv, Robots
<1>2. CASE ReadsStreak(b)
  <2>1. PICK to \in {"unpause", "paused"} :
          RiskGoes(b, "streak", to) /\ (to = "unpause" => pause[RobotOf[b]] = "past")
    BY <1>2 DEF ReadsStreak
  <2>2. UNCHANGED <<riskRow, tries, seenCount, overtaken, failCount, pause, cooldown, under>>
    BY <1>2 DEF ReadsStreak, NoWrites
  <2>3. seenCount' \in [RiskRows -> Nat] /\ RobotTypesOK'
    BY <1>1, <2>2 DEF RowTypeOK, RobotTypesOK
  <2> QED BY <2>1, <2>2, <2>3, WorkerGoes
<1>3. CASE ClearExpiredPause(b)
  <2>1. RiskGoes(b, "unpause", "paused") /\ UNCHANGED <<riskRow, tries, seenCount, overtaken, cooldown, under>>
    BY <1>3 DEF ClearExpiredPause
  <2>2. /\ pause' \in [Robots -> PauseStates] /\ failCount' \in [Robots -> Nat]
        /\ \A s \in Robots : pause'[s] = "on" => pause[s] = "on"
    BY <1>1, <1>3 DEF ClearExpiredPause, RobotTypesOK, PauseStates
  <2>3. seenCount' \in [RiskRows -> Nat] /\ RobotTypesOK'
    BY <1>1, <2>1, <2>2 DEF RowTypeOK, RobotTypesOK
  <2> QED BY <2>1, <2>2, <2>3, WorkerGoes
<1>4. CASE GetFailStreakState(b)
  <2>1. UNCHANGED <<tries, seenCount, overtaken, failCount, pause, cooldown, under>>
    BY <1>4 DEF GetFailStreakState, NoWrites
  <2>2. CASE riskAt[b] = "paused" /\ SkipsRisk(b)
    BY <2>1, <2>2, SkipKeeps
  <2>3. CASE RiskGoes(b, "paused", "cooldown") /\ UNCHANGED riskRow /\ pause[RobotOf[b]] # "on"
    <3>1. seenCount' \in [RiskRows -> Nat] /\ RobotTypesOK'
      BY <1>1, <2>1 DEF RowTypeOK, RobotTypesOK
    <3> QED BY <2>1, <2>3, <3>1, WorkerGoes
  <2> QED BY <1>4, <2>2, <2>3 DEF GetFailStreakState
<1>5. CASE GetMarketCooldownState(b)
  <2>1. UNCHANGED <<tries, seenCount, overtaken, failCount, pause, under>>
    BY <1>5 DEF GetMarketCooldownState
  <2>2. CASE riskAt[b] = "cooldown" /\ SkipsRisk(b) /\ UNCHANGED cooldown
    BY <2>1, <2>2, SkipKeeps
  <2>3. CASE /\ RiskGoes(b, "cooldown", "caps") /\ UNCHANGED riskRow
             /\ cooldown' = [cooldown EXCEPT ![RobotOf[b]] = "none"]
    <3>1. seenCount' \in [RiskRows -> Nat] /\ RobotTypesOK'
      BY <1>1, <2>1, <2>3 DEF RowTypeOK, RobotTypesOK, PauseStates
    <3> QED BY <2>1, <2>3, <3>1, WorkerGoes
  <2> QED BY <1>5, <2>2, <2>3 DEF GetMarketCooldownState
<1>6. CASE ReadsFailures(b)
  <2>1. /\ RiskGoes(b, "count", "write")
        /\ UNCHANGED <<riskRow, tries, overtaken, failCount, pause, cooldown, under>>
    BY <1>6 DEF ReadsFailures, NoWrites
  <2>2. seenCount' \in [RiskRows -> Nat] /\ RobotTypesOK'
    BY <1>1, <1>6, <2>1 DEF ReadsFailures, RowTypeOK, RobotTypesOK
  <2> QED BY <2>1, <2>2, WorkerGoes
<1>7. CASE ClearFailureStreak(b)
  <2>1. RiskGoes(b, "clear", "arm") /\ UNCHANGED <<riskRow, tries, seenCount, overtaken, cooldown, under>>
    BY <1>7 DEF ClearFailureStreak
  <2>2. /\ pause' \in [Robots -> PauseStates] /\ failCount' \in [Robots -> Nat]
        /\ \A s \in Robots : pause'[s] = "on" => pause[s] = "on"
    BY <1>1, <1>7 DEF ClearFailureStreak, RobotTypesOK, PauseStates
  <2>3. seenCount' \in [RiskRows -> Nat] /\ RobotTypesOK'
    BY <1>1, <2>1, <2>2 DEF RowTypeOK, RobotTypesOK
  <2> QED BY <2>1, <2>2, <2>3, WorkerGoes
<1>8. CASE ArmMarketCooldown(b)
  <2>1. RiskGoes(b, "arm", "idle") /\ UNCHANGED <<riskRow, tries, seenCount, overtaken, failCount, pause, under>>
    BY <1>8 DEF ArmMarketCooldown
  <2>2. seenCount' \in [RiskRows -> Nat] /\ RobotTypesOK'
    BY <1>1, <1>8, <2>1 DEF ArmMarketCooldown, RowTypeOK, RobotTypesOK, PauseStates
  <2> QED BY <2>1, <2>2, WorkerGoes
<1> QED BY <1>2, <1>3, <1>4, <1>5, <1>6, <1>7, <1>8

LEMMA OrderEndsKeeps ==
  ASSUME RiskInv, NEW b \in RiskRows,
         ClaimsRow(b) \/ OrderUnfilled(b) \/ OrderFails(b) \/ RetriesRow(b)
  PROVE  RiskInv'
<1>0. /\ {"place", "streak", "idle", "count"} \subseteq RiskAts
      /\ "place" \in Checking /\ "streak" \in Checking /\ "idle" \notin Checking /\ "count" \notin Checking
      /\ "place" \in PastPause /\ "streak" \notin PastPause /\ "idle" \notin PastPause
      /\ {"queued", "submitting", "skipped", "failed", "dead"} \subseteq RowStates
  BY DEF RiskAts, Checking, PastPause, RowStates
<1>1. RowTypeOK /\ RowsAt /\ tries[b] \in 0 .. MaxTries /\ MaxTries \in Nat
  BY RiskAssumption DEF RiskInv, RowTypeOK
<1>2. CASE ClaimsRow(b)
  <2>1. /\ riskRow[b] = "queued" /\ SetRow(b, "submitting")
        /\ UNCHANGED <<tries, seenCount, overtaken, failCount, pause, cooldown, under>>
    BY <1>2 DEF ClaimsRow, NoWrites
  <2>2. PICK to \in {"place", "streak"} : riskAt' = [riskAt EXCEPT ![b] = to] /\ (to = "place" => b \in SellRows)
    BY <1>2 DEF ClaimsRow, RiskGoes
  <2>3. riskAt'[b] = to /\ riskRow'[b] = "submitting"
    BY <1>1, <2>1, <2>2 DEF RowTypeOK, SetRow
  <2>4. tries' = [tries EXCEPT ![b] = tries'[b]] /\ tries'[b] = tries[b] /\ tries[b] < MaxTries
    BY <1>1, <2>1 DEF RowTypeOK, RowsAt
  <2> QED BY <1>0, <1>1, <2>1, <2>2, <2>3, <2>4, StatusKeeps
<1>3. CASE OrderUnfilled(b)
  <2>1. /\ riskAt[b] = "place" /\ riskAt' = [riskAt EXCEPT ![b] = "idle"]
        /\ UNCHANGED <<seenCount, overtaken, failCount, pause, cooldown, under>>
    BY <1>3 DEF OrderUnfilled, RiskGoes, NoWrites
  <2>2. riskRow[b] = "submitting" /\ tries[b] + 1 \in 0 .. MaxTries /\ riskAt'[b] = "idle"
    BY <1>0, <1>1, <2>1 DEF RowsAt, RowTypeOK
  <2>3. CASE SetRow(b, "skipped") /\ UNCHANGED tries
    <3>1. riskRow'[b] = "skipped" /\ tries'[b] = tries[b] /\ tries' = [tries EXCEPT ![b] = tries'[b]]
      BY <1>1, <2>3 DEF RowTypeOK, SetRow
    <3> QED BY <1>0, <1>1, <2>1, <2>2, <2>3, <3>1, StatusKeeps
  <2>4. CASE SetRow(b, "failed") /\ tries' = [tries EXCEPT ![b] = @ + 1]
    <3>1. riskRow'[b] = "failed" /\ tries'[b] = tries[b] + 1 /\ tries' = [tries EXCEPT ![b] = tries'[b]]
      BY <1>1, <2>4 DEF RowTypeOK, SetRow
    <3> QED BY <1>0, <2>1, <2>2, <2>4, <3>1, StatusKeeps
  <2> QED BY <1>3, <2>3, <2>4 DEF OrderUnfilled
<1>4. CASE OrderFails(b)
  <2>1. /\ riskAt[b] = "place" /\ riskAt' = [riskAt EXCEPT ![b] = "count"]
        /\ UNCHANGED <<seenCount, overtaken, failCount, pause, cooldown, under>>
        /\ tries' = [tries EXCEPT ![b] = @ + 1]
    BY <1>4 DEF OrderFails, RiskGoes, NoWrites
  <2>2. riskRow[b] = "submitting" /\ tries[b] + 1 \in 0 .. MaxTries
    BY <1>0, <1>1, <2>1 DEF RowsAt
  <2>3. PICK status \in {"dead", "failed"} : SetRow(b, status)
    BY <1>4 DEF OrderFails
  <2>4. /\ riskAt'[b] = "count" /\ riskRow'[b] = status
        /\ tries'[b] = tries[b] + 1 /\ tries' = [tries EXCEPT ![b] = tries'[b]]
    BY <1>1, <2>1, <2>3 DEF RowTypeOK, SetRow
  <2> QED BY <1>0, <2>1, <2>2, <2>3, <2>4, StatusKeeps
<1>5. CASE RetriesRow(b)
  <2>1. /\ riskRow[b] = "failed" /\ riskAt[b] = "idle" /\ tries[b] < MaxTries /\ SetRow(b, "queued")
        /\ UNCHANGED <<riskAt, tries, seenCount, overtaken, failCount, pause, cooldown, under>>
    BY <1>5 DEF RetriesRow, NoWrites
  <2>2. /\ riskRow'[b] = "queued" /\ riskAt'[b] = "idle" /\ tries'[b] = tries[b]
        /\ riskAt' = [riskAt EXCEPT ![b] = riskAt'[b]] /\ tries' = [tries EXCEPT ![b] = tries'[b]]
    BY <1>1, <2>1 DEF RowTypeOK, SetRow
  <2> QED BY <1>0, <1>1, <2>1, <2>2, StatusKeeps
<1> QED BY <1>2, <1>3, <1>4, <1>5

\* The failure that pauses the subscription takes note of the rows under way.
LEMMA RecordKeeps ==
  ASSUME RiskInv, NEW b \in RiskRows, RecordFailure(b)
  PROVE  RiskInv'
<1> DEFINE s == RobotOf[b]
<1>1. /\ RowTypeOK /\ RobotTypesOK /\ RowsAt /\ PauseSeen /\ s \in Robots
      /\ UNCHANGED <<riskRow, tries, seenCount, cooldown, overtaken>> /\ RiskGoes(b, "write", "idle")
  BY DEF RiskInv, Robots, RecordFailure
<1>2. failCount' \in [Robots -> Nat] /\ seenCount' \in [RiskRows -> Nat]
  BY <1>1 DEF RecordFailure, RobotTypesOK, RowTypeOK
<1>3. CASE UNCHANGED <<pause, under>>
  <2>1. RobotTypesOK'
    BY <1>1, <1>2, <1>3 DEF RobotTypesOK
  <2> QED BY <1>1, <1>2, <1>3, <2>1, WorkerGoes DEF RiskAts, Checking, PastPause
<1>4. CASE /\ pause' = [pause EXCEPT ![s] = "on"]
           /\ under' = [under EXCEPT ![s] =
                {c \in RiskRows \ {b} : RobotOf[c] = s /\ riskAt[c] # "idle"}]
  <2>1. RobotTypesOK'
    BY <1>1, <1>2, <1>4 DEF RobotTypesOK, PauseStates
  <2>2. /\ riskAt' \in [RiskRows -> RiskAts] /\ riskAt'[b] = "idle" /\ riskAt[b] = "write"
        /\ \A c \in RiskRows \ {b} : riskAt'[c] = riskAt[c]
    BY <1>1, WorkerMoved DEF RiskGoes, RiskAts
  <2>3. RowTypeOK' /\ RowsAt'
    BY <1>1, <2>2 DEF RowTypeOK, RowsAt, Checking
  <2>4. PauseSeen'
    <3> SUFFICES ASSUME NEW c \in RiskRows \ SellRows, pause'[RobotOf[c]] = "on", riskAt'[c] \in PastPause
                 PROVE  c \in under'[RobotOf[c]]
      BY DEF PauseSeen
    <3>1. c # b /\ riskAt[c] \in PastPause /\ riskAt[c] # "idle" /\ RobotOf[c] \in Robots
      BY <2>2 DEF PastPause, Robots
    <3>2. CASE RobotOf[c] = s
      BY <1>1, <1>4, <3>1, <3>2 DEF RobotTypesOK
    <3>3. CASE RobotOf[c] # s
      BY <1>1, <1>4, <3>1, <3>3 DEF RobotTypesOK, PauseSeen
    <3> QED BY <3>2, <3>3
  <2>5. CapsLeft'
    <3>1. \A c \in RiskRows : riskAt'[c] = "place" => riskAt[c] = "place"
      BY <2>2
    <3>2. \A rows, cap : WouldExceedCap(rows, cap)' = WouldExceedCap(rows, cap)
      BY <1>1 DEF WouldExceedCap, DailyNotional
    <3> QED BY <1>1, <3>1 DEF RiskInv, CapsLeft, WouldExceedCap, DailyNotional
  <2> QED BY <2>1, <2>3, <2>4, <2>5 DEF RiskInv
<1> QED BY <1>3, <1>4 DEF RecordFailure

\* A buy goes on to its order when it fits under both caps as they are now.
LEMMA CapsKeep ==
  ASSUME RiskInv, NEW b \in RiskRows, ChecksCaps(b)
  PROVE  RiskInv'
<1>1. /\ RowTypeOK /\ RobotTypesOK /\ RowsAt /\ PauseSeen /\ CapsLeft
      /\ UNCHANGED <<tries, seenCount, failCount, pause, cooldown, under>>
      /\ overtaken' = overtaken \ {b} /\ riskAt[b] = "caps"
  BY DEF RiskInv, ChecksCaps, NoWrites, RiskGoes
<1>2. RobotTypesOK'
  BY <1>1 DEF RobotTypesOK
<1>3. riskRow[b] = "submitting"
  BY <1>1 DEF RowsAt, Checking
<1>4. PICK to \in {"idle", "place"}, status \in {"skipped", "submitting"} :
        /\ riskAt' = [riskAt EXCEPT ![b] = to] /\ SetRow(b, status)
        /\ to = "place" => ~WouldExceedCap(MineOf(b), RobotCap) /\ ~WouldExceedCap(RiskRows, UserCap)
        /\ (to = "place") <=> (status = "submitting")
  <2>1. UNCHANGED riskRow => SetRow(b, "submitting")
    BY <1>1, <1>3 DEF SetRow, RowTypeOK
  <2> QED BY <2>1 DEF ChecksCaps, SkipsRisk, RiskGoes, MineOf
<1>5. /\ riskAt' \in [RiskRows -> RiskAts] /\ riskAt'[b] = to
      /\ \A c \in RiskRows \ {b} : riskAt'[c] = riskAt[c]
  BY <1>1, <1>4, WorkerMoved DEF RiskAts, Checking
<1>6. /\ riskRow' \in [RiskRows -> RowStates] /\ riskRow'[b] = status
      /\ \A c \in RiskRows \ {b} : riskRow'[c] = riskRow[c]
  BY <1>1, <1>4, RowSet DEF RowStates
<1>7. RowTypeOK'
  BY <1>1, <1>5, <1>6 DEF RowTypeOK
<1>8. RowsAt'
  BY <1>1, <1>3, <1>4, <1>5, <1>6 DEF RowsAt, Checking
<1>9. PauseSeen'
  BY <1>1, <1>5 DEF PauseSeen, PastPause
<1>10. CapsLeft'
  <2>1. ASSUME NEW rows \in SUBSET RiskRows PROVE DailyNotional(rows)' = DailyNotional(rows)
    BY <1>1, <1>3, <1>6, <1>7, NotionalKept
  <2> SUFFICES ASSUME NEW c \in RiskRows \ SellRows, riskAt'[c] = "place", c \notin overtaken'
               PROVE  ~WouldExceedCap(MineOf(c), RobotCap)' /\ ~WouldExceedCap(RiskRows, UserCap)'
    BY DEF CapsLeft
  <2>2. ~WouldExceedCap(MineOf(c), RobotCap) /\ ~WouldExceedCap(RiskRows, UserCap)
    BY <1>1, <1>4, <1>5 DEF CapsLeft
  <2>3. DailyNotional(MineOf(c))' = DailyNotional(MineOf(c)) /\ DailyNotional(RiskRows)' = DailyNotional(RiskRows)
    BY <2>1 DEF MineOf
  <2> QED BY <2>2, <2>3 DEF WouldExceedCap
<1> QED BY <1>2, <1>7, <1>8, <1>9, <1>10 DEF RiskInv

\* A fill overtakes every other row that is about to be placed.
LEMMA FilledKeeps ==
  ASSUME RiskInv, NEW b \in RiskRows, OrderFilled(b)
  PROVE  RiskInv'
<1>1. /\ RowTypeOK /\ RobotTypesOK /\ RowsAt /\ PauseSeen
      /\ UNCHANGED <<tries, seenCount, failCount, pause, cooldown, under>>
      /\ riskAt[b] = "place" /\ riskAt' = [riskAt EXCEPT ![b] = "clear"] /\ SetRow(b, "filled")
      /\ overtaken' = overtaken \union {c \in RiskRows : c # b /\ riskAt[c] = "place"}
  BY DEF RiskInv, OrderFilled, NoWrites, RiskGoes
<1>2. /\ riskAt' \in [RiskRows -> RiskAts] /\ riskAt'[b] = "clear"
      /\ \A c \in RiskRows \ {b} : riskAt'[c] = riskAt[c]
  BY <1>1, WorkerMoved DEF RiskAts
<1>3. /\ riskRow' \in [RiskRows -> RowStates] /\ riskRow'[b] = "filled"
      /\ \A c \in RiskRows \ {b} : riskRow'[c] = riskRow[c]
  BY <1>1, RowSet DEF RowStates
<1>4. RowTypeOK' /\ RobotTypesOK'
  BY <1>1, <1>2, <1>3 DEF RowTypeOK, RobotTypesOK
<1>5. RowsAt'
  BY <1>1, <1>2, <1>3 DEF RowsAt, Checking
<1>6. PauseSeen'
  BY <1>1, <1>2 DEF PauseSeen, PastPause
<1>7. CapsLeft'
  BY <1>1, <1>2 DEF CapsLeft
<1> QED BY <1>4, <1>5, <1>6, <1>7 DEF RiskInv

LEMMA TimeKeeps ==
  ASSUME RiskInv, NEW s \in Robots, PauseEnds(s) \/ CooldownEnds(s)
  PROVE  RiskInv'
<1>1. /\ RowTypeOK /\ RobotTypesOK /\ RowsAt /\ PauseSeen /\ CapsLeft
      /\ UNCHANGED <<riskRow, riskAt, tries, seenCount, failCount, overtaken, under>>
  BY DEF RiskInv, PauseEnds, CooldownEnds
<1>2. /\ pause' \in [Robots -> PauseStates] /\ cooldown' \in [Robots -> PauseStates]
      /\ \A r \in Robots : pause'[r] = "on" => pause[r] = "on"
  BY <1>1 DEF PauseEnds, CooldownEnds, RobotTypesOK, PauseStates
<1>3. RowTypeOK' /\ RobotTypesOK' /\ RowsAt'
  BY <1>1, <1>2 DEF RowTypeOK, RobotTypesOK, RowsAt
<1>4. \A c \in RiskRows : RobotOf[c] \in Robots
  BY DEF Robots
<1>5. PauseSeen' /\ CapsLeft'
  BY <1>1, <1>2, <1>4 DEF PauseSeen, CapsLeft, WouldExceedCap, DailyNotional
<1> QED BY <1>3, <1>5 DEF RiskInv

LEMMA RiskNextInv == RiskInv /\ [RiskNext]_riskVars => RiskInv'
<1> SUFFICES ASSUME RiskInv, [RiskNext]_riskVars PROVE RiskInv'
  OBVIOUS
<1>1. CASE UNCHANGED riskVars
  BY <1>1 DEF riskVars, RiskInv, RowTypeOK, RobotTypesOK, RowsAt, PauseSeen, CapsLeft,
     WouldExceedCap, DailyNotional
<1> QED BY <1>1, ChecksKeep, OrderEndsKeeps, RecordKeeps, CapsKeep, FilledKeeps, TimeKeeps
        DEF RiskNext, RiskNextOf

LEMMA RiskTypes == RiskInv => RiskTypeOK
BY DEF RiskInv, RowTypeOK, RobotTypesOK, RowsAt, RowStates, PauseStates, Checking, RiskTypeOK

\* Rows, counts, pauses and cooldowns keep their types, no row is tried more
\* than its attempts, and none is left submitting without a worker.
THEOREM RiskTyped == RiskSpec => []RiskTypeOK
BY RiskTypes, RiskInitInv, RiskNextInv, PTL DEF RiskSpec

\* Which step fills a row, and which lifts a pause.
LEMMA FilledBy ==
  ASSUME RiskInv, [RiskNext]_riskVars, NEW b \in RiskRows, riskRow[b] # "filled", riskRow'[b] = "filled"
  PROVE  OrderFilled(b)
<1> USE DEF SetRow, SkipsRisk
<1>1. RowTypeOK
  BY DEF RiskInv
<1>2. ASSUME NEW c \in RiskRows,
             \/ ReadsStreak(c) \/ ClearExpiredPause(c) \/ GetFailStreakState(c)
             \/ GetMarketCooldownState(c) \/ ReadsFailures(c) \/ ClearFailureStreak(c)
             \/ ArmMarketCooldown(c) \/ RecordFailure(c) \/ ChecksCaps(c)
      PROVE  FALSE
  BY <1>1, <1>2 DEF RowTypeOK, ReadsStreak, ClearExpiredPause, GetFailStreakState,
     GetMarketCooldownState, ReadsFailures, ClearFailureStreak, ArmMarketCooldown, RecordFailure,
     ChecksCaps
<1>3. ASSUME NEW c \in RiskRows,
             ClaimsRow(c) \/ OrderUnfilled(c) \/ OrderFails(c) \/ RetriesRow(c)
      PROVE  FALSE
  BY <1>1, <1>3 DEF RowTypeOK, ClaimsRow, OrderUnfilled, OrderFails, RetriesRow
<1>4. ASSUME NEW c \in RiskRows, OrderFilled(c) PROVE c = b
  BY <1>1, <1>4 DEF RowTypeOK, OrderFilled
<1>5. ASSUME NEW s \in Robots, PauseEnds(s) \/ CooldownEnds(s) PROVE FALSE
  BY <1>5 DEF PauseEnds, CooldownEnds
<1>6. CASE UNCHANGED riskVars
  BY <1>6 DEF riskVars
<1> QED BY <1>2, <1>3, <1>4, <1>5, <1>6 DEF RiskNext, RiskNextOf

\* A buy brings the day's notional above a cap only if another row was filled
\* between its check and its own fill.
THEOREM CapsCorrect == RiskSpec => CapExceededNeedsOverlap
<1>1. RiskInv /\ [RiskNext]_riskVars =>
        [\A b \in RiskRows \ SellRows :
           (riskRow[b] # "filled" /\ riskRow'[b] = "filled" /\ b \notin overtaken) =>
             /\ DailyNotional(RiskRows)' <= UserCap
             /\ DailyNotional({c \in RiskRows : RobotOf[c] = RobotOf[b]})' <= RobotCap]_riskVars
  <2> SUFFICES ASSUME RiskInv, [RiskNext]_riskVars, NEW b \in RiskRows \ SellRows,
                      riskRow[b] # "filled", riskRow'[b] = "filled", b \notin overtaken
               PROVE  /\ DailyNotional(RiskRows)' <= UserCap
                      /\ DailyNotional({c \in RiskRows : RobotOf[c] = RobotOf[b]})' <= RobotCap
    OBVIOUS
  <2>1. OrderFilled(b)
    BY FilledBy
  <2>2. RowTypeOK /\ SetRow(b, "filled") /\ riskAt[b] = "place"
    BY <2>1 DEF RiskInv, OrderFilled, RiskGoes
  <2>3. ~WouldExceedCap(MineOf(b), RobotCap) /\ ~WouldExceedCap(RiskRows, UserCap)
    BY <2>2 DEF RiskInv, CapsLeft
  <2>4. /\ DailyNotional(RiskRows) \in Nat /\ DailyNotional(RiskRows)' \in Nat
        /\ DailyNotional(RiskRows)' <= DailyNotional(RiskRows) + 1
    BY <2>2, NotionalGrows
  <2>5. /\ DailyNotional(MineOf(b)) \in Nat /\ DailyNotional(MineOf(b))' \in Nat
        /\ DailyNotional(MineOf(b))' <= DailyNotional(MineOf(b)) + 1
    BY <2>2, NotionalGrows DEF MineOf
  <2>6. UserCap \in Nat /\ RobotCap \in Nat
    BY RiskAssumption
  <2>7. DailyNotional(RiskRows)' <= UserCap
    BY <2>3, <2>4, <2>6 DEF WouldExceedCap
  <2>8. DailyNotional(MineOf(b))' <= RobotCap
    BY <2>3, <2>5, <2>6 DEF WouldExceedCap
  <2> QED BY <2>7, <2>8 DEF MineOf
<1> QED BY <1>1, RiskInitInv, RiskNextInv, PTL DEF RiskSpec, CapExceededNeedsOverlap

LEMMA LiftedBy ==
  ASSUME RiskInv, [RiskNext]_riskVars, NEW s \in Robots, pause[s] = "on", pause'[s] = "none"
  PROVE  \E b \in RiskRows : RobotOf[b] = s /\ (ClearExpiredPause(b) \/ ClearFailureStreak(b))
<1>1. RobotTypesOK
  BY DEF RiskInv
<1>2. ASSUME NEW c \in RiskRows,
             \/ ReadsStreak(c) \/ GetFailStreakState(c)
             \/ GetMarketCooldownState(c) \/ ReadsFailures(c)
             \/ ArmMarketCooldown(c) \/ ChecksCaps(c)
             \/ ClaimsRow(c) \/ OrderFilled(c) \/ OrderUnfilled(c) \/ OrderFails(c) \/ RetriesRow(c)
      PROVE  FALSE
  BY <1>2 DEF NoWrites, ReadsStreak, GetFailStreakState, GetMarketCooldownState, ReadsFailures,
     ArmMarketCooldown, ChecksCaps, ClaimsRow, OrderFilled, OrderUnfilled, OrderFails, RetriesRow
<1>3. ASSUME NEW c \in RiskRows, RecordFailure(c) PROVE FALSE
  BY <1>1, <1>3 DEF RobotTypesOK, RecordFailure
<1>4. ASSUME NEW c \in RiskRows, ClearExpiredPause(c) \/ ClearFailureStreak(c) PROVE RobotOf[c] = s
  BY <1>1, <1>4 DEF RobotTypesOK, ClearExpiredPause, ClearFailureStreak
<1>5. ASSUME NEW r \in Robots, PauseEnds(r) \/ CooldownEnds(r) PROVE FALSE
  BY <1>1, <1>5 DEF RobotTypesOK, PauseEnds, CooldownEnds
<1>6. CASE UNCHANGED riskVars
  BY <1>6 DEF riskVars
<1> QED BY <1>2, <1>3, <1>4, <1>5, <1>6 DEF RiskNext, RiskNextOf

\* A pause that is not over is lifted only by a row that was under way when it
\* began, or by a sell.
THEOREM PausesCorrect == RiskSpec => PauseLiftedByLateRow
<1>1. RiskInv /\ [RiskNext]_riskVars =>
        [\A s \in Robots :
           (pause[s] = "on" /\ pause'[s] = "none") =>
             \E b \in under[s] \union SellRows : RobotOf[b] = s /\ riskAt'[b] # riskAt[b]]_riskVars
  <2> SUFFICES ASSUME RiskInv, [RiskNext]_riskVars, NEW s \in Robots,
                      pause[s] = "on", pause'[s] = "none"
               PROVE  \E b \in under[s] \union SellRows : RobotOf[b] = s /\ riskAt'[b] # riskAt[b]
    OBVIOUS
  <2>1. PICK b \in RiskRows : RobotOf[b] = s /\ (ClearExpiredPause(b) \/ ClearFailureStreak(b))
    BY LiftedBy
  <2>2. riskAt[b] \in PastPause /\ riskAt'[b] # riskAt[b]
    BY <2>1 DEF ClearExpiredPause, ClearFailureStreak, RiskGoes, PastPause, RiskInv, RowTypeOK
  <2>3. b \in under[s] \union SellRows
    BY <2>1, <2>2 DEF RiskInv, PauseSeen
  <2> QED BY <2>1, <2>2, <2>3
<1> QED BY <1>1, RiskInitInv, RiskNextInv, PTL DEF RiskSpec, PauseLiftedByLateRow

-----------------------------------------------------------------------------
(***************************************************************************)
(* The virtual account.                                                    *)
(***************************************************************************)
(* What the records look like; amounts get their types with the books below. *)
ExecStatuses == {"none", "QUEUED", "SIMULATING", "SKIPPED", "FILLED", "DEAD"}

AccountShape ==
  DOMAIN account = {"st", "cash"} /\ account.st \in {"ACTIVE", "EXPIRED_CLOSING", "SETTLED", "ARCHIVED"}
LotShape == DOMAIN lot = VBuys /\ \A b \in VBuys : DOMAIN lot[b] = {"entry", "remaining", "nth"}
ExecShape == DOMAIN exec = VExecs /\ \A e \in VExecs : DOMAIN exec[e] = {"st", "by", "retry", "target"}
WorkerShape ==
  /\ DOMAIN worker = VWorkers
  /\ \A w \in VWorkers : /\ DOMAIN worker[w] = {"pc", "e", "size"}
                         /\ worker[w].pc # "idle" => worker[w].e \in VExecs

VirtualShape == AccountShape /\ LotShape /\ ExecShape /\ WorkerShape

\* A worker that lost its claim lost it by being slow.
LostIsLate == \A w \in VWorkers : worker[w].pc # "idle" => Holds(w) \/ worker[w].e \in late

\* The lifecycle goes on only with a closed account, and settles it only empty.
SweepInv ==
  /\ lifecycle \in {"read", "settle"} => account.st # "ACTIVE"
  /\ lifecycle = "settle" => OpenLots = {}

VirtualInv == VirtualShape /\ LostIsLate /\ SweepInv /\ OpenLotsCanClose

\* VirtualTypeOK by what it speaks of, with what steps need beside it: how often an execution was
\* tried, which is never before it was queued, and a fill of at least one share.
StillOpen == {"none", "QUEUED", "SIMULATING"}
ExecTyped ==
  \A e \in VExecs :
    /\ exec[e].st \in ExecStatuses /\ exec[e].target \in Nat \ {0} /\ exec[e].retry \in Nat
    /\ exec[e].retry <= IF exec[e].st \in {"QUEUED", "SIMULATING"} THEN VRetries + 1 ELSE VRetries + 2
    /\ exec[e].st = "none" => exec[e].retry = 0
WorkTyped ==
  \A w \in VWorkers :
    /\ worker[w].pc \in {"idle", "look", "skip", "fill"} /\ worker[w].size \in Nat
    /\ worker[w].pc = "fill" => worker[w].size >= 1
LotTyped == lot \in [VBuys -> [entry : Nat, remaining : Int, nth : Nat]] /\ closed \in [VBuys -> Nat]
Entries == VExecs \cup {Settlement}
LedgerTyped == ledger \in [Entries -> Int]
CashTyped == account \in [st : {"ACTIVE", "EXPIRED_CLOSING", "SETTLED", "ARCHIVED"}, cash : Int]
ReconTyped == recon \in [pc : {"idle", "sum"}, cash : Int] /\ paused \in BOOLEAN
PlainTyped ==
  /\ due \in BOOLEAN /\ resolution \in {"open", "resolved", "settled"}
  /\ lifecycle \in {"idle", "read", "settle"}
FaultsTyped == throws \in 0 .. MaxThrows /\ late \subseteq VExecs

BooksTyped ==
  /\ ExecTyped /\ WorkTyped /\ LotTyped /\ LedgerTyped /\ CashTyped /\ ReconTyped /\ PlainTyped
  /\ FaultsTyped

\* Whoever may still be filled has no lot.
Unfilled ==
  \A b \in VBuys : exec[b].st \in StillOpen => lot[b].entry = 0 /\ closed[b] = 0

\* The settlement is booked once.
Unsettled == resolution # "settled" => ledger[Settlement] = 0

Books == Unfilled /\ Unsettled /\ VirtualConserved
BooksInv == BooksTyped /\ Books
-----------------------------------------------------------------------------
LEMMA VirtualSets ==
  /\ IsFiniteSet(VBuys) /\ IsFiniteSet(Entries) /\ VBuys \subseteq VExecs
  /\ VTarget \in Nat /\ VTarget >= 1 /\ VCash \in Nat /\ VRetries \in Nat /\ MaxThrows \in Nat
<1>1. IsFiniteSet(VExecs) /\ VBuys \subseteq VExecs
  BY VirtualAssumption DEF VExecs
<1>2. IsFiniteSet(VBuys)
  BY <1>1, FS_Subset
<1>3. IsFiniteSet(Entries)
  BY <1>1, FS_AddElement DEF Entries
<1> QED
  BY <1>1, <1>2, <1>3, VirtualAssumption

\* A sell closes of each lot no more than remains of it.
LEMMA ClosesAre ==
  ASSUME LotTyped, \A b \in VBuys : lot[b].remaining >= 0, NEW size \in Nat
  PROVE  /\ PlanCloses(size) \in [VBuys -> Nat]
         /\ \A b \in VBuys : PlanCloses(size)[b] <= lot[b].remaining
         /\ SumFunctionOnSet(PlanCloses(size), VBuys) \in Nat
<1> DEFINE Older(b) == {c \in VBuys : lot[c].nth < lot[b].nth}
           Left(b) == size - SumFunctionOnSet(Remaining, Older(b))
           f == [b \in VBuys |-> IF Left(b) <= 0 THEN 0 ELSE Least(lot[b].remaining, Left(b))]
<1>1. PlanCloses(size) = f
  BY DEF PlanCloses
<1>2. \A b \in VBuys : lot[b].remaining \in Nat /\ Remaining[b] \in Nat
  BY DEF LotTyped, Remaining
<1>3. ASSUME NEW b \in VBuys PROVE Left(b) \in Int
  <2>1. IsFiniteSet(Older(b)) /\ Older(b) \subseteq VBuys
    BY VirtualSets, FS_Subset
  <2> HIDE DEF Older
  <2>2. \A c \in Older(b) : Remaining[c] \in Nat
    BY <1>2, <2>1
  <2>3. SumFunctionOnSet(Remaining, Older(b)) \in Nat
    BY <2>1, <2>2, SumAtLeast
  <2> QED BY <2>3
<1> HIDE DEF Left
<1>4. ASSUME NEW b \in VBuys PROVE f[b] \in Nat /\ f[b] <= lot[b].remaining
  BY <1>2, <1>3 DEF Least
<1>5. f \in [VBuys -> Nat]
  BY <1>4
<1> HIDE DEF f
<1>6. SumFunctionOnSet(f, VBuys) \in Nat
  BY <1>4, VirtualSets, SumAtLeast
<1> QED BY <1>1, <1>4, <1>5, <1>6

\* What can be sold is a number.
LEMMA AvailableIs ==
  ASSUME BooksInv PROVE Available \in Nat
<1>1. \A b \in VBuys : Remaining[b] \in Nat
  BY DEF BooksInv, BooksTyped, Books, LotTyped, VirtualConserved, Remaining
<1> QED BY <1>1, VirtualSets, SumAtLeast DEF Available

-----------------------------------------------------------------------------
LEMMA VirtualInitInv == VirtualInit => VirtualInv
<1> SUFFICES ASSUME VirtualInit PROVE VirtualInv
  OBVIOUS
<1>1. VirtualShape
  BY DEF VirtualInit, VirtualShape, AccountShape, LotShape, ExecShape, WorkerShape, NoWork
<1>2. LostIsLate
  BY DEF VirtualInit, LostIsLate, NoWork
<1>3. OpenLots = {}
  BY DEF VirtualInit, OpenLots
<1> QED
  BY <1>1, <1>2, <1>3 DEF VirtualInit, VirtualInv, SweepInv, OpenLotsCanClose
-----------------------------------------------------------------------------
(* Frame lemmas.                                                           *)

\* An execution gets another status.
LEMMA StatusMoves ==
  ASSUME ExecShape, NEW e \in VExecs, NEW st, Becomes(e, st)
  PROVE  /\ ExecShape' /\ exec'[e].st = st /\ exec'[e].by = exec[e].by
         /\ \A f \in VExecs : f # e => exec'[f] = exec[f]
BY DEF ExecShape, Becomes

\* A worker takes another step of its execution.
LEMMA WorkerMoves ==
  ASSUME WorkerShape, NEW w \in VWorkers, NEW pc, Works(w, pc), worker[w].pc # "idle"
  PROVE  /\ WorkerShape' /\ worker'[w].pc = pc /\ worker'[w].e = worker[w].e
         /\ \A v \in VWorkers : v # w => worker'[v] = worker[v]
BY DEF WorkerShape, Works

\* A worker is done.
LEMMA WorkerRests ==
  ASSUME WorkerShape, NEW w \in VWorkers, Rests(w)
  PROVE  /\ WorkerShape' /\ worker'[w] = NoWork
         /\ \A v \in VWorkers : v # w => worker'[v] = worker[v]
BY DEF WorkerShape, Rests, NoWork

\* Claims survive a step in which a worker rests and at most its own execution changes, which
\* it held or which nobody held any more.
LEMMA ClaimsSurvive ==
  ASSUME WorkerShape, LostIsLate, NEW w \in VWorkers, Rests(w), late' = late,
         \A f \in VExecs : exec'[f] = exec[f] \/ f = worker[w].e,
         worker[w].pc # "idle"
  PROVE  LostIsLate'
<1> SUFFICES ASSUME NEW v \in VWorkers, worker'[v].pc # "idle"
             PROVE  Holds(v)' \/ worker'[v].e \in late'
  BY DEF LostIsLate
<1>1. v # w /\ worker'[v] = worker[v]
  BY WorkerRests DEF NoWork
<1>2. Holds(v) \/ worker[v].e \in late
  BY <1>1 DEF LostIsLate
<1>3. Holds(w) \/ worker[w].e \in late
  BY DEF LostIsLate
<1>4. worker[v].e \in VExecs
  BY <1>1 DEF WorkerShape
<1>5. CASE worker[v].e = worker[w].e
  <2>1. ~Holds(v) \/ ~Holds(w)
    BY <1>5, <1>1 DEF Holds
  <2>2. worker[v].e \in late
    BY <2>1, <1>2, <1>3, <1>5
  <2> QED
    BY <2>2, <1>1
<1>6. CASE worker[v].e # worker[w].e
  <2>1. exec'[worker[v].e] = exec[worker[v].e]
    BY <1>4, <1>6
  <2> QED
    BY <2>1, <1>1, <1>2 DEF Holds
<1> QED
  BY <1>5, <1>6

\* Neither the account nor the lots change.
LEMMA MoneyStays ==
  ASSUME SweepInv, OpenLotsCanClose, UNCHANGED <<account, lot, lifecycle>>
  PROVE  SweepInv' /\ OpenLotsCanClose'
<1>1. OpenLots' = OpenLots
  BY DEF OpenLots
<1> QED
  BY <1>1 DEF SweepInv, OpenLotsCanClose, Tradable
-----------------------------------------------------------------------------
(* One lemma for each action of an execution.                              *)

LEMMA DispatchInv ==
  ASSUME VirtualInv, NEW e \in VExecs, DispatchVirtual(e) PROVE VirtualInv'
<1> USE DEF VirtualInv, VirtualShape, Elsewhere
<1>1. ExecShape' /\ \A f \in VExecs : f # e => exec'[f] = exec[f]
  BY StatusMoves DEF DispatchVirtual
<1>2. AccountShape' /\ LotShape' /\ WorkerShape'
  BY DEF DispatchVirtual, AccountShape, LotShape, WorkerShape
<1>3. LostIsLate'
  BY <1>1 DEF DispatchVirtual, LostIsLate, Holds, WorkerShape
<1>4. SweepInv' /\ OpenLotsCanClose'
  BY MoneyStays DEF DispatchVirtual
<1> QED
  BY <1>1, <1>2, <1>3, <1>4

LEMMA ConfirmInv ==
  ASSUME VirtualInv, NEW e \in VExecs, ConfirmVirtualClose(e) PROVE VirtualInv'
<1> USE DEF VirtualInv, VirtualShape, Elsewhere
<1>1. ExecShape' /\ \A f \in VExecs : f # e => exec'[f] = exec[f]
  BY DEF ConfirmVirtualClose, ExecShape
<1>2. AccountShape' /\ LotShape' /\ WorkerShape'
  BY DEF ConfirmVirtualClose, AccountShape, LotShape, WorkerShape
<1>3. LostIsLate'
  BY <1>1 DEF ConfirmVirtualClose, LostIsLate, Holds, WorkerShape
<1>4. SweepInv' /\ OpenLotsCanClose'
  BY MoneyStays DEF ConfirmVirtualClose
<1> QED
  BY <1>1, <1>2, <1>3, <1>4

LEMMA ClaimInv ==
  ASSUME VirtualInv, NEW w \in VWorkers, NEW e \in VExecs, ClaimVirtual(w, e) PROVE VirtualInv'
<1> USE DEF VirtualInv, VirtualShape, Elsewhere
<1>1. /\ ExecShape' /\ \A f \in VExecs : f # e => exec'[f] = exec[f]
      /\ exec'[e].st = "SIMULATING" /\ exec'[e].by = w
  BY DEF ClaimVirtual, ExecShape
<1>2. /\ WorkerShape' /\ \A v \in VWorkers : v # w => worker'[v] = worker[v]
      /\ worker'[w].pc = "look" /\ worker'[w].e = e
  BY DEF ClaimVirtual, WorkerShape, NoWork
<1>3. AccountShape' /\ LotShape'
  BY DEF ClaimVirtual, AccountShape, LotShape
<1>4. LostIsLate'
  <2> SUFFICES ASSUME NEW v \in VWorkers, worker'[v].pc # "idle", v # w
               PROVE  Holds(v)' \/ worker'[v].e \in late'
    BY <1>1, <1>2 DEF LostIsLate, Holds
  <2>1. worker[v].e \in VExecs /\ (Holds(v) \/ worker[v].e \in late)
    BY <1>2 DEF LostIsLate, WorkerShape
  <2>2. worker[v].e = e => ~Holds(v)
    BY DEF ClaimVirtual, Holds
  <2>3. worker'[v] = worker[v] /\ late' = late
    BY <1>2 DEF ClaimVirtual
  <2>4. Holds(v) => exec'[worker[v].e] = exec[worker[v].e]
    BY <1>1, <2>1, <2>2
  <2> HIDE DEF VirtualInv
  <2> QED
    BY <2>1, <2>3, <2>4 DEF Holds
<1>5. SweepInv' /\ OpenLotsCanClose'
  BY MoneyStays, <1>2 DEF ClaimVirtual
<1> QED
  BY <1>1, <1>2, <1>3, <1>4, <1>5

LEMMA LookInv ==
  ASSUME VirtualInv, NEW w \in VWorkers, LooksAtMarket(w) PROVE VirtualInv'
<1> USE DEF VirtualInv, VirtualShape, Elsewhere
<1>1. /\ WorkerShape' /\ worker'[w].e = worker[w].e
      /\ \A v \in VWorkers : v # w => worker'[v] = worker[v]
  <2>1. worker[w].pc = "look"
    BY DEF LooksAtMarket
  <2>2. CASE Works(w, "skip")
    BY <2>1, <2>2, WorkerMoves
  <2>3. ASSUME NEW size, worker' = [worker EXCEPT ![w].pc = "fill", ![w].size = size]
        PROVE  /\ WorkerShape' /\ worker'[w].e = worker[w].e
               /\ \A v \in VWorkers : v # w => worker'[v] = worker[v]
    BY <2>1, <2>3 DEF WorkerShape
  <2> QED
    BY <2>2, <2>3 DEF LooksAtMarket
<1>2. AccountShape' /\ LotShape' /\ ExecShape'
  BY DEF LooksAtMarket, AccountShape, LotShape, ExecShape
<1>3. LostIsLate'
  <2>1. exec' = exec /\ late' = late /\ worker[w].pc # "idle"
    BY DEF LooksAtMarket
  <2>2. \A v \in VWorkers : worker'[v].e = worker[v].e /\ (worker'[v].pc # "idle" => worker[v].pc # "idle")
    BY <1>1, <2>1
  <2> QED
    BY <2>1, <2>2 DEF LostIsLate, Holds
<1>4. SweepInv' /\ OpenLotsCanClose'
  BY MoneyStays, <1>1 DEF LooksAtMarket
<1> QED
  BY <1>1, <1>2, <1>3, <1>4

\* A worker rests, its execution gets a status, and the money stays.
LEMMA EndInv ==
  ASSUME VirtualInv, NEW w \in VWorkers, NEW st, worker[w].pc # "idle",
         Becomes(worker[w].e, st) \/ UNCHANGED exec, Rests(w),
         UNCHANGED <<account, lot, late, Elsewhere>>
  PROVE  VirtualInv'
<1> USE DEF VirtualInv, VirtualShape, Elsewhere
<1>1. worker[w].e \in VExecs
  BY DEF WorkerShape
<1>2. ExecShape' /\ \A f \in VExecs : f # worker[w].e => exec'[f] = exec[f]
  BY <1>1, StatusMoves DEF ExecShape
<1>3. AccountShape' /\ LotShape' /\ WorkerShape'
  BY WorkerRests DEF AccountShape, LotShape
<1>4. LostIsLate'
  BY <1>2, ClaimsSurvive
<1>5. SweepInv' /\ OpenLotsCanClose'
  BY MoneyStays, WorkerRests DEF NoWork
<1> QED
  BY <1>2, <1>3, <1>4, <1>5

LEMMA ThrowInv ==
  ASSUME VirtualInv, NEW w \in VWorkers, WorkerThrows(w) PROVE VirtualInv'
<1> USE DEF VirtualInv, VirtualShape, Elsewhere
<1>1. worker[w].e \in VExecs
  BY DEF WorkerShape, WorkerThrows
<1>2. ExecShape' /\ \A f \in VExecs : f # worker[w].e => exec'[f] = exec[f]
  <2>1. CASE ~Holds(w)
    BY <2>1 DEF WorkerThrows, ExecShape
  <2>2. CASE Holds(w)
    BY <2>2, <1>1 DEF WorkerThrows, ExecShape
  <2> QED
    BY <2>1, <2>2
<1>3. AccountShape' /\ LotShape' /\ WorkerShape'
  BY WorkerRests DEF WorkerThrows, AccountShape, LotShape
<1>4. LostIsLate'
  BY <1>2, ClaimsSurvive DEF WorkerThrows
<1>5. SweepInv' /\ OpenLotsCanClose'
  BY MoneyStays, WorkerRests DEF WorkerThrows, NoWork
<1> QED
  BY <1>2, <1>3, <1>4, <1>5

LEMMA RecoverInv ==
  ASSUME VirtualInv, NEW e \in VExecs, RecoverClaim(e) PROVE VirtualInv'
<1> USE DEF VirtualInv, VirtualShape, Elsewhere
<1>1. ExecShape' /\ \A f \in VExecs : f # e => exec'[f] = exec[f]
  BY DEF RecoverClaim, ExecShape
<1>2. AccountShape' /\ LotShape' /\ WorkerShape'
  BY DEF RecoverClaim, AccountShape, LotShape, WorkerShape
<1>3. LostIsLate'
  <2> SUFFICES ASSUME NEW v \in VWorkers, worker[v].pc # "idle"
               PROVE  Holds(v)' \/ worker[v].e \in late'
    BY DEF LostIsLate, RecoverClaim
  <2>1. worker[v].e \in VExecs /\ worker' = worker
    BY DEF WorkerShape, RecoverClaim
  <2>2. CASE worker[v].e = e
    BY <2>2 DEF RecoverClaim
  <2>3. CASE worker[v].e # e
    BY <2>1, <2>3, <1>1 DEF RecoverClaim, LostIsLate, Holds
  <2> QED
    BY <2>2, <2>3
<1>4. SweepInv' /\ OpenLotsCanClose'
  BY MoneyStays DEF RecoverClaim
<1> QED
  BY <1>1, <1>2, <1>3, <1>4

\* A buy opens its lot only in an active account.
LEMMA FillBuyInv ==
  ASSUME VirtualInv, NEW w \in VWorkers, FillsBuy(w) PROVE VirtualInv'
<1> USE DEF VirtualInv, VirtualShape, Elsewhere
<1> DEFINE e == worker[w].e
<1>1. /\ worker[w].pc = "fill" /\ e \in VBuys /\ e \in VExecs /\ account.st = "ACTIVE"
      /\ Rests(w) /\ Becomes(e, "FILLED") /\ UNCHANGED <<late, lifecycle>>
  BY DEF FillsBuy, BuyRefused, VExecs
<1>2. ExecShape' /\ \A f \in VExecs : f # e => exec'[f] = exec[f]
  BY <1>1, StatusMoves
<1>3. WorkerShape'
  BY <1>1, WorkerRests
<1>4. AccountShape' /\ account'.st = account.st
  BY DEF FillsBuy, AccountShape
<1>5. LotShape'
  BY <1>1 DEF FillsBuy, LotShape
<1>6. LostIsLate'
  BY <1>1, <1>2, ClaimsSurvive
<1>7. SweepInv' /\ OpenLotsCanClose'
  BY <1>1, <1>4 DEF SweepInv, OpenLotsCanClose, Tradable
<1> QED
  BY <1>2, <1>3, <1>4, <1>5, <1>6, <1>7

\* A sell opens no lot.
LEMMA FillSellInv ==
  ASSUME VirtualInv, BooksInv, NEW w \in VWorkers, FillsSell(w) PROVE VirtualInv'
<1> USE DEF VirtualInv, VirtualShape, Elsewhere
<1> DEFINE e == worker[w].e
           closes == PlanCloses(worker[w].size)
<1>1. /\ worker[w].pc = "fill" /\ e \in VExecs /\ Tradable
      /\ Rests(w) /\ Becomes(e, "FILLED") /\ UNCHANGED <<late, lifecycle>>
      /\ lot' = [b \in VBuys |-> [lot[b] EXCEPT !.remaining = lot[b].remaining - closes[b]]]
  BY DEF FillsSell, WorkerShape
<1>2. ExecShape' /\ \A f \in VExecs : f # e => exec'[f] = exec[f]
  BY <1>1, StatusMoves
<1>3. WorkerShape'
  BY <1>1, WorkerRests
<1>4. AccountShape' /\ account'.st = account.st
  BY DEF FillsSell, AccountShape
<1>5. LostIsLate'
  BY <1>1, <1>2, ClaimsSurvive
<1>6. \A b \in VBuys : closes[b] \in Nat /\ lot[b].remaining \in Int
  <2>1. worker[w].size \in Nat /\ LotTyped /\ \A b \in VBuys : lot[b].remaining >= 0
    BY DEF BooksInv, BooksTyped, Books, WorkTyped, VirtualConserved
  <2> QED
    BY <2>1, ClosesAre DEF LotTyped
<1> HIDE DEF closes
<1>7. LotShape' /\ \A b \in VBuys : lot'[b].remaining = lot[b].remaining - closes[b]
  BY <1>1 DEF LotShape
<1>8. OpenLots' \subseteq OpenLots
  BY <1>6, <1>7 DEF OpenLots
<1>9. SweepInv' /\ OpenLotsCanClose'
  BY <1>1, <1>4, <1>8 DEF SweepInv, OpenLotsCanClose, Tradable
<1> QED
  BY <1>2, <1>3, <1>4, <1>5, <1>7, <1>9

LEMMA SettleTokenInv ==
  ASSUME VirtualInv, SettleVirtualToken PROVE VirtualInv'
<1> USE DEF VirtualInv, VirtualShape
<1>1. UNCHANGED <<exec, worker, lifecycle, late>> /\ OpenLots # {}
  BY DEF SettleVirtualToken
<1>2. ExecShape' /\ WorkerShape' /\ LostIsLate'
  BY <1>1 DEF ExecShape, WorkerShape, LostIsLate, Holds
<1>3. AccountShape' /\ account'.st = account.st
  BY DEF SettleVirtualToken, AccountShape
<1>4. LotShape' /\ \A b \in VBuys : lot'[b].remaining = 0
  BY DEF SettleVirtualToken, LotShape
<1>5. OpenLots' = {}
  BY <1>4 DEF OpenLots
<1> QED
  BY <1>1, <1>2, <1>3, <1>4, <1>5 DEF SweepInv, OpenLotsCanClose

\* The rest of the lifecycle touches neither executions nor lots.
LEMMA LifecycleInv ==
  ASSUME VirtualInv,
         \/ MarketResolves \/ TimeIsUp \/ LifecycleExpires \/ LifecycleReads \/ LifecycleSettles
         \/ ArchiveAccount \/ ReconcileNext
  PROVE  VirtualInv'
<1> USE DEF VirtualInv, VirtualShape
<1>1. UNCHANGED <<exec, worker, lot, late>>
  BY DEF MarketResolves, TimeIsUp, LifecycleExpires, LifecycleReads, LifecycleSettles, ArchiveAccount,
         ReconcileNext, ReconcileReads, ReconcileSums
<1>2. ExecShape' /\ WorkerShape' /\ LostIsLate' /\ LotShape' /\ OpenLots' = OpenLots
  BY <1>1 DEF ExecShape, WorkerShape, LostIsLate, Holds, LotShape, OpenLots
<1>3. CASE MarketResolves \/ TimeIsUp \/ ReconcileNext
  <2>1. UNCHANGED <<account, lifecycle>>
    BY <1>3 DEF MarketResolves, TimeIsUp, ReconcileNext, ReconcileReads, ReconcileSums
  <2> QED
    BY <1>1, <1>2, <2>1 DEF AccountShape, SweepInv, OpenLotsCanClose, Tradable
<1>4. CASE LifecycleReads
  BY <1>1, <1>2, <1>4 DEF LifecycleReads, AccountShape, SweepInv, OpenLotsCanClose, Tradable
<1>5. CASE LifecycleExpires
  <2>1. /\ account'.st = IF account.st = "ACTIVE" THEN "EXPIRED_CLOSING" ELSE account.st
        /\ AccountShape' /\ lifecycle' = "read"
    BY <1>5 DEF LifecycleExpires, AccountShape
  <2> QED
    BY <1>1, <1>2, <2>1 DEF SweepInv, OpenLotsCanClose, Tradable
<1>6. CASE LifecycleSettles
  <2>1. AccountShape' /\ lifecycle' = "idle" /\ OpenLots = {}
    BY <1>6 DEF LifecycleSettles, AccountShape, SweepInv
  <2> QED
    BY <1>2, <2>1 DEF SweepInv, OpenLotsCanClose
<1>7. CASE ArchiveAccount
  <2>1. AccountShape' /\ account'.st = "ARCHIVED" /\ lifecycle' = lifecycle /\ OpenLots = {}
    BY <1>7 DEF ArchiveAccount, AccountShape
  <2> QED
    BY <1>2, <2>1 DEF SweepInv, OpenLotsCanClose
<1> QED
  BY <1>3, <1>4, <1>5, <1>6, <1>7
-----------------------------------------------------------------------------
LEMMA VirtualNextInv == VirtualInv /\ BooksInv /\ [VirtualNext]_virtualVars => VirtualInv'
<1> SUFFICES ASSUME VirtualInv, BooksInv, [VirtualNext]_virtualVars PROVE VirtualInv'
  OBVIOUS
<1>1. CASE VirtualExecNext(VExecs)
  <2>1. ASSUME NEW e \in VExecs, DispatchVirtual(e) \/ ConfirmVirtualClose(e) \/ RecoverClaim(e)
        PROVE  VirtualInv'
    BY <2>1, DispatchInv, ConfirmInv, RecoverInv
  <2>2. ASSUME NEW w \in VWorkers, NEW e \in VExecs, ClaimVirtual(w, e)
        PROVE  VirtualInv'
    BY <2>2, ClaimInv
  <2>3. ASSUME NEW w \in VWorkers, SkipsVirtual(w) \/ LostClaim(w) \/ SkipsInFill(w) \/ WorkerStops(w)
        PROVE  VirtualInv'
    <3>1. /\ worker[w].pc # "idle" /\ Rests(w) /\ UNCHANGED <<account, lot, late, Elsewhere>>
          /\ Becomes(worker[w].e, "SKIPPED") \/ UNCHANGED exec
      BY <2>3 DEF SkipsVirtual, LostClaim, SkipsInFill, WorkerStops
    <3> QED
      BY <3>1, EndInv
  <2>4. ASSUME NEW w \in VWorkers, LooksAtMarket(w) \/ WorkerThrows(w) \/ FillsBuy(w) \/ FillsSell(w)
        PROVE  VirtualInv'
    BY <2>4, LookInv, ThrowInv, FillBuyInv, FillSellInv
  <2> QED
    BY <1>1, <2>1, <2>2, <2>3, <2>4 DEF VirtualExecNext
<1>2. CASE LifecycleNext \/ ReconcileNext
  BY <1>2, SettleTokenInv, LifecycleInv DEF LifecycleNext
<1>3. CASE UNCHANGED virtualVars
  BY <1>3 DEF virtualVars, VirtualInv, VirtualShape, AccountShape, LotShape, ExecShape, WorkerShape, LostIsLate,
              Holds, SweepInv, OpenLotsCanClose, OpenLots, Tradable
<1> QED
  BY <1>1, <1>2, <1>3 DEF VirtualNext

-----------------------------------------------------------------------------
(* The books of the virtual account.                                       *)

\* An entry booked in the ledger moves its sum by the amount.
LEMMA LedgerMoves ==
  ASSUME LedgerTyped, NEW k \in Entries, NEW d \in Int, ledger' = [ledger EXCEPT ![k] = ledger[k] + d]
  PROVE  LedgerTyped' /\ LedgerSum' = LedgerSum + d /\ LedgerSum \in Int
<1>1. IsFiniteSet(Entries) /\ VCash \in Int
  BY VirtualSets
<1>2. ledger \in [Entries -> Int]
  BY DEF LedgerTyped
<1>3. SumFunctionOnSet(ledger', Entries) = SumFunctionOnSet(ledger, Entries) + d
  BY <1>1, <1>2, SumBooks
<1>4. SumFunctionOnSet(ledger, Entries) \in Int
  <2>1. \A y \in Entries : ledger[y] \in Int
    BY <1>2
  <2> QED
    BY <1>1, <2>1, SumTyped
<1>5. LedgerTyped'
  BY <1>2 DEF LedgerTyped
<1>6. LedgerSum = VCash + SumFunctionOnSet(ledger, Entries) /\ LedgerSum' = VCash + SumFunctionOnSet(ledger', Entries)
  BY DEF LedgerSum, Entries
<1> QED
  BY <1>1, <1>3, <1>4, <1>5, <1>6

LEMMA BooksInitInv == VirtualInit => BooksInv
<1> SUFFICES ASSUME VirtualInit PROVE BooksInv
  OBVIOUS
<1>1. LedgerSum = VCash
  <2>1. \A k \in Entries : ledger[k] = 0
    BY DEF VirtualInit, Entries
  <2>2. SumFunctionOnSet(ledger, Entries) = 0
    BY <2>1, VirtualSets, SumOfNothing
  <2> QED
    BY <2>2, VirtualSets DEF LedgerSum, Entries
<1>2. ExecTyped /\ WorkTyped
  BY VirtualSets DEF VirtualInit, ExecTyped, WorkTyped, NoWork, ExecStatuses
<1>3. LotTyped /\ LedgerTyped /\ CashTyped /\ ReconTyped /\ PlainTyped /\ FaultsTyped
  <2>1. 0 \in 0 .. MaxThrows /\ VCash \in Int
    BY VirtualSets
  <2>2. 0 \in Int /\ 0 \in Nat
    OBVIOUS
  <2>3. LotTyped
    BY <2>2 DEF VirtualInit, LotTyped
  <2>4. LedgerTyped
    BY <2>2 DEF VirtualInit, LedgerTyped, Entries
  <2>5. CashTyped /\ ReconTyped
    BY <2>1, <2>2 DEF VirtualInit, CashTyped, ReconTyped
  <2>6. PlainTyped /\ FaultsTyped
    BY <2>1 DEF VirtualInit, PlainTyped, FaultsTyped
  <2> QED
    BY <2>3, <2>4, <2>5, <2>6
<1>4. VirtualConserved
  BY <1>1, VirtualSets DEF VirtualInit, VirtualConserved
<1>5. Unfilled /\ Unsettled
  BY DEF VirtualInit, Unfilled, Unsettled
<1> QED
  BY <1>2, <1>3, <1>4, <1>5 DEF BooksInv, Books, BooksTyped

LEMMA BooksGiveTypes == BooksTyped => VirtualTypeOK
BY DEF BooksTyped, VirtualTypeOK, ExecTyped, WorkTyped, LotTyped, LedgerTyped, CashTyped, ReconTyped, PlainTyped,
       FaultsTyped, Entries, ExecStatuses
-----------------------------------------------------------------------------
(* Steps that leave the money alone.                                       *)

\* No money moves, and nothing that is done is pending again.
LEMMA BooksStay ==
  ASSUME Books, UNCHANGED <<lot, closed, ledger>>, account'.cash = account.cash,
         resolution = "settled" => resolution' = "settled",
         \A b \in VBuys : exec'[b].st \in StillOpen => exec[b].st \in StillOpen
  PROVE  Books'
<1>1. LedgerSum' = LedgerSum
  BY DEF LedgerSum
<1> QED
  BY <1>1 DEF Books, Unfilled, Unsettled, VirtualConserved

LEMMA QuietBooks ==
  ASSUME BooksInv, UNCHANGED <<account, lot, closed, ledger, Elsewhere>>,
         \A e \in VExecs : exec'[e].st \in StillOpen => exec[e].st \in StillOpen,
         ExecTyped', WorkTyped', FaultsTyped'
  PROVE  BooksInv'
<1>1. \A b \in VBuys : exec'[b].st \in StillOpen => exec[b].st \in StillOpen
  BY VirtualSets
<1>2. Books'
  BY <1>1, BooksStay DEF BooksInv, Elsewhere
<1>3. LotTyped' /\ LedgerTyped' /\ CashTyped' /\ ReconTyped' /\ PlainTyped'
  BY DEF BooksInv, BooksTyped, Elsewhere, LotTyped, LedgerTyped, CashTyped, ReconTyped, PlainTyped
<1> QED
  BY <1>2, <1>3 DEF BooksInv, BooksTyped

\* An execution gets another status, which is pending only if it was.
LEMMA StatusTyped ==
  ASSUME ExecShape, ExecTyped, NEW e \in VExecs, NEW st \in ExecStatuses \ {"none"}, Becomes(e, st),
         st \in {"QUEUED", "SIMULATING"} => exec[e].st \in StillOpen
  PROVE  ExecTyped' /\ \A f \in VExecs : exec'[f].st \in StillOpen => exec[f].st \in StillOpen
<1>1. /\ exec'[e].st = st /\ exec'[e].target = exec[e].target /\ exec'[e].retry = exec[e].retry
      /\ \A f \in VExecs : f # e => exec'[f] = exec[f]
  BY DEF ExecShape, Becomes
<1>2. exec[e].st \in StillOpen => exec[e].retry <= VRetries + 1
  BY VirtualSets DEF ExecTyped, StillOpen
<1>3. exec[e].retry <= VRetries + 2
  BY VirtualSets DEF ExecTyped
<1> QED
  BY <1>1, <1>2, <1>3 DEF ExecTyped, StillOpen

LEMMA RestsTyped ==
  ASSUME WorkerShape, WorkTyped, NEW w \in VWorkers, Rests(w) PROVE WorkTyped'
BY VirtualSets, WorkerRests DEF WorkTyped, NoWork

LEMMA DispatchBooks ==
  ASSUME VirtualInv, BooksInv, NEW e \in VExecs, DispatchVirtual(e) PROVE BooksInv'
<1> USE DEF VirtualInv, VirtualShape, BooksInv, BooksTyped
<1>1. ExecTyped' /\ \A f \in VExecs : exec'[f].st \in StillOpen => exec[f].st \in StillOpen
  BY StatusTyped DEF DispatchVirtual, ExecStatuses, StillOpen
<1>2. WorkTyped' /\ FaultsTyped'
  BY DEF DispatchVirtual, WorkTyped, FaultsTyped
<1> QED
  BY <1>1, <1>2, QuietBooks DEF DispatchVirtual

\* The size a user confirms is at least one.
LEMMA ConfirmBooks ==
  ASSUME VirtualInv, BooksInv, NEW e \in VExecs, ConfirmVirtualClose(e) PROVE BooksInv'
<1> USE DEF VirtualInv, VirtualShape, BooksInv, BooksTyped
<1>1. PICK size \in 1 .. Available : exec' = [exec EXCEPT ![e].st = "QUEUED", ![e].target = size]
  BY DEF ConfirmVirtualClose
<1>2. exec[e].st = "none" /\ exec[e].retry = 0
  BY DEF ConfirmVirtualClose, ExecTyped
<1>3. size \in Nat \ {0}
  BY <1>1, AvailableIs
<1>4. /\ exec'[e].st = "QUEUED" /\ exec'[e].target = size /\ exec'[e].retry = 0
      /\ \A f \in VExecs : f # e => exec'[f] = exec[f]
  BY <1>1, <1>2 DEF ExecShape
<1>5. ExecTyped' /\ \A f \in VExecs : exec'[f].st \in StillOpen => exec[f].st \in StillOpen
  BY <1>2, <1>3, <1>4, VirtualSets DEF ExecTyped, StillOpen, ExecStatuses
<1>6. WorkTyped' /\ FaultsTyped'
  BY DEF ConfirmVirtualClose, WorkTyped, FaultsTyped
<1> QED
  BY <1>5, <1>6, QuietBooks DEF ConfirmVirtualClose

LEMMA ClaimBooks ==
  ASSUME VirtualInv, BooksInv, NEW w \in VWorkers, NEW e \in VExecs, ClaimVirtual(w, e) PROVE BooksInv'
<1> USE DEF VirtualInv, VirtualShape, BooksInv, BooksTyped
<1>1. /\ exec'[e].st = "SIMULATING" /\ exec'[e].target = exec[e].target /\ exec'[e].retry = exec[e].retry
      /\ exec[e].st = "QUEUED" /\ \A f \in VExecs : f # e => exec'[f] = exec[f]
  BY DEF ClaimVirtual, ExecShape
<1>2. ExecTyped' /\ \A f \in VExecs : exec'[f].st \in StillOpen => exec[f].st \in StillOpen
  BY <1>1, VirtualSets DEF ExecTyped, StillOpen, ExecStatuses
<1>3. /\ worker'[w].pc = "look" /\ worker'[w].size = 0
      /\ \A v \in VWorkers : v # w => worker'[v] = worker[v]
  BY DEF ClaimVirtual, WorkerShape, NoWork
<1>4. WorkTyped'
  BY <1>3, VirtualSets DEF WorkTyped
<1>5. FaultsTyped'
  BY DEF ClaimVirtual, FaultsTyped
<1> QED
  BY <1>2, <1>4, <1>5, QuietBooks DEF ClaimVirtual

LEMMA LookBooks ==
  ASSUME VirtualInv, BooksInv, NEW w \in VWorkers, LooksAtMarket(w) PROVE BooksInv'
<1> USE DEF VirtualInv, VirtualShape, BooksInv, BooksTyped
<1> DEFINE e == worker[w].e
           most == IF e \in VBuys \/ Available >= exec[e].target THEN exec[e].target ELSE Available
<1>1. /\ worker[w].pc = "look"
      /\ Works(w, "skip") \/ \E size \in 1 .. most : worker' = [worker EXCEPT ![w].pc = "fill", ![w].size = size]
      /\ UNCHANGED <<account, exec, lot, closed, ledger, throws, late, Elsewhere>>
  BY DEF LooksAtMarket
<1>2. e \in VExecs
  BY <1>1 DEF WorkerShape
<1>3. exec[e].target \in Nat \ {0}
  BY <1>2 DEF ExecTyped
<1>4. most \in Nat
  BY <1>3, AvailableIs
<1> HIDE DEF most
<1>5. WorkTyped'
  <2>1. CASE Works(w, "skip")
    BY <1>1, <2>1, VirtualSets DEF Works, WorkerShape, WorkTyped
  <2>2. ASSUME NEW size \in 1 .. most, worker' = [worker EXCEPT ![w].pc = "fill", ![w].size = size]
        PROVE  WorkTyped'
    <3>1. size \in Nat /\ size >= 1
      BY <1>4
    <3>2. /\ worker'[w].pc = "fill" /\ worker'[w].size = size
          /\ \A v \in VWorkers : v # w => worker'[v] = worker[v]
      BY <2>2 DEF WorkerShape
    <3> QED
      BY <3>1, <3>2, VirtualSets DEF WorkTyped
  <2> QED
    BY <1>1, <2>1, <2>2
<1>6. ExecTyped' /\ FaultsTyped'
  BY <1>1 DEF ExecTyped, FaultsTyped
<1> QED
  BY <1>1, <1>5, <1>6, QuietBooks

LEMMA EndBooks ==
  ASSUME VirtualInv, BooksInv, NEW w \in VWorkers,
         SkipsVirtual(w) \/ LostClaim(w) \/ SkipsInFill(w) \/ WorkerStops(w)
  PROVE  BooksInv'
<1> USE DEF VirtualInv, VirtualShape, BooksInv, BooksTyped
<1>1. /\ worker[w].pc # "idle" /\ Rests(w)
      /\ Becomes(worker[w].e, "SKIPPED") \/ UNCHANGED exec
      /\ UNCHANGED <<account, lot, closed, ledger, late, Elsewhere>>
  BY DEF SkipsVirtual, LostClaim, SkipsInFill, WorkerStops
<1>2. worker[w].e \in VExecs
  BY <1>1 DEF WorkerShape
<1>3. ExecTyped' /\ \A f \in VExecs : exec'[f].st \in StillOpen => exec[f].st \in StillOpen
  <2>1. CASE Becomes(worker[w].e, "SKIPPED")
    BY <1>2, <2>1, StatusTyped DEF ExecStatuses
  <2>2. CASE UNCHANGED exec
    BY <2>2 DEF ExecTyped
  <2> QED
    BY <1>1, <2>1, <2>2
<1>4. WorkTyped'
  BY <1>1, RestsTyped
<1>5. FaultsTyped'
  BY VirtualSets DEF SkipsVirtual, LostClaim, SkipsInFill, WorkerStops, FaultsTyped
<1> QED
  BY <1>1, <1>3, <1>4, <1>5, QuietBooks

LEMMA ThrowBooks ==
  ASSUME VirtualInv, BooksInv, NEW w \in VWorkers, WorkerThrows(w) PROVE BooksInv'
<1> USE DEF VirtualInv, VirtualShape, BooksInv, BooksTyped
<1> DEFINE e == worker[w].e
<1>1. worker[w].pc # "idle" /\ Rests(w) /\ UNCHANGED <<account, lot, closed, ledger, late, Elsewhere>>
  BY DEF WorkerThrows
<1>2. e \in VExecs
  BY <1>1 DEF WorkerShape
<1>3. ExecTyped' /\ \A f \in VExecs : exec'[f].st \in StillOpen => exec[f].st \in StillOpen
  <2>1. CASE ~Holds(w)
    BY <2>1 DEF WorkerThrows, ExecTyped
  <2>2. CASE Holds(w)
    <3>1. /\ exec'[e].st = IF exec[e].retry < VRetries THEN "QUEUED" ELSE "DEAD"
          /\ exec'[e].retry = exec[e].retry + 1 /\ exec'[e].target = exec[e].target
          /\ \A f \in VExecs : f # e => exec'[f] = exec[f]
          /\ exec[e].st = "SIMULATING"
      BY <1>2, <2>2 DEF WorkerThrows, ExecShape, Holds
    <3>2. exec[e].retry \in Nat /\ exec[e].retry <= VRetries + 1
      BY <1>2, <3>1 DEF ExecTyped
    <3>3. exec'[e].retry <= IF exec'[e].st \in {"QUEUED", "SIMULATING"} THEN VRetries + 1 ELSE VRetries + 2
      BY <3>1, <3>2, VirtualSets
    <3>4. exec'[e].retry \in Nat /\ exec'[e].st \in {"QUEUED", "DEAD"}
      BY <3>1, <3>2
    <3> QED
      BY <3>1, <3>3, <3>4 DEF ExecTyped, StillOpen, ExecStatuses
  <2> QED
    BY <2>1, <2>2
<1>4. WorkTyped'
  BY <1>1, RestsTyped
<1>5. FaultsTyped'
  BY VirtualSets DEF WorkerThrows, FaultsTyped
<1> QED
  BY <1>1, <1>3, <1>4, <1>5, QuietBooks

LEMMA RecoverBooks ==
  ASSUME VirtualInv, BooksInv, NEW e \in VExecs, RecoverClaim(e) PROVE BooksInv'
<1> USE DEF VirtualInv, VirtualShape, BooksInv, BooksTyped
<1>1. /\ exec'[e].st = "QUEUED" /\ exec'[e].retry = exec[e].retry + 1 /\ exec'[e].target = exec[e].target
      /\ exec[e].st = "SIMULATING" /\ exec[e].retry < VRetries + 1
      /\ \A f \in VExecs : f # e => exec'[f] = exec[f]
  BY DEF RecoverClaim, ExecShape
<1>2. exec[e].retry \in Nat
  BY DEF ExecTyped
<1>3. exec'[e].retry \in Nat /\ exec'[e].retry <= VRetries + 1
  BY <1>1, <1>2, VirtualSets
<1>4. ExecTyped' /\ \A f \in VExecs : exec'[f].st \in StillOpen => exec[f].st \in StillOpen
  BY <1>1, <1>3, VirtualSets DEF ExecTyped, StillOpen, ExecStatuses
<1>5. late' \subseteq VExecs
  <2>1. late \subseteq VExecs
    BY DEF FaultsTyped
  <2> QED
    BY <2>1 DEF RecoverClaim
<1>6. WorkTyped' /\ FaultsTyped'
  BY <1>5, VirtualSets DEF RecoverClaim, WorkTyped, FaultsTyped
<1> QED
  BY <1>4, <1>6, QuietBooks DEF RecoverClaim
-----------------------------------------------------------------------------
(* Steps that move money.                                                  *)

\* The worker of a fill rests and its execution, which was pending, is filled.
LEMMA FilledTyped ==
  ASSUME VirtualInv, BooksInv, NEW w \in VWorkers, worker[w].pc = "fill", Rests(w), Holds(w),
         Becomes(worker[w].e, "FILLED"), UNCHANGED <<throws, late, Elsewhere>>
  PROVE  /\ ExecTyped' /\ WorkTyped' /\ ReconTyped' /\ PlainTyped' /\ FaultsTyped'
         /\ worker[w].e \in VExecs /\ exec[worker[w].e].st = "SIMULATING"
         /\ worker[w].size \in Nat /\ worker[w].size >= 1
         /\ exec'[worker[w].e].st = "FILLED"
         /\ \A f \in VExecs : f # worker[w].e => exec'[f] = exec[f]
<1> USE DEF VirtualInv, VirtualShape, BooksInv, BooksTyped
<1>1. worker[w].e \in VExecs /\ exec[worker[w].e].st = "SIMULATING"
  BY DEF WorkerShape, Holds
<1>2. ExecTyped'
  BY <1>1, StatusTyped DEF ExecStatuses
<1>3. exec'[worker[w].e].st = "FILLED" /\ \A f \in VExecs : f # worker[w].e => exec'[f] = exec[f]
  BY <1>1, StatusMoves
<1>4. WorkTyped'
  BY RestsTyped
<1>5. ReconTyped' /\ PlainTyped' /\ FaultsTyped'
  BY DEF Elsewhere, ReconTyped, PlainTyped, FaultsTyped
<1>6. worker[w].size \in Nat /\ worker[w].size >= 1
  BY VirtualSets DEF WorkTyped
<1> QED
  BY <1>1, <1>2, <1>3, <1>4, <1>5, <1>6

\* Cash and ledger move by the same amount.
LEMMA CashMoves ==
  ASSUME BooksInv, NEW k \in Entries, NEW d \in Int,
         account' = [account EXCEPT !.cash = account.cash + d],
         ledger' = [ledger EXCEPT ![k] = ledger[k] + d]
  PROVE  /\ CashTyped' /\ LedgerTyped' /\ account'.cash = account.cash + d
         /\ account'.cash = LedgerSum' /\ account.cash \in Int /\ account.cash >= 0
<1>1. CashTyped /\ LedgerTyped /\ account.cash = LedgerSum /\ account.cash >= 0
  BY DEF BooksInv, BooksTyped, Books, VirtualConserved
<1>2. LedgerTyped' /\ LedgerSum' = LedgerSum + d
  BY <1>1, LedgerMoves
<1>3. CashTyped' /\ account'.cash = account.cash + d /\ account.cash \in Int
  BY <1>1 DEF CashTyped
<1> QED
  BY <1>1, <1>2, <1>3

LEMMA FillBuyBooks ==
  ASSUME VirtualInv, BooksInv, NEW w \in VWorkers, FillsBuy(w) PROVE BooksInv'
<1> DEFINE e == worker[w].e
           size == worker[w].size
           d == 0 - size
           nth == Cardinality(Opened) + 1
<1>1. /\ worker[w].pc = "fill" /\ Holds(w) /\ Rests(w) /\ Becomes(e, "FILLED")
      /\ e \in VBuys /\ ~(account.cash < size)
      /\ account' = [account EXCEPT !.cash = account.cash - size]
      /\ ledger' = [ledger EXCEPT ![e] = ledger[e] - size]
      /\ lot' = [lot EXCEPT ![e] = [entry |-> size, remaining |-> size, nth |-> nth]]
      /\ UNCHANGED <<closed, throws, late, Elsewhere>>
  BY DEF FillsBuy, BuyRefused
<1>2. /\ ExecTyped' /\ WorkTyped' /\ ReconTyped' /\ PlainTyped' /\ FaultsTyped'
      /\ e \in VExecs /\ exec[e].st = "SIMULATING" /\ size \in Nat /\ size >= 1
      /\ exec'[e].st = "FILLED" /\ \A f \in VExecs : f # e => exec'[f] = exec[f]
  BY <1>1, FilledTyped
<1>3. d \in Int /\ size \in Int
  BY <1>2
<1>4. account.cash \in Int /\ ledger[e] \in Int /\ e \in Entries
  BY <1>2 DEF BooksInv, BooksTyped, CashTyped, LedgerTyped, Entries
<1>5. account.cash - size = account.cash + d /\ ledger[e] - size = ledger[e] + d
  BY <1>3, <1>4
<1>6. /\ account' = [account EXCEPT !.cash = account.cash + d]
      /\ ledger' = [ledger EXCEPT ![e] = ledger[e] + d]
  BY <1>1, <1>5
<1>7. nth \in Nat
  BY VirtualSets, FS_Subset, FS_CardinalityType DEF Opened
<1> HIDE DEF d, size, e, nth
<1>8. /\ CashTyped' /\ LedgerTyped' /\ account'.cash = account.cash + d
      /\ account'.cash = LedgerSum'
  BY <1>3, <1>4, <1>6, CashMoves
<1>9. account'.cash >= 0
  BY <1>1, <1>3, <1>4, <1>5, <1>8
<1>10. /\ lot'[e].entry = size /\ lot'[e].remaining = size /\ \A b \in VBuys : b # e => lot'[b] = lot[b]
       /\ LotTyped'
  BY <1>1, <1>2, <1>3, <1>7 DEF BooksInv, BooksTyped, LotTyped
<1>11. /\ closed[e] = 0 /\ closed' = closed
       /\ \A b \in VBuys : lot[b].remaining >= 0 /\ closed[b] + lot[b].remaining = lot[b].entry
  BY <1>1, <1>2 DEF BooksInv, Books, Unfilled, StillOpen, VirtualConserved
<1>12. \A b \in VBuys : lot'[b].remaining >= 0 /\ closed'[b] + lot'[b].remaining = lot'[b].entry
  <2> SUFFICES ASSUME NEW b \in VBuys
               PROVE  lot'[b].remaining >= 0 /\ closed'[b] + lot'[b].remaining = lot'[b].entry
    OBVIOUS
  <2>1. CASE b = e
    BY <2>1, <1>2, <1>3, <1>10, <1>11
  <2>2. CASE b # e
    BY <2>2, <1>10, <1>11
  <2> QED
    BY <2>1, <2>2
<1>13. Unfilled'
  BY <1>1, <1>2, <1>10, <1>11, VirtualSets DEF Unfilled, StillOpen, BooksInv, Books
<1>14. Unsettled'
  <2>1. e # Settlement /\ resolution' = resolution
    BY <1>1, <1>2, VirtualAssumption DEF Elsewhere
  <2>2. ledger'[Settlement] = ledger[Settlement]
    BY <1>1, <2>1 DEF BooksInv, BooksTyped, LedgerTyped, Entries
  <2> QED
    BY <2>1, <2>2 DEF Unsettled, BooksInv, Books
<1>15. VirtualConserved'
  BY <1>8, <1>9, <1>12 DEF VirtualConserved
<1> QED
  BY <1>2, <1>8, <1>10, <1>13, <1>14, <1>15 DEF BooksInv, BooksTyped, Books

\* A sell closes of each lot no more than remains of it when it is locked, whatever was looked
\* up before, and is paid for what it closes.
LEMMA FillSellBooks ==
  ASSUME VirtualInv, BooksInv, NEW w \in VWorkers, FillsSell(w) PROVE BooksInv'
<1> DEFINE e == worker[w].e
           closes == PlanCloses(worker[w].size)
           proceeds == SumFunctionOnSet(closes, VBuys)
<1>1. /\ worker[w].pc = "fill" /\ Holds(w) /\ Rests(w) /\ Becomes(e, "FILLED") /\ e \notin VBuys
      /\ lot' = [b \in VBuys |-> [lot[b] EXCEPT !.remaining = lot[b].remaining - closes[b]]]
      /\ closed' = [b \in VBuys |-> closed[b] + closes[b]]
      /\ account' = [account EXCEPT !.cash = account.cash + proceeds]
      /\ ledger' = [ledger EXCEPT ![e] = ledger[e] + proceeds]
      /\ UNCHANGED <<throws, late, Elsewhere>>
  BY DEF FillsSell
<1>2. /\ ExecTyped' /\ WorkTyped' /\ ReconTyped' /\ PlainTyped' /\ FaultsTyped'
      /\ e \in VExecs /\ exec[e].st = "SIMULATING" /\ worker[w].size \in Nat
      /\ exec'[e].st = "FILLED" /\ \A f \in VExecs : f # e => exec'[f] = exec[f]
  BY <1>1, FilledTyped
<1>3. LotTyped /\ \A b \in VBuys : lot[b].remaining >= 0 /\ closed[b] + lot[b].remaining = lot[b].entry
  BY DEF BooksInv, BooksTyped, Books, VirtualConserved
<1>4. /\ \A b \in VBuys : closes[b] \in Nat /\ closes[b] <= lot[b].remaining
      /\ proceeds \in Nat
  BY <1>2, <1>3, ClosesAre
<1>5. e \in Entries
  BY <1>2 DEF Entries
<1> HIDE DEF closes, proceeds, e
<1>6. /\ CashTyped' /\ LedgerTyped' /\ account'.cash = account.cash + proceeds
      /\ account'.cash = LedgerSum' /\ account.cash \in Int /\ account.cash >= 0
  <2>1. proceeds \in Int
    BY <1>4
  <2> QED
    BY <1>1, <1>5, <2>1, CashMoves
<1>7. account'.cash >= 0
  BY <1>4, <1>6
<1>8. ASSUME NEW b \in VBuys
      PROVE  /\ lot'[b] \in [entry : Nat, remaining : Int, nth : Nat] /\ closed'[b] \in Nat
             /\ lot'[b].entry = lot[b].entry /\ lot'[b].remaining >= 0
             /\ closed'[b] + lot'[b].remaining = lot'[b].entry
             /\ lot[b].entry = 0 /\ closed[b] = 0 => closed'[b] = 0
  <2>1. /\ lot[b] \in [entry : Nat, remaining : Int, nth : Nat] /\ closed[b] \in Nat
        /\ lot[b].remaining \in Int /\ lot[b].entry \in Nat
    BY <1>3 DEF LotTyped
  <2>2. lot'[b] = [lot[b] EXCEPT !.remaining = lot[b].remaining - closes[b]] /\ closed'[b] = closed[b] + closes[b]
    BY <1>1
  <2>3. lot[b].remaining - closes[b] \in Int
    BY <1>4, <2>1
  <2>4. /\ lot'[b] \in [entry : Nat, remaining : Int, nth : Nat] /\ lot'[b].entry = lot[b].entry
        /\ lot'[b].remaining = lot[b].remaining - closes[b]
    BY <2>1, <2>2, <2>3
  <2>5. /\ closes[b] \in Nat /\ closes[b] <= lot[b].remaining /\ lot[b].remaining >= 0
        /\ closed[b] + lot[b].remaining = lot[b].entry
    BY <1>3, <1>4
  <2>6. closed'[b] = closed[b] + closes[b]
    BY <2>2
  <2>7. /\ closed'[b] \in Nat /\ lot'[b].remaining >= 0
        /\ closed'[b] + lot'[b].remaining = lot[b].entry
        /\ lot[b].entry = 0 /\ closed[b] = 0 => closed'[b] = 0
    <3>1. lot[b].remaining \in Int /\ closed[b] \in Nat /\ closes[b] \in Nat /\ lot[b].entry \in Nat
      BY <2>1, <2>5
    <3>2. lot'[b].remaining = lot[b].remaining - closes[b]
      BY <2>4
    <3> QED
      BY <2>5, <2>6, <3>1, <3>2
  <2> QED
    BY <2>4, <2>7
<1>9. LotTyped'
  BY <1>1, <1>8 DEF LotTyped
<1>10. Unfilled'
  <2> SUFFICES ASSUME NEW c \in VBuys, exec'[c].st \in StillOpen PROVE lot'[c].entry = 0 /\ closed'[c] = 0
    BY DEF Unfilled
  <2>1. c # e /\ exec'[c] = exec[c]
    BY <1>1, <1>2, VirtualSets
  <2>2. lot[c].entry = 0 /\ closed[c] = 0
    BY <2>1 DEF BooksInv, Books, Unfilled
  <2> QED
    BY <2>2, <1>8
<1>11. Unsettled'
  <2>1. e # Settlement /\ resolution' = resolution
    BY <1>1, <1>2, VirtualAssumption DEF Elsewhere
  <2>2. ledger'[Settlement] = ledger[Settlement]
    BY <1>1, <2>1 DEF BooksInv, BooksTyped, LedgerTyped, Entries
  <2> QED
    BY <2>1, <2>2 DEF Unsettled, BooksInv, Books
<1>12. VirtualConserved'
  BY <1>6, <1>7, <1>8 DEF VirtualConserved
<1> QED
  BY <1>2, <1>6, <1>9, <1>10, <1>11, <1>12 DEF BooksInv, BooksTyped, Books

\* The settlement pays at most what remains, and books it once.
LEMMA SettleTokenBooks ==
  ASSUME VirtualInv, BooksInv, SettleVirtualToken PROVE BooksInv'
<1>1. PICK d \in 0 .. Available :
        /\ account' = [account EXCEPT !.cash = account.cash + d]
        /\ ledger' = [ledger EXCEPT ![Settlement] = d]
  BY DEF SettleVirtualToken
<1>2. /\ resolution = "resolved" /\ resolution' = "settled"
      /\ lot' = [b \in VBuys |-> [lot[b] EXCEPT !.remaining = 0]]
      /\ closed' = [b \in VBuys |-> closed[b] + lot[b].remaining]
      /\ UNCHANGED <<due, exec, worker, lifecycle, recon, paused, throws, late>>
  BY DEF SettleVirtualToken
<1>3. d \in Nat
  BY AvailableIs
<1>4. /\ LotTyped /\ Unfilled /\ ledger[Settlement] = 0
      /\ \A c \in VBuys : lot[c].remaining >= 0 /\ closed[c] + lot[c].remaining = lot[c].entry
  BY <1>2 DEF BooksInv, BooksTyped, Books, Unsettled, VirtualConserved
<1>5. ledger' = [ledger EXCEPT ![Settlement] = ledger[Settlement] + d]
  <2>1. ledger[Settlement] + d = d
    BY <1>3, <1>4
  <2>2. ledger' = [ledger EXCEPT ![Settlement] = d]
    BY <1>1
  <2> QED
    BY <2>1, <2>2
<1>6. /\ CashTyped' /\ LedgerTyped' /\ account'.cash = account.cash + d
      /\ account'.cash = LedgerSum' /\ account.cash \in Int /\ account.cash >= 0
  <2>1. d \in Int /\ Settlement \in Entries
    BY <1>3 DEF Entries
  <2> QED
    BY <1>1, <1>5, <2>1, CashMoves
<1>7. account'.cash >= 0
  BY <1>3, <1>6
<1>8. \A b \in VBuys : /\ lot'[b] = [lot[b] EXCEPT !.remaining = 0]
                        /\ closed'[b] = closed[b] + lot[b].remaining
  BY <1>2
<1>9. ASSUME NEW b \in VBuys
       PROVE  /\ lot'[b] \in [entry : Nat, remaining : Int, nth : Nat] /\ closed'[b] \in Nat
              /\ lot'[b].remaining = 0 /\ lot'[b].entry = lot[b].entry
              /\ closed'[b] = closed[b] + lot[b].remaining
              /\ closed'[b] + lot'[b].remaining = lot'[b].entry
  <2>1. /\ lot[b] \in [entry : Nat, remaining : Int, nth : Nat] /\ closed[b] \in Nat
        /\ lot[b].remaining >= 0 /\ closed[b] + lot[b].remaining = lot[b].entry
    BY <1>4 DEF LotTyped
  <2>2. /\ lot'[b] \in [entry : Nat, remaining : Int, nth : Nat]
        /\ lot'[b].remaining = 0 /\ lot'[b].entry = lot[b].entry
    <3>1. lot'[b] = [lot[b] EXCEPT !.remaining = 0]
      BY <1>8
    <3>2. 0 \in Int /\ lot[b] \in [entry : Nat, remaining : Int, nth : Nat]
      BY <2>1
    <3> QED
      BY <3>1, <3>2
  <2>3. lot[b].remaining \in Int /\ lot[b].entry \in Int
    BY <2>1
  <2>4. closed'[b] = closed[b] + lot[b].remaining
    BY <1>8
  <2>5. closed'[b] \in Nat /\ closed'[b] + lot'[b].remaining = lot'[b].entry
    BY <2>1, <2>2, <2>3, <2>4
  <2> QED
    BY <2>2, <2>4, <2>5
<1>10. LotTyped'
  BY <1>2, <1>9 DEF LotTyped
<1>11. Unfilled'
  <2> SUFFICES ASSUME NEW b \in VBuys, exec[b].st \in StillOpen PROVE lot'[b].entry = 0 /\ closed'[b] = 0
    BY <1>2 DEF Unfilled
  <2>1. lot[b].entry = 0 /\ closed[b] = 0
    BY <1>4 DEF Unfilled
  <2>2. closed'[b] = lot[b].entry
    BY <1>4, <1>9
  <2> QED
    BY <2>1, <2>2, <1>9
<1>12. Unsettled' /\ VirtualConserved'
  BY <1>2, <1>6, <1>7, <1>9 DEF Unsettled, VirtualConserved
<1>13. /\ ExecTyped' /\ WorkTyped' /\ ReconTyped' /\ PlainTyped' /\ FaultsTyped'
  BY <1>2 DEF BooksInv, BooksTyped, ExecTyped, WorkTyped, ReconTyped, PlainTyped, FaultsTyped
<1> QED
  BY <1>6, <1>10, <1>11, <1>12, <1>13 DEF BooksInv, BooksTyped, Books

\* The rest of the lifecycle and the reconciliation move no money.
LEMMA LifecycleBooks ==
  ASSUME BooksInv,
         \/ MarketResolves \/ TimeIsUp \/ LifecycleExpires \/ LifecycleReads \/ LifecycleSettles
         \/ ArchiveAccount \/ ReconcileNext
  PROVE  BooksInv'
<1> DEFINE Lifecycles == MarketResolves \/ TimeIsUp \/ LifecycleExpires \/ LifecycleReads \/ LifecycleSettles
                         \/ ArchiveAccount \/ ReconcileNext
<1>1. UNCHANGED <<exec, worker, lot, closed, ledger, late, throws>>
  BY DEF MarketResolves, TimeIsUp, LifecycleExpires, LifecycleReads, LifecycleSettles, ArchiveAccount,
         ReconcileNext, ReconcileReads, ReconcileSums
<1>2. /\ resolution = "settled" => resolution' = "settled"
      /\ PlainTyped'
  BY DEF MarketResolves, TimeIsUp, LifecycleExpires, LifecycleReads, LifecycleSettles, ArchiveAccount,
         ReconcileNext, ReconcileReads, ReconcileSums, BooksInv, BooksTyped, PlainTyped
<1>3. CashTyped' /\ account'.cash = account.cash
  <2>1. CASE MarketResolves \/ TimeIsUp \/ LifecycleReads \/ ReconcileNext
    BY <2>1 DEF MarketResolves, TimeIsUp, LifecycleReads, ReconcileNext, ReconcileReads, ReconcileSums,
                BooksInv, BooksTyped, CashTyped
  <2>2. CASE LifecycleExpires \/ LifecycleSettles \/ ArchiveAccount
    <3>1. CashTyped
      BY DEF BooksInv, BooksTyped
    <3>2. \E st \in {"ACTIVE", "EXPIRED_CLOSING", "SETTLED", "ARCHIVED"} : account' = [account EXCEPT !.st = st]
      BY <2>2, <3>1 DEF LifecycleExpires, LifecycleSettles, ArchiveAccount, CashTyped
    <3> QED
      BY <3>1, <3>2 DEF CashTyped
  <2> QED
    BY <2>1, <2>2
<1>4. ReconTyped'
  <2>1. ReconTyped /\ account.cash \in Int
    BY DEF BooksInv, BooksTyped, CashTyped
  <2>2. CASE MarketResolves \/ TimeIsUp \/ LifecycleExpires \/ LifecycleReads \/ LifecycleSettles \/ ArchiveAccount
    BY <2>1, <2>2 DEF MarketResolves, TimeIsUp, LifecycleExpires, LifecycleReads, LifecycleSettles, ArchiveAccount,
                      ReconTyped
  <2>3. CASE ReconcileReads
    BY <2>1, <2>3 DEF ReconcileReads, ReconTyped
  <2>4. CASE ReconcileSums
    <3>1. recon' = [pc |-> "idle", cash |-> 0] /\ 0 \in Int
      BY <2>4 DEF ReconcileSums
    <3>2. paused' = TRUE \/ paused' = paused
      BY <2>4 DEF ReconcileSums
    <3> QED
      BY <2>1, <3>1, <3>2 DEF ReconTyped
  <2> QED
    BY <2>2, <2>3, <2>4 DEF ReconcileNext
<1>5. ExecTyped' /\ WorkTyped' /\ LotTyped' /\ LedgerTyped' /\ FaultsTyped'
  BY <1>1 DEF BooksInv, BooksTyped, ExecTyped, WorkTyped, LotTyped, LedgerTyped, FaultsTyped
<1>6. Books'
  BY <1>1, <1>2, <1>3, BooksStay DEF BooksInv
<1> QED
  BY <1>2, <1>3, <1>4, <1>5, <1>6 DEF BooksInv, BooksTyped

LEMMA BooksNextInv == VirtualInv /\ BooksInv /\ [VirtualNext]_virtualVars => BooksInv'
<1> SUFFICES ASSUME VirtualInv, BooksInv, [VirtualNext]_virtualVars PROVE BooksInv'
  OBVIOUS
<1>1. CASE VirtualExecNext(VExecs)
  <2>1. ASSUME NEW e \in VExecs, DispatchVirtual(e) \/ ConfirmVirtualClose(e) \/ RecoverClaim(e)
        PROVE  BooksInv'
    BY <2>1, DispatchBooks, ConfirmBooks, RecoverBooks
  <2>2. ASSUME NEW w \in VWorkers, NEW e \in VExecs, ClaimVirtual(w, e)
        PROVE  BooksInv'
    BY <2>2, ClaimBooks
  <2>3. ASSUME NEW w \in VWorkers, SkipsVirtual(w) \/ LostClaim(w) \/ SkipsInFill(w) \/ WorkerStops(w)
        PROVE  BooksInv'
    BY <2>3, EndBooks
  <2>4. ASSUME NEW w \in VWorkers, LooksAtMarket(w) \/ WorkerThrows(w) \/ FillsBuy(w) \/ FillsSell(w)
        PROVE  BooksInv'
    BY <2>4, LookBooks, ThrowBooks, FillBuyBooks, FillSellBooks
  <2> QED
    BY <1>1, <2>1, <2>2, <2>3, <2>4 DEF VirtualExecNext
<1>2. CASE LifecycleNext \/ ReconcileNext
  BY <1>2, SettleTokenBooks, LifecycleBooks DEF LifecycleNext
<1>3. CASE UNCHANGED virtualVars
  <2>1. Books'
    BY <1>3, BooksStay DEF virtualVars, BooksInv
  <2> QED
    BY <1>3, <2>1 DEF virtualVars, BooksInv, BooksTyped, ExecTyped, WorkTyped, LotTyped, LedgerTyped, CashTyped,
                      ReconTyped, PlainTyped, FaultsTyped
<1> QED
  BY <1>1, <1>2, <1>3 DEF VirtualNext

LEMMA BooksInvariant == VirtualSpec => [](VirtualInv /\ BooksInv)
<1>1. VirtualInit => VirtualInv /\ BooksInv
  BY VirtualInitInv, BooksInitInv
<1>2. VirtualInv /\ BooksInv /\ [VirtualNext]_virtualVars => VirtualInv' /\ BooksInv'
  BY VirtualNextInv, BooksNextInv
<1> QED
  BY <1>1, <1>2, PTL DEF VirtualSpec

LEMMA VirtualTypes == BooksInv => VirtualTypeOK
BY BooksGiveTypes DEF BooksInv

\* Every execution, lot and worker of the virtual account keeps its type; in particular an
\* execution is not tried more often than its retries and one recovery allow.
THEOREM VirtualTyped == VirtualSpec => []VirtualTypeOK
BY VirtualTypes, BooksInvariant, PTL

LEMMA BooksPromise == BooksInv => VirtualConserved
BY DEF BooksInv, Books

\* Fills, closes and the settlement conserve money and shares: the cash is what the ledger adds
\* up to and never negative, and what was closed of a lot and what remains make what was bought.
THEOREM MoneyConserved == VirtualSpec => []VirtualConserved
BY BooksPromise, BooksInvariant, PTL

LEMMA LotsPromise == VirtualInv => OpenLotsCanClose
BY DEF VirtualInv

\* Neither the lifecycle sweep nor an archive closes an account over an open lot.
THEOREM LotsCloseable == VirtualSpec => []OpenLotsCanClose
BY LotsPromise, BooksInvariant, PTL

\* Only a skip by id of a worker that lost its claim by being slow takes a fill back.
THEOREM FillsStay == VirtualSpec => FilledStaysFilled
<1>1. ASSUME VirtualInv, [VirtualNext]_virtualVars, NEW e \in VExecs,
             exec[e].st = "FILLED", exec'[e].st # "FILLED"
      PROVE  e \in late
  <2> USE DEF VirtualInv, VirtualShape
  <2>1. exec' # exec
    BY <1>1
  <2>2. ExecShape
    BY <1>1
  <2>3. ASSUME NEW f \in VExecs, DispatchVirtual(f) \/ ConfirmVirtualClose(f) \/ RecoverClaim(f)
        PROVE  FALSE
    <3>1. exec[f].st # "FILLED" /\ exec'[e] = exec[e]
      BY <1>1, <2>2, <2>3 DEF DispatchVirtual, ConfirmVirtualClose, RecoverClaim, ExecShape, Becomes
    <3> QED
      BY <3>1, <1>1
  <2>4. ASSUME NEW w \in VWorkers, NEW f \in VExecs, ClaimVirtual(w, f)
        PROVE  FALSE
    <3>1. exec[f].st # "FILLED" /\ exec'[e] = exec[e]
      BY <1>1, <2>2, <2>4 DEF ClaimVirtual, ExecShape
    <3> QED
      BY <3>1, <1>1
  <2>5. ASSUME NEW w \in VWorkers,
               SkipsVirtual(w) \/ SkipsInFill(w) \/ FillsBuy(w) \/ FillsSell(w) \/ WorkerThrows(w)
        PROVE  e = worker[w].e /\ worker[w].pc # "idle"
    BY <1>1, <2>1, <2>2, <2>5 DEF SkipsVirtual, SkipsInFill, FillsBuy, FillsSell, WorkerThrows, Becomes, ExecShape
  <2>6. ASSUME NEW w \in VWorkers, SkipsInFill(w) \/ FillsBuy(w) \/ FillsSell(w) \/ WorkerThrows(w)
        PROVE  Holds(w)
    BY <2>1, <2>6 DEF SkipsInFill, FillsBuy, FillsSell, WorkerThrows
  <2>7. ASSUME NEW w \in VWorkers, SkipsVirtual(w) PROVE e \in late
    BY <1>1, <2>5, <2>7 DEF LostIsLate, Holds
  <2>8. ASSUME NEW w \in VWorkers, LooksAtMarket(w) \/ LostClaim(w) \/ WorkerStops(w) PROVE FALSE
    BY <2>1, <2>8 DEF LooksAtMarket, LostClaim, WorkerStops
  <2>9. ~(LifecycleNext \/ ReconcileNext \/ UNCHANGED virtualVars)
    BY <2>1 DEF LifecycleNext, MarketResolves, SettleVirtualToken, TimeIsUp, LifecycleExpires, LifecycleReads,
                LifecycleSettles, ArchiveAccount, ReconcileNext, ReconcileReads, ReconcileSums, virtualVars
  <2>10. VirtualExecNext(VExecs)
    BY <1>1, <2>9 DEF VirtualNext
  <2>11. ASSUME NEW w \in VWorkers, SkipsInFill(w) \/ FillsBuy(w) \/ FillsSell(w) \/ WorkerThrows(w)
         PROVE  FALSE
    BY <1>1, <2>5, <2>6, <2>11 DEF Holds
  <2> QED
    BY <2>3, <2>4, <2>7, <2>8, <2>10, <2>11 DEF VirtualExecNext
<1>2. VirtualInv /\ [VirtualNext]_virtualVars
        => [\A e \in VExecs : exec[e].st = "FILLED" /\ exec'[e].st # "FILLED" => e \in late]_virtualVars
  BY <1>1
<1> QED
  BY <1>2, BooksInvariant, PTL DEF VirtualSpec, FilledStaysFilled
=============================================================================

------------------------------- MODULE CopyRisk -------------------------------
(***************************************************************************)
(* The limits a copy order passes before it is placed (riskService.ts and  *)
(* copyRiskDailyNotional.ts) and what its outcome writes back: the daily   *)
(* caps, summed from the rows of the day, the pause after failures in a    *)
(* row, and the cooldown of a market.  Rows of one follower in one market  *)
(* on one day, each of one unit of notional, are worked on side by side:   *)
(* the checks run before the follower's orders are serialised.             *)
(***************************************************************************)
EXTENDS Naturals, FiniteSets

CONSTANTS
  RiskRows,       \* rows of copy orders
  SellRows,       \* those of them that sell
  RobotOf,        \* the subscription of a row
  UserCap,        \* copyDailyNotionalCapUsd
  RobotCap,       \* dailyTotalCapUsd of a subscription
  MaxFails,       \* pauseAfterConsecutiveFails
  MaxTries        \* bound: attempts of a row

ASSUME RiskAssumption ==
  /\ SellRows \subseteq RiskRows /\ IsFiniteSet(RiskRows)
  /\ {UserCap, RobotCap, MaxFails} \subseteq Nat /\ MaxTries \in Nat \ {0}

VARIABLES
  riskRow,      \* status of a row: "queued", "submitting", "filled", ...
  riskAt,       \* what the worker of a row does next
  tries,        \* attempts of a row so far
  seenCount,    \* the count of failures, or the lapsed pause, a worker has read
  failCount,    \* failStreakCount of a subscription
  pause,        \* pausedUntil of a subscription: "none", "on" or "past"
  cooldown,     \* the row of CopyMarketCooldown: "none", "on" or "past"
  overtaken,      \* the rows past their caps when another row was filled
  under         \* the rows under way when a subscription was paused last

riskVars == <<riskRow, riskAt, tries, seenCount, failCount, pause, cooldown,
              overtaken, under>>

Robots == {RobotOf[b] : b \in RiskRows}

RiskInit ==
  /\ riskRow = [b \in RiskRows |-> "queued"]
  /\ riskAt = [b \in RiskRows |-> "idle"]
  /\ tries = [b \in RiskRows |-> 0]
  /\ seenCount = [b \in RiskRows |-> 0]
  /\ failCount = [s \in Robots |-> 0]
  /\ pause = [s \in Robots |-> "none"]
  /\ cooldown = [s \in Robots |-> "none"]
  /\ overtaken = {}
  /\ under = [s \in Robots |-> {}]

RiskGoes(b, from, to) == riskAt[b] = from /\ riskAt' = [riskAt EXCEPT ![b] = to]

SetRow(b, status) == riskRow' = [riskRow EXCEPT ![b] = status]

\* The row is skipped with a reason and its worker ends.
SkipsRisk(b) == SetRow(b, "skipped") /\ riskAt' = [riskAt EXCEPT ![b] = "idle"]

NoWrites == UNCHANGED <<failCount, pause, cooldown, under>>
-----------------------------------------------------------------------------
\* A worker claims a row.  A sell is placed with no further check.
ClaimsRow(b) ==
  /\ riskRow[b] = "queued" /\ SetRow(b, "submitting")
  /\ RiskGoes(b, "idle", IF b \in SellRows THEN "place" ELSE "streak")
  /\ UNCHANGED <<tries, seenCount, overtaken>> /\ NoWrites

\* checkFailStreak reads the subscription; a pause that is over is cleared
\* with its count, in a statement of its own.
ReadsStreak(b) ==
  /\ RiskGoes(b, "streak", IF pause[RobotOf[b]] = "past" THEN "unpause" ELSE "paused")
  /\ UNCHANGED <<riskRow, tries, seenCount, overtaken>> /\ NoWrites

ClearExpiredPause(b) ==
  LET s == RobotOf[b]
  IN  /\ RiskGoes(b, "unpause", "paused")
      /\ pause' = [pause EXCEPT ![s] = "none"]
      /\ failCount' = [failCount EXCEPT ![s] = 0]
      /\ UNCHANGED <<riskRow, tries, seenCount, cooldown, overtaken, under>>

\* A plausible bug: the pause is read and not heeded.
HeedsNoPause(b) ==
  /\ RiskGoes(b, "paused", "cooldown")
  /\ UNCHANGED <<riskRow, tries, seenCount, overtaken>> /\ NoWrites

\* It reads the subscription again and skips a row while it is paused.
GetFailStreakState(b) ==
  /\ IF pause[RobotOf[b]] = "on"
     THEN riskAt[b] = "paused" /\ SkipsRisk(b)
     ELSE RiskGoes(b, "paused", "cooldown") /\ UNCHANGED riskRow
  /\ UNCHANGED <<tries, seenCount, overtaken>> /\ NoWrites

\* A cooldown that is over is deleted.
GetMarketCooldownState(b) ==
  LET s == RobotOf[b]
  IN  /\ IF cooldown[s] = "on"
         THEN /\ riskAt[b] = "cooldown" /\ SkipsRisk(b)
              /\ UNCHANGED cooldown
         ELSE /\ RiskGoes(b, "cooldown", "caps")
              /\ cooldown' = [cooldown EXCEPT ![s] = "none"]
              /\ UNCHANGED riskRow
      /\ UNCHANGED <<tries, seenCount, failCount, pause, overtaken, under>>

\* The day's notional of some rows: the submitted and the filled ones, buys
\* and sells.
DailyNotional(rows) ==
  Cardinality({b \in rows : riskRow[b] \in {"submitted", "filled"}})

\* A plausible bug: the order itself is left out of the sum.
CapReached(rows, cap) == DailyNotional(rows) > cap

WouldExceedCap(rows, cap) == DailyNotional(rows) + 1 > cap

\* The sums of the subscription and of the user, nothing of which is reserved.
ChecksCaps(b) ==
  LET mine == {c \in RiskRows : RobotOf[c] = RobotOf[b]}
  IN  /\ IF WouldExceedCap(mine, RobotCap) \/ WouldExceedCap(RiskRows, UserCap)
         THEN riskAt[b] = "caps" /\ SkipsRisk(b)
         ELSE RiskGoes(b, "caps", "place") /\ UNCHANGED riskRow
      /\ overtaken' = overtaken \ {b}
      /\ UNCHANGED <<tries, seenCount>> /\ NoWrites
-----------------------------------------------------------------------------
\* The order is filled, and the row with it.
OrderFilled(b) ==
  /\ RiskGoes(b, "place", "clear")
  /\ SetRow(b, "filled")
  /\ overtaken' = overtaken \union {c \in RiskRows : c # b /\ riskAt[c] = "place"}
  /\ UNCHANGED <<tries, seenCount>> /\ NoWrites

\* Nothing is matched: a buy is skipped, a sell fails and does not count.
OrderUnfilled(b) ==
  /\ RiskGoes(b, "place", "idle")
  /\ \/ b \notin SellRows /\ SetRow(b, "skipped") /\ UNCHANGED tries
     \/ b \in SellRows /\ SetRow(b, "failed") /\ tries' = [tries EXCEPT ![b] = @ + 1]
  /\ UNCHANGED <<seenCount, overtaken>> /\ NoWrites

\* A success ends the streak, and a pause with it, even one a sell finds.
ClearFailureStreak(b) ==
  LET s == RobotOf[b]
  IN  /\ RiskGoes(b, "clear", "arm")
      /\ failCount' = [failCount EXCEPT ![s] = 0]
      /\ pause' = [pause EXCEPT ![s] = "none"]
      /\ UNCHANGED <<riskRow, tries, seenCount, cooldown, overtaken, under>>

ArmMarketCooldown(b) ==
  /\ RiskGoes(b, "arm", "idle")
  /\ cooldown' = [cooldown EXCEPT ![RobotOf[b]] = "on"]
  /\ UNCHANGED <<riskRow, tries, seenCount, failCount, pause, overtaken, under>>

\* The order fails; the row fails, or is dead when the error is final or the
\* attempt was the last.
OrderFails(b) ==
  /\ RiskGoes(b, "place", "count")
  /\ tries' = [tries EXCEPT ![b] = @ + 1]
  /\ \/ SetRow(b, "dead")
     \/ tries[b] + 1 < MaxTries /\ SetRow(b, "failed")
  /\ UNCHANGED <<seenCount, overtaken>> /\ NoWrites

\* recordFailure reads the count, then the threshold, and writes the sum.
ReadsFailures(b) ==
  /\ RiskGoes(b, "count", "write")
  /\ seenCount' = [seenCount EXCEPT ![b] = failCount[RobotOf[b]]]
  /\ UNCHANGED <<riskRow, tries, overtaken>> /\ NoWrites

RecordFailure(b) ==
  LET s == RobotOf[b]
      n == seenCount[b] + 1
  IN  /\ RiskGoes(b, "write", "idle")
      /\ failCount' = [failCount EXCEPT ![s] = n]
      /\ IF n >= MaxFails
         THEN /\ pause' = [pause EXCEPT ![s] = "on"]
              /\ under' = [under EXCEPT ![s] =
                   {c \in RiskRows \ {b} : RobotOf[c] = s /\ riskAt[c] # "idle"}]
         ELSE UNCHANGED <<pause, under>>
      /\ UNCHANGED <<riskRow, tries, seenCount, cooldown, overtaken>>

\* The retry sweep queues a failed row again.
RetriesRow(b) ==
  /\ riskRow[b] = "failed" /\ riskAt[b] = "idle" /\ tries[b] < MaxTries
  /\ SetRow(b, "queued")
  /\ UNCHANGED <<riskAt, tries, seenCount, overtaken>> /\ NoWrites

\* Time passes: a pause or a cooldown is over.
PauseEnds(s) ==
  /\ pause[s] = "on" /\ pause' = [pause EXCEPT ![s] = "past"]
  /\ UNCHANGED <<riskRow, riskAt, tries, seenCount, failCount, cooldown, overtaken, under>>

CooldownEnds(s) ==
  /\ cooldown[s] = "on" /\ cooldown' = [cooldown EXCEPT ![s] = "past"]
  /\ UNCHANGED <<riskRow, riskAt, tries, seenCount, failCount, pause, overtaken, under>>

\* The steps of some of the rows.
RiskNextOf(rows) ==
  \/ \E b \in rows :
       \/ ClaimsRow(b) \/ ReadsStreak(b) \/ ClearExpiredPause(b)
       \/ GetFailStreakState(b) \/ GetMarketCooldownState(b) \/ ChecksCaps(b)
       \/ OrderFilled(b) \/ OrderUnfilled(b) \/ OrderFails(b)
       \/ ClearFailureStreak(b) \/ ArmMarketCooldown(b)
       \/ ReadsFailures(b) \/ RecordFailure(b) \/ RetriesRow(b)
  \/ \E s \in Robots : PauseEnds(s) \/ CooldownEnds(s)

RiskNext == RiskNextOf(RiskRows)

RiskSpec == RiskInit /\ [][RiskNext]_riskVars
-----------------------------------------------------------------------------
RiskTypeOK ==
  /\ riskRow \in [RiskRows -> {"queued", "submitting", "filled", "skipped", "failed", "dead"}]
  /\ \A b \in RiskRows : (riskAt[b] = "idle") => riskRow[b] # "submitting"
  /\ tries \in [RiskRows -> 0 .. MaxTries]
  /\ failCount \in [Robots -> Nat]
  /\ pause \in [Robots -> {"none", "on", "past"}]
  /\ cooldown \in [Robots -> {"none", "on", "past"}]
  /\ overtaken \subseteq RiskRows
  /\ under \in [Robots -> SUBSET RiskRows]

\* A buy brings the day's notional above a cap only if another row was filled
\* between its check and its own fill: the caps hold for orders one after the
\* other, whatever fails, is retried or sold between them.
CapExceededNeedsOverlap ==
  [][\A b \in RiskRows \ SellRows :
       (riskRow[b] # "filled" /\ riskRow'[b] = "filled" /\ b \notin overtaken) =>
         /\ DailyNotional(RiskRows)' <= UserCap
         /\ DailyNotional({c \in RiskRows : RobotOf[c] = RobotOf[b]})' <= RobotCap
    ]_riskVars

\* A pause that is not over is lifted only by a row that was under way when it
\* began, or by a sell.
PauseLiftedByLateRow ==
  [][\A s \in Robots :
       (pause[s] = "on" /\ pause'[s] = "none") =>
         \E b \in under[s] \union SellRows : RobotOf[b] = s /\ riskAt'[b] # riskAt[b]
    ]_riskVars
=============================================================================

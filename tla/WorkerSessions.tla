--------------------------- MODULE WorkerSessions ---------------------------
(***************************************************************************)
(* The two subscribers of the copy worker: robot control                   *)
(* (robotControlSubscriber.ts) and leader trades                           *)
(* (copyTradingNatsSubscriber.ts) with its bounded queue of dispatches.    *)
(* Each loops over sessions for ever, but both draw their connection from  *)
(* one promise of the process (natsRobotControlClient.ts), which either    *)
(* may reset and the first may close.  Beside them run the replay and the  *)
(* sweep on timers (copyDispatchLoops.ts) and, once, the shutdown of       *)
(* copyWorker.ts.  The delay before a reconnect is a step that takes time. *)
(***************************************************************************)
EXTENDS Integers, FiniteSets

CONSTANTS
  Links,          \* connections the process can have a use for at once
  NoLink,         \* no connection
  QueueWorkers,   \* CONFIG.copyDispatchWorkerConcurrency
  QueueLimit      \* CONFIG.copyDispatchWorkerQueueMax

\* There is a link beside any three in use: connect() never runs out of connections.
ASSUME LinksAssumption ==
  /\ IsFiniteSet(Links) /\ NoLink \notin Links
  /\ \A a, b, c \in Links \cup {NoLink} : \E l \in Links : l \notin {a, b, c}
ASSUME DispatchQueueAssumption == QueueWorkers \in Nat \ {0} /\ QueueLimit \in Nat \ {0}

VARIABLES
  server,         \* the NATS server can be reached
  link,           \* link[l]: "free", "connecting", "open", "failed", "draining", "closed"
  promise,        \* connPromise: a link or NoLink
  closing,        \* the link closeRobotControlNats is at work on
  robots,         \* the robot control loop: [pc, link]
  trading,        \* the leader trade loop: [pc, link]
  pending, inFlight,      \* LocalDispatchQueue: pending and inFlight
  loops,          \* loops[x]: "off", "timer", "runs" or "ended", of the replay and the sweep
  shutdown,       \* "no", then the call shutdown() awaits, then "exited"
  robotsStop, tradingStop,      \* subscriberStopping of each subscriber
  subscribedLate  \* history: trading subscribed after it was told to stop

sessionVars == <<server, link, promise, closing, robots, trading, pending, inFlight,
                 loops, shutdown, robotsStop, tradingStop, subscribedLate>>
LinkVars == <<link, promise, closing>>
QueueVars == <<pending, inFlight>>
StopVars == <<loops, shutdown, robotsStop, tradingStop>>

Loops == {"replay", "sweep"}

\* getRobotControlNatsConnection with this promise: its connection, or a new
\* one, for which a link stands that nobody refers to.
Drawn(p) ==
  IF p # NoLink THEN p
  ELSE CHOOSE l \in Links : l \notin {closing, robots.link, trading.link}

Draws(p) ==
  /\ promise' = Drawn(p)
  /\ link' = IF p # NoLink THEN link ELSE [link EXCEPT ![Drawn(p)] = "connecting"]

SessionInit ==
  /\ server \in BOOLEAN
  /\ link = [l \in Links |-> "free"]
  /\ promise = NoLink /\ closing = NoLink
  /\ robots = [pc |-> "off", link |-> NoLink]
  /\ trading = [pc |-> "off", link |-> NoLink]
  /\ pending = 0 /\ inFlight = 0
  /\ loops = [x \in Loops |-> "off"]
  /\ shutdown = "no" /\ robotsStop = FALSE /\ tradingStop = FALSE
  /\ subscribedLate = FALSE
-----------------------------------------------------------------------------
(* Connections *)

ServerGoes == server /\ server' = FALSE /\
  UNCHANGED <<LinkVars, robots, trading, QueueVars, StopVars, subscribedLate>>

ServerReturns == ~server /\ server' = TRUE /\
  UNCHANGED <<LinkVars, robots, trading, QueueVars, StopVars, subscribedLate>>

\* connect() is answered.
Connects(l) ==
  /\ link[l] = "connecting"
  /\ link' = [link EXCEPT ![l] = IF server THEN "open" ELSE "failed"]
  /\ UNCHANGED <<server, promise, closing, robots, trading, QueueVars, StopVars,
                 subscribedLate>>

\* The client gives up reconnecting, or has drained.
LinkCloses(l) ==
  /\ link[l] = "draining" \/ (link[l] = "open" /\ ~server)
  /\ link' = [link EXCEPT ![l] = "closed"]
  /\ UNCHANGED <<server, promise, closing, robots, trading, QueueVars, StopVars,
                 subscribedLate>>

\* Anything in the worker that publishes draws a connection too.
WorkerPublishes ==
  /\ robots.pc # "off" /\ promise = NoLink /\ Draws(promise)
  /\ UNCHANGED <<server, closing, robots, trading, QueueVars, StopVars, subscribedLate>>

\* closeRobotControlNats awaits the connection it found, forgets the promise
\* and drains ...
CloseDrains ==
  /\ closing # NoLink /\ link[closing] = "open"
  /\ link' = [link EXCEPT ![closing] = "draining"] /\ promise' = NoLink
  /\ UNCHANGED <<server, closing, robots, trading, QueueVars, StopVars, subscribedLate>>

\* ... and forgets, when that is over, whatever promise there is by then.
CloseEnds ==
  /\ closing # NoLink /\ link[closing] \in {"closed", "failed"}
  /\ closing' = NoLink /\ promise' = NoLink
  /\ UNCHANGED <<server, link, robots, trading, QueueVars, StopVars, subscribedLate>>
-----------------------------------------------------------------------------
(* runRobotControlResilientLoop *)

RobotsStep(pc, l) == robots' = [pc |-> pc, link |-> l]

\* Each round forgets the promise and connects anew.
RobotsConnect ==
  /\ robots.pc = "start"
  /\ IF robotsStop THEN RobotsStep("ended", NoLink) /\ UNCHANGED LinkVars
     ELSE Draws(NoLink) /\ RobotsStep("connect", Drawn(NoLink)) /\ UNCHANGED closing
  /\ UNCHANGED <<server, trading, QueueVars, StopVars, subscribedLate>>

RobotsSubscribe ==
  /\ robots.pc = "connect" /\ link[robots.link] # "connecting"
  /\ IF link[robots.link] = "open" THEN RobotsStep("consume", robots.link)
     ELSE RobotsStep(IF robotsStop THEN "ended" ELSE "close", NoLink)
  /\ UNCHANGED <<server, LinkVars, trading, QueueVars, StopVars, subscribedLate>>

RobotsSessionEnds ==
  /\ robots.pc = "consume"
  /\ robotsStop \/ link[robots.link] \in {"draining", "closed"}
  /\ RobotsStep(IF robotsStop THEN "ended" ELSE "close", NoLink)
  /\ UNCHANGED <<server, LinkVars, trading, QueueVars, StopVars, subscribedLate>>

\* A session that is over closes the connection of the process, which may by
\* now be one that the other subscriber has just opened.
RobotsClose ==
  /\ robots.pc = "close" /\ RobotsStep("closing", NoLink)
  /\ closing' = IF closing = NoLink THEN promise ELSE closing
  /\ UNCHANGED <<server, link, promise, trading, QueueVars, StopVars, subscribedLate>>

\* The close is over, and then the delay before the next round.
RobotsSleep ==
  /\ robots.pc = "closing" /\ closing = NoLink /\ RobotsStep("sleep", NoLink)
  /\ UNCHANGED <<server, LinkVars, trading, QueueVars, StopVars, subscribedLate>>

RobotsWake ==
  /\ robots.pc = "sleep" /\ RobotsStep("start", NoLink)
  /\ UNCHANGED <<server, LinkVars, trading, QueueVars, StopVars, subscribedLate>>
-----------------------------------------------------------------------------
(* runCopyTradingNatsResilientLoop and its queue *)

TradingStep(pc, l) == trading' = [pc |-> pc, link |-> l]
TradingOver == TradingStep(IF tradingStop THEN "ended" ELSE "sleep", NoLink)

TradingConnect ==
  /\ trading.pc = "start"
  /\ IF tradingStop THEN TradingOver /\ UNCHANGED LinkVars
     ELSE Draws(promise) /\ TradingStep("connect", Drawn(promise)) /\ UNCHANGED closing
  /\ UNCHANGED <<server, robots, QueueVars, StopVars, subscribedLate>>

\* The session subscribes without a look at subscriberStopping; when the
\* connection cannot be used, the loop forgets the promise.
TradingSubscribe ==
  /\ trading.pc = "connect" /\ link[trading.link] # "connecting"
  /\ IF link[trading.link] = "open"
     THEN /\ TradingStep("consume", trading.link)
          /\ subscribedLate' = (subscribedLate \/ tradingStop)
          /\ UNCHANGED promise
     ELSE /\ TradingOver /\ UNCHANGED subscribedLate
          /\ promise' = IF tradingStop THEN promise ELSE NoLink
  /\ UNCHANGED <<server, link, closing, robots, QueueVars, StopVars>>

\* Mutant: one message too many.
AcceptsOneMore == pending + inFlight <= QueueLimit

\* LocalDispatchQueue.enqueue takes another task.
Accepts == pending + inFlight < QueueLimit

\* A message runs at once when a worker is free, or is queued; a full queue
\* drops it.  When the subscriber stops, it ends the session.
TradingMessage ==
  /\ trading.pc = "consume" /\ server /\ link[trading.link] = "open"
  /\ IF tradingStop THEN TradingStep("idle", trading.link) /\ UNCHANGED QueueVars
     ELSE /\ Accepts /\ UNCHANGED trading
          /\ IF inFlight < QueueWorkers THEN inFlight' = inFlight + 1 /\ UNCHANGED pending
             ELSE pending' = pending + 1 /\ UNCHANGED inFlight
  /\ UNCHANGED <<server, LinkVars, robots, StopVars, subscribedLate>>

\* pump: a dispatch ends, or a task of an aborted session returns, and the
\* next one starts.
TaskEnds ==
  /\ inFlight > 0
  /\ IF pending > 0 THEN pending' = pending - 1 /\ UNCHANGED inFlight
     ELSE inFlight' = inFlight - 1 /\ UNCHANGED pending
  /\ UNCHANGED <<server, LinkVars, robots, trading, StopVars, subscribedLate>>

\* Mutant: the stop does not unsubscribe.
TradingEndsWithLink ==
  /\ trading.pc = "consume"
  /\ link[trading.link] \in {"draining", "closed"}
  /\ TradingStep("idle", trading.link)
  /\ UNCHANGED <<server, LinkVars, robots, QueueVars, StopVars, subscribedLate>>

\* The connection ended, or stopCopyTradingNatsSubscriber has unsubscribed
\* what was subscribed when it was called.
TradingSessionEnds ==
  /\ trading.pc = "consume"
  /\ \/ link[trading.link] \in {"draining", "closed"}
     \/ tradingStop /\ ~subscribedLate
  /\ TradingStep("idle", trading.link)
  /\ UNCHANGED <<server, LinkVars, robots, QueueVars, StopVars, subscribedLate>>

\* Mutant: a session that ends without an error ends the loop.
TradingLoopLeft ==
  /\ trading.pc = "idle" /\ pending = 0 /\ inFlight = 0
  /\ TradingStep("ended", NoLink)
  /\ UNCHANGED <<server, LinkVars, robots, QueueVars, StopVars, subscribedLate>>

\* waitForIdle
TradingIdle ==
  /\ trading.pc = "idle" /\ pending = 0 /\ inFlight = 0
  /\ TradingOver
  /\ UNCHANGED <<server, LinkVars, robots, QueueVars, StopVars, subscribedLate>>

TradingWake ==
  /\ trading.pc = "sleep" /\ TradingStep("start", NoLink)
  /\ UNCHANGED <<server, LinkVars, robots, QueueVars, StopVars, subscribedLate>>
-----------------------------------------------------------------------------
(* main of copyWorker.ts: the start and the shutdown *)

\* startRobotControlSubscriber, startCopyTradingNatsSubscriber and
\* startCopyDispatchLoops, which replays at once.
WorkerStarts ==
  /\ robots.pc = "off"
  /\ robots' = [robots EXCEPT !.pc = "start"] /\ trading' = [trading EXCEPT !.pc = "start"]
  /\ loops' = [x \in Loops |-> IF x = "replay" THEN "runs" ELSE "timer"]
  /\ UNCHANGED <<server, LinkVars, QueueVars, shutdown, robotsStop, tradingStop,
                 subscribedLate>>

LoopRuns(x) ==
  /\ loops[x] = "timer" /\ loops' = [loops EXCEPT ![x] = "runs"]
  /\ UNCHANGED <<server, LinkVars, robots, trading, QueueVars, shutdown, robotsStop,
                 tradingStop, subscribedLate>>

LoopEnds(x) ==
  /\ loops[x] = "runs"
  /\ loops' = [loops EXCEPT ![x] = IF shutdown = "no" THEN "timer" ELSE "ended"]
  /\ UNCHANGED <<server, LinkVars, robots, trading, QueueVars, shutdown, robotsStop,
                 tradingStop, subscribedLate>>

ShutdownBegins ==
  /\ robots.pc # "off" /\ shutdown = "no" /\ shutdown' = "loops"
  /\ loops' = [x \in Loops |-> IF loops[x] = "timer" THEN "ended" ELSE loops[x]]
  /\ UNCHANGED <<server, LinkVars, robots, trading, QueueVars, robotsStop, tradingStop,
                 subscribedLate>>

\* The loops have stopped: stopCopyTradingNatsSubscriber.
ShutdownTrading ==
  /\ shutdown = "loops" /\ \A x \in Loops : loops[x] = "ended"
  /\ shutdown' = "trading" /\ tradingStop' = TRUE
  /\ UNCHANGED <<server, LinkVars, robots, trading, QueueVars, loops, robotsStop,
                 subscribedLate>>

\* Its loop has ended: stopRobotControlSubscriber, which closes the connection.
ShutdownRobots ==
  /\ shutdown = "trading" /\ trading.pc = "ended"
  /\ shutdown' = "robots" /\ robotsStop' = TRUE
  /\ closing' = IF closing = NoLink THEN promise ELSE closing
  /\ UNCHANGED <<server, link, promise, robots, trading, QueueVars, loops, tradingStop,
                 subscribedLate>>

ShutdownExits ==
  /\ shutdown = "robots" /\ closing = NoLink
  /\ shutdown' = "exited"
  /\ UNCHANGED <<server, LinkVars, robots, trading, QueueVars, loops, robotsStop,
                 tradingStop, subscribedLate>>
-----------------------------------------------------------------------------
LinkSteps == CloseDrains \/ CloseEnds \/ \E l \in Links : Connects(l)
DrainEnds == \E l \in Links : link[l] = "draining" /\ LinkCloses(l)
RobotsSteps == RobotsConnect \/ RobotsSubscribe \/ RobotsSessionEnds \/ RobotsClose
               \/ RobotsSleep \/ RobotsWake
TradingSteps == TradingConnect \/ TradingSubscribe \/ TradingSessionEnds \/ TradingIdle
                \/ TradingWake
ShutdownSteps == ShutdownTrading \/ ShutdownRobots \/ ShutdownExits

SessionNext ==
  /\ shutdown # "exited"
  /\ \/ WorkerStarts \/ ServerGoes \/ ServerReturns \/ WorkerPublishes
     \/ ShutdownBegins \/ TradingMessage
     \/ LinkSteps \/ \E l \in Links : LinkCloses(l)
     \/ RobotsSteps \/ TradingSteps \/ TaskEnds \/ ShutdownSteps
     \/ \E x \in Loops : LoopRuns(x) \/ LoopEnds(x)

\* The event loop goes on with what is due, connections are answered, delays
\* and dispatches end.  Nothing is assumed of the server and of messages.
SessionsGoOn(A) == shutdown # "exited" /\ A

SessionFairness ==
  /\ WF_sessionVars(SessionsGoOn(CloseDrains \/ CloseEnds))
  /\ \A l \in Links : WF_sessionVars(SessionsGoOn(Connects(l)))
  /\ WF_sessionVars(SessionsGoOn(DrainEnds))
  /\ WF_sessionVars(SessionsGoOn(RobotsSteps))
  /\ WF_sessionVars(SessionsGoOn(TradingSteps))
  /\ WF_sessionVars(SessionsGoOn(TaskEnds))
  /\ \A x \in Loops : WF_sessionVars(SessionsGoOn(LoopEnds(x)))
  /\ WF_sessionVars(SessionsGoOn(ShutdownSteps))

SessionSpec == SessionInit /\ [][SessionNext]_sessionVars /\ SessionFairness
-----------------------------------------------------------------------------
\* Types of the connections, the loops and the queue, and its limit.
SessionTypeOK ==
  /\ {server, robotsStop, tradingStop, subscribedLate} \subseteq BOOLEAN
  /\ link \in [Links -> {"free", "connecting", "open", "failed", "draining", "closed"}]
  /\ {promise, closing, robots.link, trading.link} \subseteq Links \cup {NoLink}
  /\ robots.pc \in {"off", "start", "connect", "consume", "close", "closing", "sleep", "ended"}
  /\ trading.pc \in {"off", "start", "connect", "consume", "idle", "sleep", "ended"}
  /\ {pending, inFlight} \subseteq Nat
  /\ pending + inFlight <= QueueLimit /\ inFlight <= QueueWorkers
  /\ loops \in [Loops -> {"off", "timer", "runs", "ended"}]
  /\ shutdown \in {"no", "loops", "trading", "robots", "exited"}

\* Both subscribers of a worker that runs are subscribed again, and stay so, once the server stays
\* reachable, although each takes the connection of the other away: the robot
\* loop closes or forgets it, the trading loop forgets it.
SubscribersReturn ==
  <>[](server /\ shutdown = "no" /\ robots.pc # "off")
    => <>[](robots.pc = "consume" /\ trading.pc = "consume")

\* A shutdown that began ends, with whatever runs, waits or connects by then,
\* unless the stop found trading between its connection and its subscription:
\* the session then awaits a message that nobody has to send.
ShutdownEnds == (shutdown # "no") ~> (shutdown = "exited" \/ subscribedLate)
=============================================================================

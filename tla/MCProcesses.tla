---------------------------- MODULE MCProcesses ----------------------------
(***************************************************************************)
(* The processes and what they keep in memory, in one run: the index of    *)
(* robots, the sessions with NATS of the copy worker, the scheduled jobs   *)
(* and the analyses of the API, and the lanes of the smart money board.    *)
(* They share no state in these models: a behaviour chooses a part at the  *)
(* start, and the rest stands still.                                       *)
(***************************************************************************)
EXTENDS RobotRuntime, WorkerSessions, AnalyzeQueue, AddressPipeline

CONSTANTS o1, o2

\* What the parts name: two processes, a pass, a run and an address.
ASSUME ProcessesAssumption ==
  {o1, o2} \subseteq Owners /\ 1 \in Passes /\ "interval" \in CronRuns /\ "a1" \in Wallets

VARIABLE part

processVars == <<robotVars, sessionVars, queueVars, pipelineVars, part>>

Parts == {"robots", "sessions", "scheduled jobs", "two passes", "busy leaderboard",
          "two processes", "two calls", "restarts", "any address", "two lanes"}

\* One lane begins with any address, two with a row that was scored and copied.
Usual(s) ==
  /\ s \in {"RAW", "SCORED", "COPY_POOL", "ELIMINATED"} /\ ~deepClass
  /\ board = [row |-> TRUE, on |-> s = "COPY_POOL", pending |-> FALSE, copied |-> "ok",
              score |-> "enter", hard |-> "no", due |-> FALSE]

ProcessesInit ==
  /\ part \in Parts
  /\ RobotInit /\ SessionInit /\ QueueInit
  /\ part = "robots" \/ robotOn = {}
  /\ part = "sessions" \/ server
  /\ PipelineInit
  /\ CASE part = "any address" -> TRUE
       [] part = "two lanes" -> Usual(stage)
       [] OTHER -> stage = "RAW" /\ Usual("RAW")

\* One process, with two passes or beside the leaderboard job; or two, whose
\* lease lapses while one of them creates jobs, which both create, or which
\* stop, die and fail to start.
QueuePart ==
  \/ part = "scheduled jobs" /\ CronNext /\ UNCHANGED queueOnlyVars
  \/ /\ \/ part = "two passes" /\ QueueNextOf({o1}, Passes, {}, Wallets) /\ UNCHANGED <<lost, unstarted>>
        \/ part = "busy leaderboard" /\ QueueNextOf({o1}, {1}, {"interval"}, {"a1"}) /\ UNCHANGED unstarted
        \/ /\ part = "two processes" /\ QueueNextOf({o1, o2}, {1}, {}, {"a1"})
           /\ asking'[o2] = NoWallet /\ UNCHANGED unstarted
        \/ part = "two calls" /\ QueueNextOf({o1, o2}, {1}, {}, {"a1"}) /\ UNCHANGED <<lost, unstarted>>
     /\ procUp'[o1] \in {"new", "up"} /\ procUp'[o2] \in {"new", "up"}
  \/ part = "restarts" /\ QueueNextOf({o1, o2}, {1}, {}, {"a1"}) /\ asks' <= 1

AddressPart ==
  \/ part = "any address" /\ PipelineNext /\ runs' <= 1
  \/ part = "two lanes" /\ PipelineNext

ProcessesNext ==
  \/ part = "robots" /\ RobotNext /\ outages' + hits' <= 1
     /\ UNCHANGED <<sessionVars, queueVars, pipelineVars, part>>
  \/ part = "sessions" /\ SessionNext /\ UNCHANGED <<robotVars, queueVars, pipelineVars, part>>
  \/ QueuePart /\ UNCHANGED <<robotVars, sessionVars, pipelineVars, part>>
  \/ AddressPart /\ UNCHANGED <<robotVars, sessionVars, queueVars, part>>

\* SessionFairness, QueueFairness and PipelineFairness within the parts they are about.
SessionsStep(A) == part = "sessions" /\ SessionsGoOn(A)

AddressStep(A) == part \in {"any address", "two lanes"} /\ A

QueueSteps(o) ==
  \/ part = "two passes" /\ o = o1 /\ QueueGoesOn(o, Passes)
  \/ part \in {"two processes", "two calls", "restarts"} /\ QueueGoesOn(o, {1})
  \/ part = "busy leaderboard" /\ o = o1 /\ QueueGoesOn(o, {1})

ProcessesFairness ==
  /\ WF_sessionVars(SessionsStep(CloseDrains \/ CloseEnds))
  /\ \A l \in Links : WF_sessionVars(SessionsStep(Connects(l)))
  /\ WF_sessionVars(SessionsStep(DrainEnds))
  /\ WF_sessionVars(SessionsStep(RobotsSteps))
  /\ WF_sessionVars(SessionsStep(TradingSteps))
  /\ WF_sessionVars(SessionsStep(TaskEnds))
  /\ \A x \in Loops : WF_sessionVars(SessionsStep(LoopEnds(x)))
  /\ WF_sessionVars(SessionsStep(ShutdownSteps))
  /\ \A o \in {o1, o2} : WF_queueVars(QueueSteps(o))
  /\ WF_queueVars(\E j \in JobIds : JobAges(j))
  /\ WF_pipelineVars(AddressStep(LanesGoOn))
  /\ WF_pipelineVars(AddressStep(RepairsRun))

ProcessesSpec == ProcessesInit /\ [][ProcessesNext]_processVars /\ ProcessesFairness

\* Types of the index, of the sessions, of the jobs and of the address.
ProcessesTypeOK == RobotTypeOK /\ SessionTypeOK /\ QueueTypeOK /\ PipelineTypeOK
=============================================================================

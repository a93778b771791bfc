----------------------------- MODULE AnalyzeQueue -----------------------------
(***************************************************************************)
(* The queue of smart money analyses on demand (smartMoneyAnalyzeQueue.ts) *)
(* in the API processes: rows of SmartMoneyAnalyzeJob, a wake-up timer in  *)
(* each process, and passes of processNext, each of which gives way to the *)
(* leaderboard jobs, takes the lease of the analyses, claims the oldest    *)
(* job and analyses it.  A pass awaits before it sets `running`, so an     *)
(* enqueue meanwhile can start a second pass in the same process, which    *)
(* the lease lets in because the owner is the same.                        *)
(***************************************************************************)
EXTENDS CronLease, Sequences, FiniteSets

CONSTANTS
  Wallets,      \* the addresses users ask about
  Passes,       \* the passes of processNext a process has at once
  QueueMax,     \* the jobs that wait or run at most
  MaxAsks       \* bound: calls of users in a behaviour

ASSUME QueueAssumption == QueueMax \in Nat /\ MaxAsks \in Nat /\ IsFiniteSet(Owners)

VARIABLES
  jobs,        \* the jobs by age: wallet, status ("ENDED" is READY, FAILED or
               \* EXPIRED), active (activeKey set) and late (created by a process
               \* whose queue had stopped)
  aged,        \* the jobs that have waited longer than the limit
  queueOn,     \* the processes whose queue is not stopped
  starting,    \* the processes whose start of the queue is under way
  unstarted,   \* the processes whose start failed and that no call woke since
  wake,        \* the processes whose wake-up timer is set
  running,     \* the processes whose flag `running` is set
  pass,        \* where a pass is, and the job it has read
  asking,      \* the wallet a process is about to enqueue, or NoWallet
  asks,        \* calls of users so far
  doubled,     \* the processes that have had two passes at once
  lost         \* the processes whose lease of the analyses has lapsed since
               \* their pass began

startVars == <<starting, unstarted>>
queueOnlyVars == <<jobs, aged, queueOn, startVars, wake, running, pass, asking, asks, doubled, lost>>
queueVars == <<procUp, cronRun, leaseOwner, leaseLapsed, jobs, aged, queueOn,
               starting, unstarted, wake, running, pass, asking, asks, doubled, lost>>

NoWallet == "no wallet"
NoPass == [at |-> "idle", job |-> 0]
JobIds == 1 .. Len(jobs)
ActiveJobs == {j \in JobIds : jobs[j].status \in {"PENDING", "RUNNING"}}
-----------------------------------------------------------------------------
QueueInit ==
  /\ CronInit
  /\ jobs = <<>> /\ aged = {}
  /\ asks = 0
  /\ queueOn = {} /\ starting = {} /\ unstarted = {} /\ wake = {} /\ running = {} /\ doubled = {} /\ lost = {}
  /\ pass = [o \in Owners |-> [s \in Passes |-> NoPass]]
  /\ asking = [o \in Owners |-> NoWallet]

\* schedule(): a set timer stays, a stopped queue sets none.
Schedule(o) == wake' = IF o \in queueOn THEN wake \union {o} ELSE wake

SetJob(j, status) ==
  jobs' = [jobs EXCEPT ![j].status = status,
                       ![j].active = status \in {"PENDING", "RUNNING"}]

Steps(o, s, from, to) ==
  /\ pass[o][s].at = from
  /\ pass' = [pass EXCEPT ![o][s].at = to]

Returns(o, s) == pass' = [pass EXCEPT ![o][s] = NoPass]

\* A call that sets the timer wakes a process whose start failed as well.
Wakes(o) ==
  /\ Schedule(o)
  /\ unstarted' = IF o \in queueOn THEN unstarted \ {o} ELSE unstarted
  /\ UNCHANGED starting

\* The server listens and starts its queue: calls and passes are possible
\* before the start is through.
QueueStarts(o) ==
  /\ procUp[o] = "up" /\ o \notin queueOn
  /\ queueOn' = queueOn \union {o} /\ starting' = starting \union {o}
  /\ UNCHANGED <<cronVars, unstarted, jobs, aged, wake, running, pass, asking, asks, doubled, lost>>

\* The start fails what the last process left, and whatever a live one has;
\* then it sets the timer.
FailActive ==
  jobs' = [j \in JobIds |-> IF j \in ActiveJobs
             THEN [jobs[j] EXCEPT !.status = "ENDED", !.active = FALSE]
             ELSE jobs[j]]

StartEnds(o) ==
  /\ o \in starting
  /\ FailActive
  /\ starting' = starting \ {o}
  /\ Schedule(o)
  /\ UNCHANGED <<cronVars, unstarted, aged, queueOn, running, pass, asking, asks, doubled, lost>>

\* The statement throws and the server only logs it: the queue is on, and has
\* no timer unless a call has set it meanwhile.
StartThrows(o) ==
  /\ o \in starting
  /\ starting' = starting \ {o}
  /\ unstarted' = unstarted \union {o}
  /\ FailActive \/ UNCHANGED jobs
  /\ UNCHANGED <<cronVars, aged, queueOn, wake, running, pass, asking, asks, doubled, lost>>

\* A user asks about a wallet.  The chain of promises lets one call at a time
\* through in a process; a job with the wallet's key is used again, a full
\* queue refuses.
EnqueueReads(o, w) ==
  /\ o \in queueOn /\ asking[o] = NoWallet /\ asks < MaxAsks
  /\ asks' = asks + 1
  /\ IF \E j \in JobIds : jobs[j].active /\ jobs[j].wallet = w
     THEN Wakes(o) /\ UNCHANGED asking
     ELSE /\ Cardinality(ActiveJobs) < QueueMax
          /\ asking' = [asking EXCEPT ![o] = w]
          /\ UNCHANGED <<startVars, wake>>
  /\ UNCHANGED <<cronVars, jobs, aged, queueOn, running, pass, doubled, lost>>

\* A plausible bug: the call that creates a job does not schedule a pass.
EnqueuesQuietly(o) ==
  /\ asking[o] # NoWallet
  /\ jobs' = Append(jobs, [wallet |-> asking[o], status |-> "PENDING", active |-> TRUE,
                                  late |-> o \notin queueOn])
  /\ asking' = [asking EXCEPT ![o] = NoWallet]
  /\ UNCHANGED <<cronVars, startVars, aged, queueOn, wake, running, pass, asks, doubled, lost>>

\* The unique key lets one of two creations through; the other uses its job.
EnqueueCreates(o) ==
  LET w == asking[o]
  IN  /\ w # NoWallet
      /\ IF \E j \in JobIds : jobs[j].active /\ jobs[j].wallet = w
         THEN UNCHANGED jobs
         ELSE
              /\ jobs' = Append(jobs, [wallet |-> w, status |-> "PENDING", active |-> TRUE,
                                  late |-> o \notin queueOn])
      /\ asking' = [asking EXCEPT ![o] = NoWallet]
      /\ Wakes(o)
      /\ UNCHANGED <<cronVars, aged, queueOn, running, pass, asks, doubled, lost>>

JobAges(j) ==
  /\ j \in JobIds \ aged /\ jobs[j].status = "PENDING"
  /\ aged' = aged \union {j}
  /\ UNCHANGED <<startVars, cronVars, jobs, queueOn, wake, running, pass, asking, asks, doubled, lost>>
-----------------------------------------------------------------------------
\* The timer fires: a pass begins unless one works in this process.
WakeFires(o, s) ==
  /\ o \in wake /\ pass[o][s] = NoPass
  /\ wake' = wake \ {o}
  /\ IF o \in running
     THEN UNCHANGED <<pass, doubled, lost>>
     ELSE LET second == \E t \in Passes : pass[o][t] # NoPass
          IN  /\ pass' = [pass EXCEPT ![o][s].at = "looks"]
              /\ doubled' = IF second THEN doubled \union {o} ELSE doubled
              /\ lost' = IF second THEN lost ELSE lost \ {o}
  /\ UNCHANGED <<startVars, cronVars, jobs, aged, queueOn, running, asking, asks>>

ExpireOldPending ==
  jobs' = [j \in JobIds |-> IF j \in aged /\ jobs[j].status = "PENDING"
             THEN [jobs[j] EXCEPT !.status = "ENDED", !.active = FALSE]
             ELSE jobs[j]]

\* A batch in this process, or a live lease of one in another.
LeaderboardWorkBusy(o) ==
  \/ \E r \in CronRuns : cronRun[o][r] = "runs"
  \/ leaseOwner[CronKey] # NoOwner /\ ~leaseLapsed[CronKey]

\* Jobs that are too old expire; then a busy leaderboard sends the pass away.
LooksBusy(o, s) ==
  /\ pass[o][s].at = "looks"
  /\ ExpireOldPending
  /\ IF LeaderboardWorkBusy(o)
     THEN Returns(o, s) /\ Schedule(o)
     ELSE Steps(o, s, "looks", "asks") /\ UNCHANGED wake
  /\ UNCHANGED <<startVars, cronVars, aged, queueOn, running, asking, asks, doubled, lost>>

\* A plausible bug: a pass goes on without the lease.
AcquiresAlways(o, s) ==
  /\ Steps(o, s, "asks", "finds")
  /\ UNCHANGED <<startVars, cronVars, jobs, aged, queueOn, wake, running, asking, asks, doubled, lost>>

AcquireRun(o, s) ==
  /\ pass[o][s].at = "asks"
  /\ \/ /\ AcquireCronLease(AnalyzeKey, o)
        /\ Steps(o, s, "asks", "finds")
        /\ UNCHANGED wake
     \/ /\ ~LeaseFree(AnalyzeKey, o)
        /\ Returns(o, s) /\ Schedule(o)
        /\ UNCHANGED leaseVars
  /\ UNCHANGED <<startVars, procUp, cronRun, jobs, aged, queueOn, running, asking, asks, doubled, lost>>

\* The oldest job that waits; without one the pass gives the lease back and
\* sets no timer: the next enqueue does.
FindNext(o, s) ==
  LET waiting == {j \in JobIds : jobs[j].status = "PENDING"}
  IN  /\ pass[o][s].at = "finds"
      /\ IF waiting = {}
         THEN Returns(o, s) /\ ReleaseCronLease(AnalyzeKey, o)
         ELSE /\ \E j \in waiting :
                   /\ \A k \in waiting : j <= k
                   /\ pass' = [pass EXCEPT ![o][s] = [at |-> "claims", job |-> j]]
              /\ UNCHANGED leaseVars
      /\ UNCHANGED <<startVars, procUp, cronRun, jobs, aged, queueOn, wake, running, asking, asks, doubled, lost>>

\* The claim takes a job that still waits; a lost claim gives the lease back
\* and tries again.
ClaimJob(o, s) ==
  LET j == pass[o][s].job
  IN  /\ pass[o][s].at = "claims"
      /\ IF jobs[j].status = "PENDING"
         THEN /\ SetJob(j, "RUNNING")
              /\ running' = running \union {o}
              /\ Steps(o, s, "claims", "works")
              /\ UNCHANGED <<leaseVars, wake>>
         ELSE /\ Returns(o, s) /\ Schedule(o)
              /\ ReleaseCronLease(AnalyzeKey, o)
              /\ UNCHANGED <<jobs, running>>
      /\ UNCHANGED <<startVars, procUp, cronRun, aged, queueOn, asking, asks, doubled, lost>>

\* The analysis succeeds, fails or is aborted at its time limit; the row is
\* written by its id, whatever its status is by then, or both its updates fail.
Analyzed(o, s) ==
  /\ Steps(o, s, "works", "releases")
  /\ SetJob(pass[o][s].job, "ENDED") \/ UNCHANGED jobs
  /\ UNCHANGED <<startVars, cronVars, aged, queueOn, wake, running, asking, asks, doubled, lost>>

ReleaseRun(o, s) ==
  /\ pass[o][s].at = "releases"
  /\ ReleaseCronLease(AnalyzeKey, o) \/ UNCHANGED leaseVars
  /\ Returns(o, s)
  /\ running' = running \ {o}
  /\ Schedule(o)
  /\ UNCHANGED <<startVars, procUp, cronRun, jobs, aged, queueOn, asking, asks, doubled, lost>>

\* SIGTERM stops the queue beside the jobs; a pass under way goes on.
QueueStops(o) ==
  /\ ServerStops(o)
  /\ queueOn' = queueOn \ {o} /\ wake' = wake \ {o}
  /\ UNCHANGED <<startVars, jobs, aged, running, pass, asking, asks, doubled, lost>>

QueueEnds(o) ==
  /\ ProcessEnds(o)
  /\ queueOn' = queueOn \ {o} /\ wake' = wake \ {o} /\ running' = running \ {o}
  /\ starting' = starting \ {o} /\ unstarted' = unstarted \ {o}
  /\ pass' = [pass EXCEPT ![o] = [s \in Passes |-> NoPass]]
  /\ asking' = [asking EXCEPT ![o] = NoWallet]
  /\ UNCHANGED <<jobs, aged, asks, doubled, lost>>

QueueLapses(k) ==
  /\ LeaseLapses(k)
  /\ lost' = IF k = AnalyzeKey THEN lost \union {leaseOwner[k]} ELSE lost
  /\ UNCHANGED <<startVars, jobs, aged, queueOn, wake, running, pass, asking, asks, doubled>>

PassStep(o, s) ==
  \/ WakeFires(o, s) \/ LooksBusy(o, s) \/ AcquireRun(o, s)
  \/ FindNext(o, s) \/ ClaimJob(o, s)
  \/ Analyzed(o, s) \/ ReleaseRun(o, s)

\* The steps of some processes with some of their passes and scheduled runs,
\* for users who ask about some wallets.
QueueNextOf(procs, passes, runs, wallets) ==
  \/ \E k \in LeaseKeys : QueueLapses(k)
  \/ /\ \/ \E o \in procs : ServerStarts(o)
        \/ \E o \in procs, r \in runs :
             \/ CronFires(o, r) \/ CronAcquires(o, r) \/ CronSkips(o, r)
             \/ CronEnds(o, r) \/ CronReleases(o, r)
     /\ UNCHANGED queueOnlyVars
  \/ \E o \in procs :
       \/ QueueStarts(o) \/ StartEnds(o) \/ StartThrows(o) \/ QueueStops(o) \/ QueueEnds(o) \/ EnqueueCreates(o)
       \/ \E w \in wallets : EnqueueReads(o, w)
       \/ \E s \in passes : PassStep(o, s)
  \/ \E j \in JobIds : JobAges(j)

QueueNext == QueueNextOf(Owners, Passes, CronRuns, Wallets)

\* What goes on by itself: a process that is started or told to stop does so
\* (pm2 starts another one, shutdown exits after 30 s), its queue starts, its
\* timers fire and its calls come back.
QueueGoesOn(o, passes) ==
  \/ ServerStarts(o) /\ UNCHANGED queueOnlyVars
  \/ procUp[o] = "stopping" /\ QueueEnds(o)
  \/ QueueStarts(o) \/ StartEnds(o) \/ StartThrows(o)
  \/ \E s \in passes : PassStep(o, s)

QueueFairness ==
  /\ \A o \in Owners : WF_queueVars(QueueGoesOn(o, Passes))
  /\ WF_queueVars(\E j \in JobIds : JobAges(j))

QueueSpec ==
  QueueInit /\ [][QueueNext]_queueVars /\ QueueFairness
-----------------------------------------------------------------------------
QueueTypeOK ==
  /\ CronTypeOK
  /\ \A j \in JobIds :
       /\ jobs[j].wallet \in Wallets
       /\ jobs[j].status \in {"PENDING", "RUNNING", "ENDED"}
       /\ jobs[j].active <=> j \in ActiveJobs
  /\ Len(jobs) <= MaxAsks /\ aged \subseteq JobIds
  /\ {queueOn, starting, unstarted, wake, running, doubled, lost} \subseteq SUBSET Owners
  /\ asking \in [Owners -> Wallets \union {NoWallet}]

\* Two analyses are under way at once only in a process that had two passes
\* at once, or after the lease of the analyses lapsed under one of them: the
\* flag `running` and the lease are there to keep it to one.
Analyzing == {x \in Owners \X Passes : pass[x[1]][x[2]].at = "works"}
SideBySideNeedsTwoWakes ==
  Cardinality(Analyzing) > 1 =>
    \E x \in Analyzing : x[1] \in doubled \union lost

\* Every job that waits is claimed, expires, or is failed by a start: no order
\* of enqueues, passes, busy leaderboard jobs, restarts and lapses leaves one
\* without a timer that will get to it, except one that a call still under way
\* creates after its process has stopped its queue, and all of them beside a
\* process whose start threw, until a call wakes it.  A job waits once and
\* users ask MaxAsks times, so the queue runs empty.
Waits(j) == jobs[j].status = "PENDING" /\ ~jobs[j].late
PendingEnds ==
  (\E j \in JobIds : Waits(j)) ~> ((\A j \in JobIds : ~Waits(j)) \/ unstarted # {})
=============================================================================

------------------------------ MODULE CronLease ------------------------------
(***************************************************************************)
(* The table CronLease and one scheduled job of the API processes and of   *)
(* the smart money worker.  Every process registers its jobs when it       *)
(* starts: some run at once and again at every interval, with the same key *)
(* and the same owner, so a process may run one job twice side by side.    *)
(* A lease has a time limit that a run does not renew: it lapses under a   *)
(* long run, or under a process that died.  The limit itself (three        *)
(* intervals, at least five minutes, at most two hours) is a lapse at any  *)
(* time.                                                                   *)
(***************************************************************************)
EXTENDS Naturals

CONSTANTS
  Owners,      \* the names a process draws when it starts; none is drawn twice
  CronRuns,    \* the runs of the job in one process: "initial", "interval"
  CronKey,     \* the key of the job
  AnalyzeKey,  \* the key of the analyses on demand (AnalyzeQueue)
  NoOwner

ASSUME CronAssumption ==
  /\ NoOwner \notin Owners
  /\ CronRuns \subseteq {"initial", "interval"}
  /\ CronKey # AnalyzeKey

VARIABLES
  procUp,        \* a process: "new", "up", "stopping" or "gone"
  cronRun,       \* where a run is: "off", "waits", "asks", "runs" or "leaves"
  leaseOwner,    \* the owner in the row of a key, NoOwner when there is no row
  leaseLapsed    \* whether the row's expiresAt has passed

leaseVars == <<leaseOwner, leaseLapsed>>
cronVars == <<procUp, cronRun, leaseOwner, leaseLapsed>>

LeaseKeys == {CronKey, AnalyzeKey}
-----------------------------------------------------------------------------
CronInit ==
  /\ procUp = [o \in Owners |-> "new"]
  /\ cronRun = [o \in Owners |-> [r \in CronRuns |-> "off"]]
  /\ leaseOwner = [k \in LeaseKeys |-> NoOwner]
  /\ leaseLapsed = [k \in LeaseKeys |-> FALSE]

\* The INSERT ... ON CONFLICT ... WHERE updates the row of somebody else only
\* when it has expired.
LeaseFree(k, o) ==
  \/ leaseOwner[k] = NoOwner
  \/ leaseOwner[k] = o
  \/ leaseLapsed[k]

AcquireCronLease(k, o) ==
  /\ LeaseFree(k, o)
  /\ leaseOwner' = [leaseOwner EXCEPT ![k] = o]
  /\ leaseLapsed' = [leaseLapsed EXCEPT ![k] = FALSE]

\* A plausible bug: the row is deleted by its key alone.
ReleasesAnyOwner(k, o) ==
  /\ leaseOwner' = [leaseOwner EXCEPT ![k] = NoOwner]
  /\ leaseLapsed' = [leaseLapsed EXCEPT ![k] = FALSE]

\* deleteMany by key and owner: the row of another owner stays.
ReleaseCronLease(k, o) ==
  LET mine == leaseOwner[k] = o
  IN  /\ leaseOwner' = [leaseOwner EXCEPT ![k] = IF mine THEN NoOwner ELSE @]
      /\ leaseLapsed' = [leaseLapsed EXCEPT ![k] = ~mine /\ @]

\* A row outlives its time limit.
LeaseLapses(k) ==
  /\ leaseOwner[k] # NoOwner
  /\ ~leaseLapsed[k]
  /\ leaseLapsed' = [leaseLapsed EXCEPT ![k] = TRUE]
  /\ UNCHANGED <<procUp, cronRun, leaseOwner>>
-----------------------------------------------------------------------------
Moves(o, r, from, to) ==
  /\ cronRun[o][r] = from
  /\ cronRun' = [cronRun EXCEPT ![o][r] = to]

\* After a run the interval is scheduled again; the initial run is over, and
\* nothing is scheduled in a process that stops.
AfterRun(o, r) ==
  IF r = "interval" /\ procUp[o] = "up" THEN "waits" ELSE "off"

\* The server listens: the initial run asks for the lease at once, the other
\* waits for its delay.
ServerStarts(o) ==
  /\ procUp[o] = "new"
  /\ procUp' = [procUp EXCEPT ![o] = "up"]
  /\ cronRun' = [cronRun EXCEPT ![o] =
       [r \in CronRuns |-> IF r = "initial" THEN "asks" ELSE "waits"]]
  /\ UNCHANGED leaseVars

CronFires(o, r) ==
  /\ procUp[o] = "up"
  /\ Moves(o, r, "waits", "asks")
  /\ UNCHANGED <<procUp, leaseOwner, leaseLapsed>>

CronAcquires(o, r) ==
  /\ Moves(o, r, "asks", "runs")
  /\ AcquireCronLease(CronKey, o)
  /\ UNCHANGED procUp

\* "skipped: lease held by another instance"
CronSkips(o, r) ==
  /\ ~LeaseFree(CronKey, o)
  /\ Moves(o, r, "asks", AfterRun(o, r))
  /\ UNCHANGED <<procUp, leaseOwner, leaseLapsed>>

\* The task returns or throws.
CronEnds(o, r) ==
  /\ Moves(o, r, "runs", "leaves")
  /\ UNCHANGED <<procUp, leaseOwner, leaseLapsed>>

\* The lease is released; when that fails the run only warns.
CronReleases(o, r) ==
  /\ Moves(o, r, "leaves", AfterRun(o, r))
  /\ ReleaseCronLease(CronKey, o) \/ UNCHANGED leaseVars
  /\ UNCHANGED procUp

\* SIGTERM: the timers are cleared, runs under way go on.  A process is
\* stopped or dies only when another one is going to start after it.
ServerStops(o) ==
  /\ procUp[o] = "up"
  /\ \E p \in Owners : procUp[p] = "new"
  /\ procUp' = [procUp EXCEPT ![o] = "stopping"]
  /\ cronRun' = [cronRun EXCEPT ![o] =
       [r \in CronRuns |-> IF @[r] = "waits" THEN "off" ELSE @[r]]]
  /\ UNCHANGED leaseVars

\* A process exits or is killed.
ProcessEnds(o) ==
  /\ \/ procUp[o] = "stopping"
     \/ procUp[o] = "up" /\ \E p \in Owners : procUp[p] = "new"
  /\ procUp' = [procUp EXCEPT ![o] = "gone"]
  /\ cronRun' = [cronRun EXCEPT ![o] = [r \in CronRuns |-> "off"]]
  /\ UNCHANGED leaseVars

CronStep(o) ==
  \/ ServerStarts(o)
  \/ ServerStops(o)
  \/ \E r \in CronRuns :
       \/ CronFires(o, r) \/ CronAcquires(o, r) \/ CronSkips(o, r)
       \/ CronEnds(o, r) \/ CronReleases(o, r)

CronNext ==
  \/ \E k \in LeaseKeys : LeaseLapses(k)
  \/ \E o \in Owners : CronStep(o) \/ ProcessEnds(o)

CronSpec == CronInit /\ [][CronNext]_cronVars
-----------------------------------------------------------------------------
CronTypeOK ==
  /\ procUp \in [Owners -> {"new", "up", "stopping", "gone"}]
  /\ cronRun \in [Owners -> [CronRuns -> {"off", "waits", "asks", "runs", "leaves"}]]
  /\ leaseOwner \in [LeaseKeys -> Owners \union {NoOwner}]
  /\ leaseLapsed \in [LeaseKeys -> BOOLEAN]

\* The lease of the job implements the grant: a run starts only when nobody
\* holds the key any more or its own process does, and no run ends the hold of
\* another process.  cronLease.ts checks and writes the row in one statement
\* and deletes it by key and owner for this.
CronHolder == IF leaseLapsed[CronKey] THEN NoOwner ELSE leaseOwner[CronKey]
CronInside ==
  {x \in Owners \X CronRuns : cronRun[x[1]][x[2]] \in {"runs", "leaves"}}

Lease == INSTANCE LeaseGrant
  WITH Procs <- Owners, Runs <- CronRuns, Nobody <- NoOwner,
       holder <- CronHolder, inside <- CronInside

LeaseGranted == Lease!GrantSpec
=============================================================================

---------------------------- MODULE RobotRuntime ----------------------------
(***************************************************************************)
(* The runtime index of the copy worker (RobotRuntimeManager.ts): which    *)
(* robots, that is subscriptions, copy a leader.  It is loaded from the    *)
(* database when the worker starts and then follows control events, which  *)
(* the API publishes over NATS core after each change of a robot.  A       *)
(* dispatch serves the robots of the index that the database confirms, and *)
(* all robots of the database only when that leaves none.                  *)
(*                                                                         *)
(* One leader; wallets and settings are left out: a dispatch takes them    *)
(* from the database.  Events of a robot that wait together are one.       *)
(***************************************************************************)
EXTENDS Integers

CONSTANTS
  Robots,         \* the CopySubscriptions of the leader
  EditCalls,      \* requests that change a robot, in the API
  NoRobot,        \* no robot
  MaxEdits,       \* bound: changes of robots
  MaxOutages,     \* bound: times the broker goes away
  MaxHits         \* bound: process stops, failed reads and leaders switched off

ASSUME RobotsAssumption == NoRobot \notin Robots
ASSUME RobotBounds == {MaxEdits, MaxOutages, MaxHits} \subseteq Nat

VARIABLES
  robotOn,      \* robots with enabled = true and deletedAt = null
  leaderUp,     \* CopyLeader.enabled
  edit,         \* edit[c]: what request c does, to which robot, and the value
  edits, outages, hits,     \* how much of each bound is used
  broker,       \* the NATS server can be reached
  apiLink,      \* connPromise of the API: "none", "open" or "dead"
  wire,         \* robots with an event published and not yet arrived
  worker,       \* the copy worker: "down", "loading" or "up"
  read,         \* what loadAllEnabledFromDb has read
  index,        \* bySubscriptionId
  listening,    \* the subscription to robot.*.* is up
  inbox,        \* robots with an event the consumer has not taken
  reload,       \* the robot whose row was read as enabled and awaits its wallet
  unheard       \* history: robots that may have changed unheard since the
                \* worker last read their row

robotVars == <<robotOn, leaderUp, edit, edits, outages, hits, broker, apiLink, wire,
               worker, read, index, listening, inbox, reload, unheard>>
EditVars == <<robotOn, leaderUp, edit, edits>>
NatsVars == <<outages, broker, apiLink, wire>>
WorkerVars == <<worker, read, index, listening, inbox, reload>>

NoEdit == [pc |-> "idle", robot |-> NoRobot, on |-> FALSE]

\* Robots a dispatch should serve: enabled, with an enabled leader.
Copying == IF leaderUp THEN robotOn ELSE {}

\* A change of the robot, or what announces it, is still under way.
UnderWay(b) ==
  \/ b \in wire \cup inbox \cup {reload}
  \/ \E c \in EditCalls : edit[c].pc # "idle" /\ edit[c].robot = b

RobotInit ==
  /\ robotOn \in SUBSET Robots /\ leaderUp = TRUE
  /\ edit = [c \in EditCalls |-> NoEdit]
  /\ edits = 0 /\ outages = 0 /\ hits = 0
  /\ broker = TRUE /\ apiLink = "none" /\ wire = {}
  /\ worker = "down" /\ read = {} /\ index = {}
  /\ listening = FALSE /\ inbox = {} /\ reload = NoRobot
  /\ unheard = {}
-----------------------------------------------------------------------------
(* The API *)

\* Requests on relations, resume and pause begin with
\* ensureLeaderAndSubscriptionForUser, which enables the leader: the leader's
\* other robots count again, and nothing announces them.
EditLeader(c, b, on) ==
  /\ edit[c].pc = "idle" /\ edits < MaxEdits /\ edits' = edits + 1
  /\ edit' = [edit EXCEPT ![c] = [pc |-> "leader", robot |-> b, on |-> on]]
  /\ leaderUp' = TRUE
  /\ unheard' = IF leaderUp THEN unheard ELSE Robots
  /\ UNCHANGED <<robotOn, hits, NatsVars, WorkerVars>>

\* Mutant: no event after the change.
EditUnannounced(c) ==
  /\ edit[c].pc = "leader"
  /\ robotOn' = IF edit[c].on THEN robotOn \cup {edit[c].robot}
                ELSE robotOn \ {edit[c].robot}
  /\ edit' = [edit EXCEPT ![c] = NoEdit]
  /\ UNCHANGED <<leaderUp, edits, hits, NatsVars, WorkerVars, unheard>>

\* ... then write the subscription (or find too many enabled ones).
EditRobot(c) ==
  /\ edit[c].pc = "leader"
  /\ \/ /\ robotOn' = IF edit[c].on THEN robotOn \cup {edit[c].robot}
                      ELSE robotOn \ {edit[c].robot}
        /\ edit' = [edit EXCEPT ![c].pc = "written"]
     \/ edit[c].on /\ edit' = [edit EXCEPT ![c] = NoEdit] /\ UNCHANGED robotOn
  /\ UNCHANGED <<leaderUp, edits, hits, NatsVars, WorkerVars, unheard>>

\* deleteCopySubscriptionForUser
DeleteRobot(c, b) ==
  /\ edit[c].pc = "idle" /\ edits < MaxEdits /\ edits' = edits + 1
  /\ b \in robotOn /\ robotOn' = robotOn \ {b}
  /\ edit' = [edit EXCEPT ![c] = [pc |-> "written", robot |-> b, on |-> FALSE]]
  /\ UNCHANGED <<leaderUp, hits, NatsVars, WorkerVars, unheard>>

\* publishRobotControlEvent.  The promise of the connection is kept whatever
\* becomes of it: one that was refused or closed is never replaced in the API.
Publish(c) ==
  LET b == edit[c].robot
      link == IF apiLink = "none" THEN IF broker THEN "open" ELSE "dead" ELSE apiLink
  IN /\ edit[c].pc = "written"
     /\ edit' = [edit EXCEPT ![c] = NoEdit]
     /\ apiLink' = link
     /\ IF link = "open" THEN wire' = wire \cup {b} /\ UNCHANGED unheard
        ELSE unheard' = unheard \cup {b} /\ UNCHANGED wire
     /\ UNCHANGED <<robotOn, leaderUp, edits, hits, outages, broker, WorkerVars>>

\* The API restarts; what its client had buffered is gone.
ApiRestarts ==
  LET cut == {b \in Robots : \E c \in EditCalls : edit[c].pc = "written" /\ edit[c].robot = b}
  IN /\ hits < MaxHits /\ hits' = hits + 1
     /\ edit' = [c \in EditCalls |-> NoEdit]
     /\ apiLink' = "none"
     /\ wire' = IF broker THEN wire ELSE {}
     /\ unheard' = unheard \cup cut \cup (wire \ wire')
     /\ UNCHANGED <<robotOn, leaderUp, edits, outages, broker, WorkerVars>>
-----------------------------------------------------------------------------
(* NATS *)

\* An event reaches the broker: the worker gets it if it is subscribed.
Arrives(b) ==
  /\ b \in wire /\ broker
  /\ wire' = wire \ {b}
  /\ IF listening THEN inbox' = inbox \cup {b} /\ UNCHANGED unheard
     ELSE unheard' = unheard \cup {b} /\ UNCHANGED inbox
  /\ UNCHANGED <<EditVars, hits, outages, broker, apiLink, worker, read, index,
                 listening, reload>>

BrokerGoes ==
  /\ broker /\ outages < MaxOutages /\ outages' = outages + 1
  /\ broker' = FALSE
  /\ UNCHANGED <<EditVars, hits, apiLink, wire, WorkerVars, unheard>>

BrokerReturns ==
  /\ ~broker /\ broker' = TRUE
  /\ UNCHANGED <<EditVars, hits, outages, apiLink, wire, WorkerVars, unheard>>

\* The API's client gives up reconnecting: its buffer is gone.
ApiLinkCloses ==
  /\ ~broker /\ apiLink = "open" /\ apiLink' = "dead"
  /\ wire' = {} /\ unheard' = unheard \cup wire
  /\ UNCHANGED <<EditVars, hits, outages, broker, WorkerVars>>

\* The worker's client gives up: the session ends with what it had queued.
SessionEnds ==
  /\ listening /\ listening' = FALSE
  /\ inbox' = {} /\ unheard' = unheard \cup inbox
  /\ ~broker
  /\ UNCHANGED <<EditVars, hits, NatsVars, worker, read, index, reload>>

\* runRobotControlSession subscribes, at the start or after a session that
\* ended; nothing is read again.
Subscribes ==
  /\ worker = "up" /\ ~listening /\ broker /\ reload = NoRobot
  /\ listening' = TRUE
  /\ UNCHANGED <<EditVars, hits, NatsVars, worker, read, index, inbox, reload, unheard>>
-----------------------------------------------------------------------------
(* The worker *)

\* loadAllEnabledFromDb clears the index and reads the rows, awaits the
\* wallets of their users ...
LoadReads ==
  /\ worker = "down" /\ worker' = "loading"
  /\ read' = Copying /\ unheard' = {}
  /\ UNCHANGED <<EditVars, hits, NatsVars, index, listening, inbox, reload>>

\* ... and fills the index.
LoadFills ==
  /\ worker = "loading" /\ worker' = "up"
  /\ index' = read /\ read' = {}
  /\ UNCHANGED <<EditVars, hits, NatsVars, listening, inbox, reload, unheard>>

\* The load fails and the worker goes on with an empty index.
LoadFails ==
  /\ worker = "loading" /\ worker' = "up"
  /\ hits < MaxHits /\ hits' = hits + 1
  /\ read' = {} /\ unheard' = Robots
  /\ UNCHANGED <<EditVars, NatsVars, index, listening, inbox, reload>>

\* The consumer takes events one at a time; reloadSubscriptionFromDb reads the
\* row, and removes the robot or awaits its wallet ...
ReloadReads(b) ==
  /\ b \in inbox /\ reload = NoRobot
  /\ inbox' = inbox \ {b} /\ unheard' = unheard \ {b}
  /\ IF b \in Copying THEN reload' = b /\ UNCHANGED index
     ELSE index' = index \ {b} /\ UNCHANGED reload
  /\ UNCHANGED <<EditVars, hits, NatsVars, worker, read, listening>>

\* ... before it is put into the index.
ReloadUpserts ==
  /\ reload # NoRobot
  /\ index' = index \cup {reload} /\ reload' = NoRobot
  /\ UNCHANGED <<EditVars, hits, NatsVars, worker, read, listening, inbox, unheard>>

\* The read fails: the event is logged and forgotten.
ReloadFails(b) ==
  /\ b \in inbox /\ reload = NoRobot
  /\ hits < MaxHits /\ hits' = hits + 1
  /\ inbox' = inbox \ {b} /\ unheard' = unheard \cup {b}
  /\ UNCHANGED <<EditVars, NatsVars, worker, read, index, listening, reload>>

WorkerDies ==
  /\ worker # "down" /\ hits < MaxHits /\ hits' = hits + 1
  /\ worker' = "down" /\ read' = {} /\ index' = {}
  /\ listening' = FALSE /\ inbox' = {} /\ reload' = NoRobot
  /\ unheard' = unheard \cup inbox
  /\ UNCHANGED <<EditVars, NatsVars>>

\* An operator switches the leader off in the database.
LeaderOff ==
  /\ leaderUp /\ hits < MaxHits /\ hits' = hits + 1
  /\ leaderUp' = FALSE
  /\ UNCHANGED <<robotOn, edit, edits, NatsVars, WorkerVars, unheard>>
-----------------------------------------------------------------------------
\* resolveDispatchSubscriptionsForLeader in the worker.
Served == IF index \cap Copying = {} THEN Copying ELSE index \cap Copying

RobotNext ==
  \/ \E c \in EditCalls : EditRobot(c) \/ Publish(c)
  \/ \E c \in EditCalls, b \in Robots : DeleteRobot(c, b) \/ EditLeader(c, b, TRUE)
                                       \/ EditLeader(c, b, FALSE)
  \/ ApiRestarts \/ BrokerGoes \/ BrokerReturns \/ ApiLinkCloses
  \/ SessionEnds \/ Subscribes
  \/ LoadReads \/ LoadFills \/ LoadFails \/ ReloadUpserts \/ WorkerDies \/ LeaderOff
  \/ \E b \in Robots : Arrives(b) \/ ReloadReads(b) \/ ReloadFails(b)

RobotSpec == RobotInit /\ [][RobotNext]_robotVars
-----------------------------------------------------------------------------
\* Types of the index and of what feeds it.
RobotTypeOK ==
  /\ {robotOn, wire, read, index, inbox, unheard} \subseteq SUBSET Robots
  /\ {leaderUp, broker, listening} \subseteq BOOLEAN
  /\ edit \in [EditCalls -> [pc: {"idle", "leader", "written"},
                             robot: Robots \cup {NoRobot}, on: BOOLEAN]]
  /\ {edits, outages, hits} \subseteq Nat
  /\ apiLink \in {"none", "open", "dead"} /\ worker \in {"down", "loading", "up"}
  /\ reload \in Robots \cup {NoRobot}

\* A dispatch of the worker leaves a robot out only while a change of it is
\* still on its way, or when a change of it was not heard of since the worker
\* last read its row: an event lost between load and subscription, in a
\* broken session or in a dead connection, a failed read, or a leader that is
\* enabled again by an edit of another robot.  (resolveDispatchSubscriptions.ts
\* falls back to the database so that no order is missed, but only when the
\* index confirms no robot at all.)
LeftOutNeedsLoss ==
  worker = "up" => \A b \in Copying \ Served : b \in unheard \/ UnderWay(b)
=============================================================================

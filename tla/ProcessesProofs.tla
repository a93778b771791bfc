--------------------------- MODULE ProcessesProofs ---------------------------
(***************************************************************************)
(* What the processes keep in memory, for every set of robots, requests,   *)
(* processes and passes: the index of robots of the copy worker, the       *)
(* passes of the analyses on demand with their lease, and the lease of a   *)
(* scheduled job, which implements the grant of its key; the sessions of   *)
(* the copy worker, whose connections and queue stay in bounds; the jobs,  *)
(* each of which was asked for.                                            *)
(*                                                                         *)
(* Then where an address stands on its way to the board, for every number  *)
(* of runs and faults: as long as no step crossed another one, a lane that *)
(* will write COPY_POOL, or would restore it, has the address on the       *)
(* board, and COPY_POOL without the board is a flush between two           *)
(* statements.  At the end they are put together: a behaviour of the       *)
(* processes is one of a part, whose invariant it keeps.                   *)
(***************************************************************************)
EXTENDS MCProcesses, TLAPS, FiniteSetTheorems
-----------------------------------------------------------------------------
(* The index of robots *)

\* What is still to be heard of a robot, without the requests that have not
\* written their change yet.
Announced(b) ==
  \/ b \in wire \cup inbox \cup {reload}
  \/ \E c \in EditCalls : edit[c].pc = "written" /\ edit[c].robot = b

\* The robots a set has to hold are in it, or something of them is still to
\* come, or was not heard.
UpTo(known) == \A b \in Copying \ known : b \in unheard \/ Announced(b)

\* A request that is under way is about a robot.
EditNames == \A c \in EditCalls : edit[c].pc # "idle" => edit[c].robot \in Robots

\* A worker that is not up has no session and no event.
Deaf == worker # "up" => ~listening /\ inbox = {} /\ reload = NoRobot

RobotInv ==
  /\ RobotTypeOK /\ EditNames /\ Deaf
  /\ worker = "loading" => UpTo(read)
  /\ worker = "up" => UpTo(index)

EditState == [pc: {"idle", "leader", "written"}, robot: Robots \cup {NoRobot}, on: BOOLEAN]

LEMMA RobotInitInv == RobotInit => RobotInv
<1> SUFFICES ASSUME RobotInit PROVE RobotInv
  OBVIOUS
<1>1. edit \in [EditCalls -> EditState] /\ EditNames
  BY DEF RobotInit, NoEdit, EditState, EditNames
<1>2. {edits, outages, hits} \subseteq Nat
  BY DEF RobotInit
<1>3. RobotTypeOK
  BY <1>1, <1>2 DEF RobotTypeOK, EditState, RobotInit
<1> QED BY <1>1, <1>3 DEF RobotInv, RobotInit, Deaf

\* A step that gives one request a new state.
LEMMA EditTyped ==
  ASSUME RobotTypeOK, EditNames, NEW c \in EditCalls, NEW r \in EditState,
         r.pc # "idle" => r.robot \in Robots, edit' = [edit EXCEPT ![c] = r]
  PROVE  /\ edit' \in [EditCalls -> EditState] /\ EditNames' /\ edit'[c] = r
         /\ \A d \in EditCalls \ {c} : edit'[d] = edit[d]
BY DEF RobotTypeOK, EditState, EditNames

\* A step of a request on a robot: what it writes, and the robots whose state
\* may have changed.
LEMMA EditLeaderKeeps ==
  ASSUME RobotInv, NEW c \in EditCalls, NEW b \in Robots, NEW on \in BOOLEAN,
         EditLeader(c, b, on)
  PROVE  RobotInv'
<1> DEFINE r == [pc |-> "leader", robot |-> b, on |-> on]
<1>1. r \in EditState /\ r.pc = "leader" /\ r.robot = b
  BY DEF EditState
<1> HIDE DEF r
<1>2. edit' = [edit EXCEPT ![c] = r] /\ edit[c].pc = "idle"
  BY DEF EditLeader, r
<1>3. RobotTypeOK /\ EditNames
  BY DEF RobotInv
<1>4. /\ edit' \in [EditCalls -> EditState] /\ EditNames' /\ edit'[c] = r
      /\ \A d \in EditCalls \ {c} : edit'[d] = edit[d]
  BY <1>1, <1>2, <1>3, EditTyped
<1>5. RobotTypeOK'
  BY <1>3, <1>4 DEF RobotTypeOK, EditLeader, EditState, NatsVars, WorkerVars
<1>6. \A x \in Robots : Announced(x) => Announced(x)'
  BY <1>2, <1>4 DEF Announced, EditLeader, NatsVars, WorkerVars
<1>7. ASSUME NEW known, UpTo(known) PROVE \A x \in Copying' \ known : x \in unheard' \/ Announced(x)'
  BY <1>3, <1>6, <1>7 DEF UpTo, Copying, EditLeader, RobotTypeOK
<1>8. (worker = "loading" => UpTo(read))' /\ (worker = "up" => UpTo(index))'
  BY <1>7 DEF RobotInv, UpTo, EditLeader, WorkerVars
<1>9. Deaf'
  BY DEF RobotInv, Deaf, EditLeader, WorkerVars
<1> QED BY <1>4, <1>5, <1>8, <1>9 DEF RobotInv

LEMMA DeleteRobotKeeps ==
  ASSUME RobotInv, NEW c \in EditCalls, NEW b \in Robots, DeleteRobot(c, b)
  PROVE  RobotInv'
<1> DEFINE r == [pc |-> "written", robot |-> b, on |-> FALSE]
<1>1. r \in EditState /\ r.pc = "written" /\ r.robot = b
  BY DEF EditState
<1> HIDE DEF r
<1>2. edit' = [edit EXCEPT ![c] = r] /\ edit[c].pc = "idle"
  BY DEF DeleteRobot, r
<1>3. RobotTypeOK /\ EditNames
  BY DEF RobotInv
<1>4. /\ edit' \in [EditCalls -> EditState] /\ EditNames' /\ edit'[c] = r
      /\ \A d \in EditCalls \ {c} : edit'[d] = edit[d]
  BY <1>1, <1>2, <1>3, EditTyped
<1>5. RobotTypeOK'
  BY <1>3, <1>4 DEF RobotTypeOK, DeleteRobot, EditState, NatsVars, WorkerVars
<1>6. \A x \in Robots : Announced(x) => Announced(x)'
  BY <1>2, <1>4 DEF Announced, DeleteRobot, NatsVars, WorkerVars
<1>7. (worker = "loading" => UpTo(read))' /\ (worker = "up" => UpTo(index))'
  BY <1>3, <1>6 DEF RobotInv, UpTo, Copying, RobotTypeOK, DeleteRobot, WorkerVars
<1>8. Deaf'
  BY DEF RobotInv, Deaf, DeleteRobot, WorkerVars
<1> QED BY <1>4, <1>5, <1>7, <1>8 DEF RobotInv

LEMMA EditRobotKeeps ==
  ASSUME RobotInv, NEW c \in EditCalls, EditRobot(c)
  PROVE  RobotInv'
<1> DEFINE r == edit'[c]
<1>1. RobotTypeOK /\ EditNames /\ edit[c] \in EditState /\ edit[c].robot \in Robots
  BY DEF RobotInv, EditNames, RobotTypeOK, EditState, EditRobot
<1>2. CASE /\ robotOn' = IF edit[c].on THEN robotOn \cup {edit[c].robot}
                         ELSE robotOn \ {edit[c].robot}
           /\ edit' = [edit EXCEPT ![c].pc = "written"]
  <2> DEFINE w == [edit[c] EXCEPT !.pc = "written"]
  <2>1. w \in EditState /\ w.pc = "written" /\ w.robot = edit[c].robot
    BY <1>1 DEF EditState
  <2> HIDE DEF w
  <2>2. edit' = [edit EXCEPT ![c] = w]
    BY <1>2, <1>1 DEF w
  <2>3. /\ edit' \in [EditCalls -> EditState] /\ EditNames' /\ edit'[c] = w
        /\ \A d \in EditCalls \ {c} : edit'[d] = edit[d]
    BY <1>1, <2>1, <2>2, EditTyped
  <2>4. RobotTypeOK'
    BY <1>1, <1>2, <2>3 DEF RobotTypeOK, EditRobot, EditState, NatsVars, WorkerVars
  <2>5. \A x \in Robots : Announced(x) => Announced(x)'
    BY <1>1, <2>1, <2>3 DEF Announced, EditRobot, NatsVars, WorkerVars
  <2>6. Announced(edit[c].robot)'
    BY <2>1, <2>3 DEF Announced
  <2>7. \A x \in Copying' : x \in Copying \/ Announced(x)'
    BY <1>1, <1>2, <2>6 DEF Copying, EditRobot, NatsVars, WorkerVars
  <2>8. (worker = "loading" => UpTo(read))' /\ (worker = "up" => UpTo(index))'
    BY <1>1, <2>5, <2>7 DEF RobotInv, RobotTypeOK, UpTo, Copying, EditRobot, WorkerVars
  <2>9. Deaf'
    BY DEF RobotInv, Deaf, EditRobot, WorkerVars
  <2> QED BY <2>3, <2>4, <2>8, <2>9 DEF RobotInv
<1>3. CASE edit' = [edit EXCEPT ![c] = NoEdit] /\ UNCHANGED robotOn
  <2>1. NoEdit \in EditState /\ NoEdit.pc = "idle"
    BY DEF EditState, NoEdit
  <2>2. /\ edit' \in [EditCalls -> EditState] /\ EditNames' /\ edit'[c] = NoEdit
        /\ \A d \in EditCalls \ {c} : edit'[d] = edit[d]
    BY <1>1, <1>3, <2>1, EditTyped
  <2>3. RobotTypeOK'
    BY <1>1, <1>3, <2>2 DEF RobotTypeOK, EditRobot, EditState, NatsVars, WorkerVars
  <2>4. \A x \in Robots : Announced(x) => Announced(x)'
    BY <1>1, <2>1, <2>2 DEF Announced, EditRobot, NatsVars, WorkerVars
  <2>5. (worker = "loading" => UpTo(read))' /\ (worker = "up" => UpTo(index))'
    BY <1>1, <1>3, <2>4 DEF RobotInv, RobotTypeOK, UpTo, Copying, EditRobot, WorkerVars
  <2>6. Deaf'
    BY DEF RobotInv, Deaf, EditRobot, WorkerVars
  <2> QED BY <2>2, <2>3, <2>5, <2>6 DEF RobotInv
<1> QED BY <1>2, <1>3 DEF EditRobot

LEMMA PublishKeeps ==
  ASSUME RobotInv, NEW c \in EditCalls, Publish(c)
  PROVE  RobotInv'
<1> DEFINE b == edit[c].robot
<1>1. RobotTypeOK /\ EditNames /\ edit[c].pc = "written" /\ b \in Robots
  BY DEF RobotInv, EditNames, Publish
<1>2. NoEdit \in EditState /\ NoEdit.pc = "idle"
  BY DEF EditState, NoEdit
<1>3. /\ edit' \in [EditCalls -> EditState] /\ EditNames' /\ edit'[c] = NoEdit
      /\ \A d \in EditCalls \ {c} : edit'[d] = edit[d]
  BY <1>1, <1>2, EditTyped DEF Publish
<1>4. \/ wire' = wire \cup {b} /\ unheard' = unheard
      \/ wire' = wire /\ unheard' = unheard \cup {b}
  BY DEF Publish
<1>5. RobotTypeOK'
  BY <1>1, <1>3, <1>4 DEF RobotTypeOK, Publish, EditState, WorkerVars
<1>6. \A x \in Robots : x \in unheard \/ Announced(x) => x \in unheard' \/ Announced(x)'
  BY <1>3, <1>4 DEF Announced, Publish, WorkerVars
<1>7. (worker = "loading" => UpTo(read))' /\ (worker = "up" => UpTo(index))'
  BY <1>1, <1>6 DEF RobotInv, RobotTypeOK, UpTo, Copying, Publish, WorkerVars
<1>8. Deaf'
  BY DEF RobotInv, Deaf, Publish, WorkerVars
<1> QED BY <1>3, <1>5, <1>7, <1>8 DEF RobotInv

LEMMA ApiRestartsKeeps == RobotInv /\ ApiRestarts => RobotInv'
<1> SUFFICES ASSUME RobotInv, ApiRestarts PROVE RobotInv'
  OBVIOUS
<1>1. RobotTypeOK /\ EditNames
  BY DEF RobotInv
<1>2. edit' \in [EditCalls -> EditState] /\ EditNames' /\ \A c \in EditCalls : edit'[c].pc = "idle"
  BY DEF EditState, NoEdit, EditNames, ApiRestarts
<1>3. wire' \subseteq wire /\ unheard \subseteq unheard' /\ unheard' \subseteq Robots
  BY <1>1 DEF ApiRestarts, RobotTypeOK
<1>4. RobotTypeOK'
  BY <1>1, <1>2, <1>3 DEF RobotTypeOK, ApiRestarts, EditState, WorkerVars
<1>5. \A x \in Robots : x \in unheard \/ Announced(x) => x \in unheard' \/ Announced(x)'
  BY DEF Announced, ApiRestarts, WorkerVars
<1>6. (worker = "loading" => UpTo(read))' /\ (worker = "up" => UpTo(index))'
  BY <1>1, <1>5 DEF RobotInv, RobotTypeOK, UpTo, Copying, ApiRestarts, WorkerVars
<1>7. Deaf'
  BY DEF RobotInv, Deaf, ApiRestarts, WorkerVars
<1> QED BY <1>2, <1>4, <1>6, <1>7 DEF RobotInv

\* A step that leaves the robots and the requests alone.
LEMMA HeardKeeps ==
  ASSUME RobotInv, UNCHANGED EditVars, RobotTypeOK', Deaf',
         worker' = "loading" => UpTo(read)', worker' = "up" => UpTo(index)'
  PROVE  RobotInv'
BY DEF RobotInv, EditNames, EditVars

\* Events move to the inbox or are lost; the worker goes on.
LEMMA NatsKeeps ==
  ASSUME RobotInv, UNCHANGED <<EditVars, worker, read, index, reload>>,
         RobotTypeOK', Deaf',
         \A b \in wire \cup inbox : b \in wire' \cup inbox' \cup unheard',
         unheard \subseteq unheard'
  PROVE  RobotInv'
<1>1. \A b \in Robots : b \in unheard \/ Announced(b) => b \in unheard' \/ Announced(b)'
  BY DEF Announced, EditVars
<1>2. Copying' = Copying /\ Copying \subseteq Robots
  BY DEF Copying, EditVars, RobotInv, RobotTypeOK
<1>3. (worker = "loading" => UpTo(read))' /\ (worker = "up" => UpTo(index))'
  BY <1>1, <1>2 DEF RobotInv, UpTo
<1> QED BY <1>3, HeardKeeps

LEMMA BrokerKeeps ==
  ASSUME RobotInv,
         \/ BrokerGoes \/ BrokerReturns \/ ApiLinkCloses \/ SessionEnds \/ Subscribes
         \/ \E b \in Robots : Arrives(b)
  PROVE  RobotInv'
<1> USE DEF EditVars, NatsVars, WorkerVars
<1>1. RobotTypeOK /\ Deaf
  BY DEF RobotInv
<1>2. CASE BrokerGoes \/ BrokerReturns
  <2> outages \in Nat
    BY <1>1 DEF RobotTypeOK
  <2>1. (broker' = TRUE \/ broker' = FALSE) /\ outages' \in Nat
    BY <1>2 DEF BrokerGoes, BrokerReturns
  <2>2. UNCHANGED <<EditVars, hits, apiLink, wire, WorkerVars, unheard>>
    BY <1>2 DEF BrokerGoes, BrokerReturns
  <2>3. RobotTypeOK'
    BY <1>1, <2>1, <2>2 DEF RobotTypeOK
  <2>4. Deaf'
    BY <1>1, <2>2 DEF Deaf
  <2> QED BY <2>2, <2>3, <2>4, NatsKeeps
<1>3. CASE ApiLinkCloses
  <2>1. RobotTypeOK' /\ Deaf'
    BY <1>1, <1>3 DEF RobotTypeOK, Deaf, ApiLinkCloses
  <2> QED BY <1>3, <2>1, NatsKeeps DEF ApiLinkCloses
<1>4. CASE SessionEnds
  <2>1. RobotTypeOK' /\ Deaf'
    BY <1>1, <1>4 DEF RobotTypeOK, Deaf, SessionEnds
  <2> QED BY <1>4, <2>1, NatsKeeps DEF SessionEnds
<1>5. CASE Subscribes
  <2>1. RobotTypeOK' /\ Deaf'
    BY <1>1, <1>5 DEF RobotTypeOK, Deaf, Subscribes
  <2> QED BY <1>5, <2>1, NatsKeeps DEF Subscribes
<1>6. ASSUME NEW b \in Robots, Arrives(b) PROVE RobotInv'
  <2>1. RobotTypeOK' /\ Deaf'
    BY <1>1, <1>6 DEF RobotTypeOK, Deaf, Arrives
  <2>2. /\ \A x \in wire \cup inbox : x \in wire' \cup inbox' \cup unheard'
        /\ unheard \subseteq unheard'
    BY <1>6 DEF Arrives
  <2> QED BY <1>6, <2>1, <2>2, NatsKeeps DEF Arrives
<1> QED BY <1>2, <1>3, <1>4, <1>5, <1>6

LEMMA LoadKeeps ==
  ASSUME RobotInv, LoadReads \/ LoadFills \/ LoadFails \/ WorkerDies
  PROVE  RobotInv'
<1> USE DEF EditVars, NatsVars, WorkerVars
<1>1. RobotTypeOK /\ Deaf /\ Copying \subseteq Robots
  BY DEF RobotInv, RobotTypeOK, Copying
<1>2. CASE LoadReads
  <2>1. RobotTypeOK' /\ Deaf'
    BY <1>1, <1>2 DEF RobotTypeOK, Deaf, LoadReads
  <2>2. Copying' = Copying /\ read' = Copying
    BY <1>2 DEF Copying, LoadReads
  <2> QED BY <1>2, <2>1, <2>2, HeardKeeps DEF LoadReads, UpTo
<1>3. CASE LoadFills
  <2>1. RobotTypeOK' /\ Deaf'
    BY <1>1, <1>3 DEF RobotTypeOK, Deaf, LoadFills
  <2>2. Copying' = Copying /\ index' = read /\ UpTo(read)
    BY <1>3 DEF Copying, LoadFills, RobotInv
  <2>3. UpTo(index)'
    BY <1>3, <2>2 DEF UpTo, Announced, LoadFills
  <2> QED BY <1>3, <2>1, <2>3, HeardKeeps DEF LoadFills
<1>4. CASE LoadFails
  <2>1. RobotTypeOK' /\ Deaf'
    BY <1>1, <1>4 DEF RobotTypeOK, Deaf, LoadFails
  <2>2. Copying' = Copying /\ unheard' = Robots
    BY <1>4 DEF Copying, LoadFails
  <2>3. UpTo(index)'
    BY <1>1, <2>2 DEF UpTo
  <2> QED BY <1>4, <2>1, <2>3, HeardKeeps DEF LoadFails
<1>5. CASE WorkerDies
  <2>1. unheard' \subseteq Robots /\ hits' \in Nat
    BY <1>1, <1>5 DEF RobotTypeOK, WorkerDies
  <2>2. RobotTypeOK'
    BY <1>1, <1>5, <2>1 DEF RobotTypeOK, WorkerDies
  <2>3. Deaf'
    BY <1>5 DEF Deaf, WorkerDies
  <2> QED BY <1>5, <2>2, <2>3, HeardKeeps DEF WorkerDies
<1> QED BY <1>2, <1>3, <1>4, <1>5

\* The consumer works only in a worker that is up.
LEMMA ReloadKeeps ==
  ASSUME RobotInv, NEW b \in Robots,
         ReloadReads(b) \/ ReloadFails(b) \/ ReloadUpserts
  PROVE  RobotInv'
<1> USE DEF EditVars, NatsVars, WorkerVars
<1>1. /\ RobotTypeOK /\ Deaf /\ Copying \subseteq Robots /\ Copying' = Copying
      /\ worker = "up" /\ worker' = "up" /\ UpTo(index)
  BY DEF RobotInv, RobotTypeOK, Deaf, Copying, ReloadReads, ReloadFails, ReloadUpserts
<1>2. CASE ReloadReads(b)
  <2>1. RobotTypeOK' /\ Deaf'
    BY <1>1, <1>2 DEF RobotTypeOK, Deaf, ReloadReads
  <2>2. UpTo(index)'
    BY <1>1, <1>2, RobotsAssumption DEF UpTo, Announced, ReloadReads
  <2> QED BY <1>1, <1>2, <2>1, <2>2, HeardKeeps DEF ReloadReads
<1>3. CASE ReloadFails(b)
  <2>1. RobotTypeOK' /\ Deaf'
    BY <1>1, <1>3 DEF RobotTypeOK, Deaf, ReloadFails
  <2>2. UpTo(index)'
    BY <1>1, <1>3 DEF UpTo, Announced, ReloadFails
  <2> QED BY <1>1, <1>3, <2>1, <2>2, HeardKeeps DEF ReloadFails
<1>4. CASE ReloadUpserts
  <2>1. RobotTypeOK' /\ Deaf'
    BY <1>1, <1>4 DEF RobotTypeOK, Deaf, ReloadUpserts
  <2>2. UpTo(index)'
    BY <1>1, <1>4 DEF UpTo, Announced, ReloadUpserts
  <2> QED BY <1>1, <1>4, <2>1, <2>2, HeardKeeps DEF ReloadUpserts
<1> QED BY <1>2, <1>3, <1>4

LEMMA LeaderOffKeeps == RobotInv /\ LeaderOff => RobotInv'
<1> SUFFICES ASSUME RobotInv, LeaderOff PROVE RobotInv'
  OBVIOUS
<1> USE DEF LeaderOff, NatsVars, WorkerVars
<1>1. leaderUp' = FALSE /\ hits' \in Nat
  BY DEF RobotInv, RobotTypeOK
<1>2. RobotTypeOK' /\ EditNames' /\ Deaf'
  BY <1>1 DEF RobotInv, RobotTypeOK, EditNames, Deaf
<1>3. Copying' = {}
  BY DEF Copying
<1> QED BY <1>2, <1>3 DEF RobotInv, UpTo

LEMMA RobotNextInv == RobotInv /\ [RobotNext]_robotVars => RobotInv'
<1> SUFFICES ASSUME RobotInv, [RobotNext]_robotVars PROVE RobotInv'
  OBVIOUS
<1>1. ASSUME NEW c \in EditCalls, EditRobot(c) \/ Publish(c) PROVE RobotInv'
  BY <1>1, EditRobotKeeps, PublishKeeps
<1>2. ASSUME NEW c \in EditCalls, NEW b \in Robots,
             DeleteRobot(c, b) \/ EditLeader(c, b, TRUE) \/ EditLeader(c, b, FALSE)
      PROVE  RobotInv'
  BY <1>2, DeleteRobotKeeps, EditLeaderKeeps
<1>3. CASE BrokerGoes \/ BrokerReturns \/ ApiLinkCloses \/ SessionEnds \/ Subscribes
  BY <1>3, BrokerKeeps
<1>4. CASE LoadReads \/ LoadFills \/ LoadFails \/ WorkerDies
  BY <1>4, LoadKeeps
<1>5. CASE ReloadUpserts
  <2>1. reload \in Robots
    BY <1>5 DEF RobotInv, RobotTypeOK, ReloadUpserts
  <2> QED BY <1>5, <2>1, ReloadKeeps
<1>6. ASSUME NEW b \in Robots, Arrives(b) \/ ReloadReads(b) \/ ReloadFails(b)
      PROVE  RobotInv'
  BY <1>6, BrokerKeeps, ReloadKeeps
<1>7. CASE UNCHANGED robotVars
  BY <1>7 DEF robotVars, RobotInv, RobotTypeOK, EditNames, Deaf, UpTo, Announced, Copying
<1> QED BY <1>1, <1>2, <1>3, <1>4, <1>5, <1>6, <1>7, ApiRestartsKeeps, LeaderOffKeeps
        DEF RobotNext

LEMMA RobotTypes == RobotInv => RobotTypeOK
BY DEF RobotInv

\* The index, what feeds it and the requests keep their types.
THEOREM RobotTyped == RobotSpec => []RobotTypeOK
BY RobotTypes, RobotInitInv, RobotNextInv, PTL DEF RobotSpec

LEMMA LeavesOut == RobotInv => LeftOutNeedsLoss
BY DEF RobotInv, LeftOutNeedsLoss, Served, UpTo, Announced, UnderWay

\* A dispatch of the worker leaves a robot out only while a change of it is on
\* its way, or when a change of it was not heard of since its row was read.
THEOREM DispatchesCorrect == RobotSpec => []LeftOutNeedsLoss
BY LeavesOut, RobotInitInv, RobotNextInv, PTL DEF RobotSpec
-----------------------------------------------------------------------------
(* The analyses on demand *)

PassState ==
  [at: {"idle", "looks", "asks", "finds", "claims", "works", "releases"}, job: Int]
Inside == {"finds", "claims", "works", "releases"}

\* A process has a live lease of the analyses.
HoldsKey(o) == leaseOwner[AnalyzeKey] = o /\ ~leaseLapsed[AnalyzeKey]

\* The rows of the leases and the passes.
PassTypeOK ==
  /\ leaseOwner \in [LeaseKeys -> Owners \union {NoOwner}]
  /\ leaseLapsed \in [LeaseKeys -> BOOLEAN]
  /\ pass \in [Owners -> [Passes -> PassState]]

\* A pass that has asked for the lease has it, unless the lease was given back
\* by another pass of the process or has lapsed.
InsideHolds ==
  \A o \in Owners, s \in Passes :
    pass[o][s].at \in Inside /\ o \notin doubled \union lost => HoldsKey(o)

\* A process that is not known to have had two passes has one at most.
OnePass ==
  \A o \in Owners \ doubled, s, t \in Passes :
    pass[o][s] # NoPass /\ pass[o][t] # NoPass => s = t

QueueInv == PassTypeOK /\ InsideHolds /\ OnePass

LEMMA QueueInitInv == QueueInit => QueueInv
<1> SUFFICES ASSUME QueueInit PROVE QueueInv
  OBVIOUS
<1>1. NoPass \in PassState /\ NoPass.at = "idle"
  BY DEF NoPass, PassState
<1>2. pass \in [Owners -> [Passes -> PassState]] /\ \A o \in Owners, s \in Passes : pass[o][s] = NoPass
  BY <1>1 DEF QueueInit
<1>3. PassTypeOK
  BY <1>2 DEF PassTypeOK, QueueInit, CronInit
<1> QED BY <1>1, <1>2, <1>3 DEF QueueInv, InsideHolds, OnePass, Inside

\* A step that leaves the passes and the lease of the analyses alone.
LEMMA PassesStay ==
  ASSUME QueueInv, UNCHANGED <<pass, doubled, lost>>,
         leaseOwner' \in [LeaseKeys -> Owners \union {NoOwner}],
         leaseLapsed' \in [LeaseKeys -> BOOLEAN],
         leaseOwner'[AnalyzeKey] = leaseOwner[AnalyzeKey],
         leaseLapsed'[AnalyzeKey] = leaseLapsed[AnalyzeKey]
  PROVE  QueueInv'
BY DEF QueueInv, PassTypeOK, InsideHolds, OnePass, HoldsKey

LEMMA PassMoved ==
  ASSUME PassTypeOK, NEW o \in Owners, NEW s \in Passes, NEW r \in PassState,
         pass' = [pass EXCEPT ![o][s] = r]
  PROVE  /\ pass' \in [Owners -> [Passes -> PassState]] /\ pass'[o][s] = r
         /\ \A p \in Owners, t \in Passes : <<p, t>> # <<o, s>> => pass'[p][t] = pass[p][t]
BY DEF PassTypeOK

\* A pass goes on or returns: nobody else loses the lease by it.
LEMMA PassGoesOn ==
  ASSUME QueueInv, NEW o \in Owners, NEW s \in Passes, NEW r \in PassState,
         pass[o][s] # NoPass, pass' = [pass EXCEPT ![o][s] = r],
         leaseOwner' \in [LeaseKeys -> Owners \union {NoOwner}],
         leaseLapsed' \in [LeaseKeys -> BOOLEAN],
         \A p \in Owners : HoldsKey(p) => HoldsKey(p)' \/ (p = o /\ r = NoPass),
         r.at \in Inside => pass[o][s].at \in Inside \/ HoldsKey(o)',
         UNCHANGED <<doubled, lost>>
  PROVE  QueueInv'
<1>1. PassTypeOK /\ InsideHolds /\ OnePass
  BY DEF QueueInv
<1>2. /\ pass' \in [Owners -> [Passes -> PassState]] /\ pass'[o][s] = r
      /\ \A p \in Owners, t \in Passes : <<p, t>> # <<o, s>> => pass'[p][t] = pass[p][t]
  BY <1>1 DEF PassTypeOK
<1>3. NoPass.at \notin Inside
  BY DEF NoPass, Inside
<1>4. InsideHolds'
  <2> SUFFICES ASSUME NEW p \in Owners, NEW t \in Passes, pass'[p][t].at \in Inside,
                      p \notin doubled \union lost
               PROVE  HoldsKey(p)'
    BY DEF InsideHolds
  <2>1. CASE p = o /\ t = s
    BY <1>1, <1>2, <1>3, <2>1 DEF InsideHolds
  <2>2. CASE <<p, t>> # <<o, s>>
    <3>1. pass[p][t].at \in Inside /\ pass[p][t] # NoPass /\ HoldsKey(p)
      BY <1>1, <1>2, <1>3, <2>2 DEF InsideHolds
    <3>2. ~(p = o /\ r = NoPass)
      BY <1>1, <2>2, <3>1 DEF OnePass
    <3> QED BY <3>1, <3>2
  <2> QED BY <2>1, <2>2
<1>5. OnePass'
  BY <1>1, <1>2 DEF OnePass
<1>6. PassTypeOK'
  BY <1>2 DEF PassTypeOK
<1> QED BY <1>4, <1>5, <1>6 DEF QueueInv


LEMMA KeysAreKeys == AnalyzeKey \in LeaseKeys /\ CronKey \in LeaseKeys
BY DEF LeaseKeys

LEMMA AcquireKeeps ==
  ASSUME PassTypeOK, NEW o \in Owners, NEW k \in LeaseKeys, AcquireCronLease(k, o)
  PROVE  /\ leaseOwner' \in [LeaseKeys -> Owners \union {NoOwner}]
         /\ leaseLapsed' \in [LeaseKeys -> BOOLEAN]
         /\ leaseOwner'[k] = o /\ ~leaseLapsed'[k]
         /\ \A l \in LeaseKeys \ {k} :
              leaseOwner'[l] = leaseOwner[l] /\ leaseLapsed'[l] = leaseLapsed[l]
BY DEF PassTypeOK, AcquireCronLease

LEMMA ReleaseKeeps ==
  ASSUME PassTypeOK, NEW o \in Owners, NEW k \in LeaseKeys, ReleaseCronLease(k, o)
  PROVE  /\ leaseOwner' \in [LeaseKeys -> Owners \union {NoOwner}]
         /\ leaseLapsed' \in [LeaseKeys -> BOOLEAN]
         /\ leaseOwner[k] # o => leaseOwner'[k] = leaseOwner[k] /\ leaseLapsed'[k] = leaseLapsed[k]
         /\ \A l \in LeaseKeys \ {k} :
              leaseOwner'[l] = leaseOwner[l] /\ leaseLapsed'[l] = leaseLapsed[l]
<1>1. leaseOwner' = [leaseOwner EXCEPT ![k] = IF leaseOwner[k] = o THEN NoOwner ELSE leaseOwner[k]]
  BY DEF ReleaseCronLease
<1>2. leaseLapsed' = [leaseLapsed EXCEPT ![k] = IF leaseOwner[k] = o THEN FALSE ELSE leaseLapsed[k]]
  BY DEF PassTypeOK, ReleaseCronLease
<1> QED BY <1>1, <1>2 DEF PassTypeOK

LEMMA KeyReleased ==
  ASSUME PassTypeOK, NEW o \in Owners,
         ReleaseCronLease(AnalyzeKey, o) \/ UNCHANGED leaseVars
  PROVE  /\ leaseOwner' \in [LeaseKeys -> Owners \union {NoOwner}]
         /\ leaseLapsed' \in [LeaseKeys -> BOOLEAN]
         /\ \A p \in Owners \ {o} : HoldsKey(p) => HoldsKey(p)'
<1>1. CASE ReleaseCronLease(AnalyzeKey, o)
  BY <1>1, KeysAreKeys, ReleaseKeeps DEF HoldsKey
<1>2. CASE UNCHANGED leaseVars
  BY <1>2 DEF PassTypeOK, leaseVars, HoldsKey
<1> QED BY <1>1, <1>2

\* The steps of the leaderboard job touch the lease of its own key only.
LEMMA CronKeepsQueue ==
  ASSUME QueueInv, UNCHANGED queueOnlyVars, NEW o \in Owners, NEW r \in CronRuns,
         \/ ServerStarts(o) \/ CronFires(o, r) \/ CronAcquires(o, r)
         \/ CronSkips(o, r) \/ CronEnds(o, r) \/ CronReleases(o, r)
  PROVE  QueueInv'
<1>1. PassTypeOK /\ UNCHANGED <<pass, doubled, lost>> /\ AnalyzeKey # CronKey
  BY CronAssumption DEF QueueInv, queueOnlyVars
<1>2. CASE UNCHANGED leaseVars
  BY <1>1, <1>2, PassesStay DEF PassTypeOK, leaseVars
<1>3. CASE AcquireCronLease(CronKey, o)
  BY <1>1, <1>3, KeysAreKeys, AcquireKeeps, PassesStay
<1>4. CASE ReleaseCronLease(CronKey, o)
  BY <1>1, <1>4, KeysAreKeys, ReleaseKeeps, PassesStay
<1> QED BY <1>2, <1>3, <1>4
        DEF ServerStarts, CronFires, CronAcquires, CronSkips, CronEnds, CronReleases, leaseVars

\* Starts, stops and calls of users.
LEMMA AsksKeepQueue ==
  ASSUME QueueInv, NEW o \in Owners,
         \/ QueueStarts(o) \/ StartEnds(o) \/ StartThrows(o) \/ QueueStops(o) \/ EnqueueCreates(o)
         \/ \E w \in Wallets : EnqueueReads(o, w)
         \/ \E j \in JobIds : JobAges(j)
  PROVE  QueueInv'
<1>1. UNCHANGED <<pass, doubled, lost, leaseVars>>
  BY DEF QueueStarts, StartEnds, StartThrows, QueueStops, ServerStops, EnqueueCreates, EnqueueReads, JobAges,
         cronVars, leaseVars
<1> QED BY <1>1, PassesStay DEF QueueInv, PassTypeOK, leaseVars

LEMMA EndKeepsQueue ==
  ASSUME QueueInv, NEW o \in Owners, QueueEnds(o)
  PROVE  QueueInv'
<1>1. NoPass \in PassState /\ NoPass.at \notin Inside
  BY DEF NoPass, PassState, Inside
<1>2. PassTypeOK /\ InsideHolds /\ OnePass /\ UNCHANGED <<leaseOwner, leaseLapsed, doubled, lost>>
  BY DEF QueueInv, QueueEnds, ProcessEnds, leaseVars
<1>3. /\ pass' \in [Owners -> [Passes -> PassState]]
      /\ \A s \in Passes : pass'[o][s] = NoPass
      /\ \A p \in Owners \ {o}, t \in Passes : pass'[p][t] = pass[p][t]
  BY <1>1, <1>2 DEF QueueEnds, PassTypeOK
<1>4. PassTypeOK'
  BY <1>2, <1>3 DEF PassTypeOK
<1>5. InsideHolds'
  BY <1>1, <1>2, <1>3 DEF InsideHolds, HoldsKey
<1>6. OnePass'
  BY <1>2, <1>3 DEF OnePass
<1> QED BY <1>4, <1>5, <1>6 DEF QueueInv

LEMMA LapseKeepsQueue ==
  ASSUME QueueInv, NEW k \in LeaseKeys, QueueLapses(k)
  PROVE  QueueInv'
<1>1. PassTypeOK /\ InsideHolds /\ OnePass /\ UNCHANGED <<leaseOwner, pass, doubled>>
  BY DEF QueueInv, QueueLapses, LeaseLapses
<1>2. /\ leaseLapsed' \in [LeaseKeys -> BOOLEAN]
      /\ \A l \in LeaseKeys \ {k} : leaseLapsed'[l] = leaseLapsed[l]
  BY <1>1 DEF QueueLapses, LeaseLapses, PassTypeOK
<1>3. PassTypeOK'
  BY <1>1, <1>2 DEF PassTypeOK
<1>4. OnePass'
  BY <1>1 DEF OnePass
<1>5. CASE k = AnalyzeKey
  <2>1. lost' = lost \union {leaseOwner[AnalyzeKey]}
    BY <1>5 DEF QueueLapses
  <2>2. InsideHolds'
    BY <1>1, <2>1 DEF InsideHolds, HoldsKey
  <2> QED BY <1>3, <1>4, <2>2 DEF QueueInv
<1>6. CASE k # AnalyzeKey
  <2>1. lost' = lost /\ leaseLapsed'[AnalyzeKey] = leaseLapsed[AnalyzeKey]
    BY <1>2, <1>6, KeysAreKeys DEF QueueLapses
  <2> QED BY <1>1, <1>2, <2>1, PassesStay DEF PassTypeOK
<1> QED BY <1>5, <1>6
-----------------------------------------------------------------------------
(* Steps of a pass *)

\* A pass begins: the first of its process starts the count of lapses anew.
LEMMA WakeKeepsQueue ==
  ASSUME QueueInv, NEW o \in Owners, NEW s \in Passes, WakeFires(o, s)
  PROVE  QueueInv'
<1>1. PassTypeOK /\ InsideHolds /\ OnePass /\ UNCHANGED <<leaseOwner, leaseLapsed>>
      /\ pass[o][s] = NoPass
  BY DEF QueueInv, WakeFires, cronVars
<1>2. CASE o \in running
  BY <1>1, <1>2, PassesStay DEF WakeFires, PassTypeOK
<1>3. CASE o \notin running
  <2> DEFINE r == [pass[o][s] EXCEPT !.at = "looks"]
  <2>1. r \in PassState /\ r.at \notin Inside
    BY <1>1 DEF NoPass, PassState, Inside
  <2> HIDE DEF r
  <2>2. pass' = [pass EXCEPT ![o][s] = r]
    BY <1>1, <1>3 DEF WakeFires, r, PassTypeOK
  <2>3. /\ pass' \in [Owners -> [Passes -> PassState]] /\ pass'[o][s] = r
        /\ \A p \in Owners, t \in Passes : <<p, t>> # <<o, s>> => pass'[p][t] = pass[p][t]
    BY <1>1, <2>1, <2>2, PassMoved
  <2>4. PassTypeOK'
    BY <1>1, <2>3 DEF PassTypeOK
  <2>5. CASE \E t \in Passes : pass[o][t] # NoPass
    <3>1. doubled' = doubled \union {o} /\ lost' = lost
      BY <1>3, <2>5 DEF WakeFires
    <3>2. InsideHolds'
      BY <1>1, <2>3, <3>1 DEF InsideHolds, HoldsKey
    <3>3. OnePass'
      BY <1>1, <2>3, <3>1 DEF OnePass
    <3> QED BY <2>4, <3>2, <3>3 DEF QueueInv
  <2>6. CASE \A t \in Passes : pass[o][t] = NoPass
    <3>1. doubled' = doubled /\ lost' = lost \ {o}
      BY <1>3, <2>6 DEF WakeFires
    <3>2. NoPass.at \notin Inside
      BY DEF NoPass, Inside
    <3>3. InsideHolds'
      BY <1>1, <2>1, <2>3, <2>6, <3>1, <3>2 DEF InsideHolds, HoldsKey
    <3>4. OnePass'
      BY <1>1, <2>3, <2>6, <3>1 DEF OnePass
    <3> QED BY <2>4, <3>3, <3>4 DEF QueueInv
  <2> QED BY <2>5, <2>6
<1> QED BY <1>2, <1>3

\* A step within a pass, read as a new value of the pass.
LEMMA StepMoves ==
  ASSUME PassTypeOK, NEW o \in Owners, NEW s \in Passes, NEW from,
         NEW to \in {"asks", "finds", "works", "releases"}, Steps(o, s, from, to), from # "idle"
  PROVE  \E r \in PassState : /\ pass' = [pass EXCEPT ![o][s] = r] /\ r.at = to
                               /\ pass[o][s] # NoPass /\ pass[o][s].at = from
<1> DEFINE r == [pass[o][s] EXCEPT !.at = to]
<1>1. r \in PassState /\ r.at = to
  BY DEF PassTypeOK, PassState
<1>2. pass' = [pass EXCEPT ![o][s] = r]
  BY DEF Steps, PassTypeOK
<1> HIDE DEF r
<1>3. pass[o][s] # NoPass /\ pass[o][s].at = from
  BY DEF Steps, NoPass
<1> QED BY <1>1, <1>2, <1>3

\* The pass returns, and may give the lease back.
LEMMA ReturnKeepsQueue ==
  ASSUME QueueInv, NEW o \in Owners, NEW s \in Passes, pass[o][s] # NoPass, Returns(o, s),
         ReleaseCronLease(AnalyzeKey, o) \/ UNCHANGED leaseVars, UNCHANGED <<doubled, lost>>
  PROVE  QueueInv'
<1>1. NoPass \in PassState /\ NoPass.at \notin Inside
  BY DEF NoPass, PassState, Inside
<1>2. pass' = [pass EXCEPT ![o][s] = NoPass]
  BY DEF Returns
<1>3. /\ leaseOwner' \in [LeaseKeys -> Owners \union {NoOwner}]
      /\ leaseLapsed' \in [LeaseKeys -> BOOLEAN]
      /\ \A p \in Owners : HoldsKey(p) => HoldsKey(p)' \/ p = o
  BY KeyReleased DEF QueueInv
<1> QED BY <1>1, <1>2, <1>3, PassGoesOn

\* The pass goes on and the lease stays.
LEMMA StepKeepsQueue ==
  ASSUME QueueInv, NEW o \in Owners, NEW s \in Passes, NEW from,
         NEW to \in {"asks", "finds", "works", "releases"}, Steps(o, s, from, to), from # "idle",
         to \in Inside => from \in Inside,
         UNCHANGED <<leaseVars, doubled, lost>>
  PROVE  QueueInv'
<1>1. PICK r \in PassState : /\ pass' = [pass EXCEPT ![o][s] = r] /\ r.at = to
                            /\ pass[o][s] # NoPass /\ pass[o][s].at = from
  BY StepMoves DEF QueueInv
<1>2. /\ leaseOwner' \in [LeaseKeys -> Owners \union {NoOwner}]
      /\ leaseLapsed' \in [LeaseKeys -> BOOLEAN]
      /\ \A p \in Owners : HoldsKey(p) => HoldsKey(p)'
  BY DEF QueueInv, PassTypeOK, HoldsKey, leaseVars
<1> QED BY <1>1, <1>2, PassGoesOn

LEMMA PassKeepsQueue ==
  ASSUME QueueInv, NEW o \in Owners, NEW s \in Passes, PassStep(o, s)
  PROVE  QueueInv'
<1>0. PassTypeOK
  BY DEF QueueInv
<1>1. CASE WakeFires(o, s)
  BY <1>1, WakeKeepsQueue
<1>2. CASE LooksBusy(o, s)
  <2>1. UNCHANGED <<leaseVars, doubled, lost>> /\ pass[o][s] # NoPass
    BY <1>2 DEF LooksBusy, cronVars, leaseVars, NoPass
  <2>2. Returns(o, s) \/ Steps(o, s, "looks", "asks")
    BY <1>2 DEF LooksBusy
  <2> QED BY <2>1, <2>2, ReturnKeepsQueue, StepKeepsQueue DEF Inside
<1>3. CASE AcquireRun(o, s)
  <2>1. UNCHANGED <<doubled, lost>> /\ pass[o][s] # NoPass
    BY <1>3 DEF AcquireRun, NoPass
  <2>2. CASE AcquireCronLease(AnalyzeKey, o) /\ Steps(o, s, "asks", "finds")
    <3>1. PICK r \in PassState : pass' = [pass EXCEPT ![o][s] = r]
      BY <1>0, <2>2, StepMoves
    <3>2. /\ leaseOwner' \in [LeaseKeys -> Owners \union {NoOwner}]
          /\ leaseLapsed' \in [LeaseKeys -> BOOLEAN] /\ HoldsKey(o)'
      BY <1>0, <2>2, AcquireKeeps, KeysAreKeys DEF HoldsKey
    <3>3. \A p \in Owners : HoldsKey(p) => p = o
      BY <2>2, CronAssumption DEF HoldsKey, AcquireCronLease, LeaseFree
    <3> QED BY <2>1, <3>1, <3>2, <3>3, PassGoesOn
  <2>3. CASE Returns(o, s) /\ UNCHANGED leaseVars
    BY <2>1, <2>3, ReturnKeepsQueue
  <2> QED BY <1>3, <2>2, <2>3 DEF AcquireRun
<1>4. CASE FindNext(o, s)
  <2>1. UNCHANGED <<doubled, lost>> /\ pass[o][s] # NoPass /\ pass[o][s].at = "finds"
    BY <1>4 DEF FindNext, NoPass
  <2>2. CASE Returns(o, s) /\ ReleaseCronLease(AnalyzeKey, o)
    BY <2>1, <2>2, ReturnKeepsQueue
  <2>3. ASSUME NEW j \in JobIds, pass' = [pass EXCEPT ![o][s] = [at |-> "claims", job |-> j]],
               UNCHANGED leaseVars
        PROVE  QueueInv'
    <3>1. [at |-> "claims", job |-> j] \in PassState
      BY DEF PassState, JobIds
    <3>2. /\ leaseOwner' \in [LeaseKeys -> Owners \union {NoOwner}]
          /\ leaseLapsed' \in [LeaseKeys -> BOOLEAN]
          /\ \A p \in Owners : HoldsKey(p) => HoldsKey(p)'
      BY <1>0, <2>3 DEF PassTypeOK, HoldsKey, leaseVars
    <3>3. pass[o][s].at \in Inside
      BY <2>1 DEF Inside
    <3> QED BY <2>1, <2>3, <3>1, <3>2, <3>3, PassGoesOn
  <2> QED BY <1>4, <2>2, <2>3 DEF FindNext
<1>5. CASE ClaimJob(o, s)
  <2>1. UNCHANGED <<doubled, lost>> /\ pass[o][s] # NoPass
    BY <1>5 DEF ClaimJob, NoPass
  <2>2. CASE Steps(o, s, "claims", "works") /\ UNCHANGED leaseVars
    BY <2>1, <2>2, StepKeepsQueue DEF Inside
  <2>3. CASE Returns(o, s) /\ ReleaseCronLease(AnalyzeKey, o)
    BY <2>1, <2>3, ReturnKeepsQueue
  <2> QED BY <1>5, <2>2, <2>3 DEF ClaimJob
<1>6. CASE Analyzed(o, s)
  <2>1. UNCHANGED <<leaseVars, doubled, lost>> /\ Steps(o, s, "works", "releases")
    BY <1>6 DEF Analyzed, cronVars, leaseVars
  <2> QED BY <2>1, StepKeepsQueue DEF Inside
<1>7. CASE ReleaseRun(o, s)
  <2>1. pass[o][s] # NoPass
    BY <1>7 DEF ReleaseRun, NoPass
  <2> QED BY <1>7, <2>1, ReturnKeepsQueue DEF ReleaseRun
<1> QED BY <1>1, <1>2, <1>3, <1>4, <1>5, <1>6, <1>7 DEF PassStep

LEMMA QueueNextInv == QueueInv /\ [QueueNext]_queueVars => QueueInv'
<1> SUFFICES ASSUME QueueInv, [QueueNext]_queueVars PROVE QueueInv'
  OBVIOUS
<1>1. ASSUME NEW k \in LeaseKeys, QueueLapses(k) PROVE QueueInv'
  BY <1>1, LapseKeepsQueue
<1>2. ASSUME NEW o \in Owners, ServerStarts(o), UNCHANGED queueOnlyVars PROVE QueueInv'
  <2>1. UNCHANGED <<pass, doubled, lost, leaseVars>>
    BY <1>2 DEF ServerStarts, queueOnlyVars
  <2> QED BY <2>1, PassesStay DEF QueueInv, PassTypeOK, leaseVars
<1>3. ASSUME NEW o \in Owners, NEW r \in CronRuns, UNCHANGED queueOnlyVars,
             \/ CronFires(o, r) \/ CronAcquires(o, r) \/ CronSkips(o, r)
             \/ CronEnds(o, r) \/ CronReleases(o, r)
      PROVE  QueueInv'
  BY <1>3, CronKeepsQueue
<1>4. ASSUME NEW o \in Owners,
             \/ QueueStarts(o) \/ StartEnds(o) \/ StartThrows(o) \/ QueueStops(o) \/ EnqueueCreates(o)
             \/ \E w \in Wallets : EnqueueReads(o, w)
      PROVE  QueueInv'
  BY <1>4, AsksKeepQueue
<1>5. ASSUME NEW o \in Owners, QueueEnds(o) PROVE QueueInv'
  BY <1>5, EndKeepsQueue
<1>6. ASSUME NEW o \in Owners, NEW s \in Passes, PassStep(o, s) PROVE QueueInv'
  BY <1>6, PassKeepsQueue
<1>7. ASSUME NEW j \in JobIds, JobAges(j) PROVE QueueInv'
  <2>1. UNCHANGED <<pass, doubled, lost, leaseVars>>
    BY <1>7 DEF JobAges, cronVars, leaseVars
  <2> QED BY <2>1, PassesStay DEF QueueInv, PassTypeOK, leaseVars
<1>8. CASE UNCHANGED queueVars
  BY <1>8, PassesStay DEF QueueInv, PassTypeOK, queueVars
<1> QED BY <1>1, <1>2, <1>3, <1>4, <1>5, <1>6, <1>7, <1>8 DEF QueueNext, QueueNextOf

LEMMA OneWorks == QueueInv => SideBySideNeedsTwoWakes
<1> SUFFICES ASSUME QueueInv, \A x \in Analyzing : x[1] \notin doubled \union lost
             PROVE  ~(Cardinality(Analyzing) > 1)
  BY DEF SideBySideNeedsTwoWakes
<1>1. \A x, y \in Analyzing : x = y
  <2> SUFFICES ASSUME NEW x \in Analyzing, NEW y \in Analyzing PROVE x = y
    OBVIOUS
  <2>1. /\ x = <<x[1], x[2]>> /\ x[1] \in Owners /\ x[2] \in Passes
        /\ y = <<y[1], y[2]>> /\ y[1] \in Owners /\ y[2] \in Passes
        /\ pass[x[1]][x[2]].at = "works" /\ pass[y[1]][y[2]].at = "works"
    BY DEF Analyzing
  <2>2. HoldsKey(x[1]) /\ HoldsKey(y[1])
    BY <2>1 DEF QueueInv, InsideHolds, Inside
  <2>3. x[1] = y[1]
    BY <2>2 DEF HoldsKey
  <2>4. pass[x[1]][x[2]] # NoPass /\ pass[y[1]][y[2]] # NoPass
    BY <2>1 DEF NoPass
  <2>5. x[2] = y[2]
    BY <2>1, <2>3, <2>4 DEF QueueInv, OnePass
  <2> QED BY <2>1, <2>3, <2>5
<1>2. CASE Analyzing = {}
  BY <1>2, FS_EmptySet
<1>3. ASSUME NEW x \in Analyzing PROVE Cardinality(Analyzing) = 1
  <2>1. Analyzing = {x}
    BY <1>1
  <2> QED BY <2>1, FS_Singleton
<1> QED BY <1>2, <1>3

\* Two analyses are under way at once only in a process that had two passes
\* at once, or after the lease of the analyses lapsed under one of them.
THEOREM AnalysesCorrect == QueueSpec => []SideBySideNeedsTwoWakes
BY OneWorks, QueueInitInv, QueueNextInv, PTL DEF QueueSpec
-----------------------------------------------------------------------------
(* The lease of a scheduled job *)


\* A process that has not started runs nothing: a start forgets no run.
NewIsIdle ==
  \A o \in Owners : procUp[o] = "new" => \A r \in CronRuns : cronRun[o][r] = "off"

CronInv == CronTypeOK /\ NewIsIdle
-----------------------------------------------------------------------------
(* Steps of a run *)

RunStates == {"off", "waits", "asks", "runs", "leaves"}

LEMMA MovesTyped ==
  ASSUME CronTypeOK, NEW o \in Owners, NEW r \in CronRuns, NEW from, NEW to \in RunStates,
         Moves(o, r, from, to)
  PROVE  /\ cronRun' \in [Owners -> [CronRuns -> RunStates]]
         /\ cronRun'[o][r] = to
         /\ \A p \in Owners, q \in CronRuns :
              <<p, q>> # <<o, r>> => cronRun'[p][q] = cronRun[p][q]
BY DEF CronTypeOK, Moves, RunStates

LEMMA AfterRunTyped ==
  ASSUME NEW o, NEW r
  PROVE  AfterRun(o, r) \in {"off", "waits"}
BY DEF AfterRun

\* A process with a run that is not off has started.
LEMMA MovesKeepsNew ==
  ASSUME CronInv, NEW o \in Owners, NEW r \in CronRuns, NEW from, NEW to \in RunStates,
         from # "off", Moves(o, r, from, to), UNCHANGED procUp
  PROVE  cronRun' \in [Owners -> [CronRuns -> RunStates]] /\ NewIsIdle'
<1>1. CronTypeOK /\ NewIsIdle
  BY DEF CronInv
<1>2. cronRun' \in [Owners -> [CronRuns -> RunStates]]
  BY <1>1, MovesTyped
<1>3. procUp[o] # "new"
  BY <1>1 DEF NewIsIdle, Moves
<1>4. NewIsIdle'
  BY <1>1, <1>3, MovesTyped DEF NewIsIdle
<1> QED BY <1>2, <1>4

-----------------------------------------------------------------------------
(* The invariant *)

LEMMA LeaseTyped ==
  ASSUME CronTypeOK, NEW o \in Owners,
         AcquireCronLease(CronKey, o) \/ ReleaseCronLease(CronKey, o) \/ UNCHANGED leaseVars
  PROVE  /\ leaseOwner' \in [LeaseKeys -> Owners \union {NoOwner}]
         /\ leaseLapsed' \in [LeaseKeys -> BOOLEAN]
<1>1. CASE AcquireCronLease(CronKey, o)
  BY <1>1 DEF CronTypeOK, AcquireCronLease
<1>2. CASE ReleaseCronLease(CronKey, o)
  BY <1>2 DEF CronTypeOK, ReleaseCronLease
<1>3. CASE UNCHANGED leaseVars
  BY <1>3 DEF CronTypeOK, leaseVars
<1> QED BY <1>1, <1>2, <1>3

LEMMA CronInitInv == CronInit => CronInv
BY DEF CronInit, CronInv, CronTypeOK, NewIsIdle

LEMMA CronNextInv == CronInv /\ [CronNext]_cronVars => CronInv'
<1> SUFFICES ASSUME CronInv, [CronNext]_cronVars PROVE CronInv'
  OBVIOUS
<1> USE DEF CronInv, RunStates
<1>1. ASSUME NEW k \in LeaseKeys, LeaseLapses(k) PROVE CronInv'
  BY <1>1 DEF LeaseLapses, CronTypeOK, NewIsIdle
<1>2. ASSUME NEW o \in Owners, ServerStarts(o) PROVE CronInv'
  BY <1>2 DEF ServerStarts, CronTypeOK, NewIsIdle, leaseVars
<1>3. ASSUME NEW o \in Owners, ServerStops(o) PROVE CronInv'
  BY <1>3 DEF ServerStops, CronTypeOK, NewIsIdle, leaseVars
<1>4. ASSUME NEW o \in Owners, ProcessEnds(o) PROVE CronInv'
  BY <1>4 DEF ProcessEnds, CronTypeOK, NewIsIdle, leaseVars
<1>5. ASSUME NEW o \in Owners, NEW r \in CronRuns, CronFires(o, r) PROVE CronInv'
  BY <1>5, MovesKeepsNew DEF CronFires, CronTypeOK
<1>6. ASSUME NEW o \in Owners, NEW r \in CronRuns, CronAcquires(o, r) PROVE CronInv'
  BY <1>6, MovesKeepsNew, LeaseTyped DEF CronAcquires, CronTypeOK
<1>7. ASSUME NEW o \in Owners, NEW r \in CronRuns, CronSkips(o, r) PROVE CronInv'
  BY <1>7, MovesKeepsNew, AfterRunTyped DEF CronSkips, CronTypeOK
<1>8. ASSUME NEW o \in Owners, NEW r \in CronRuns, CronEnds(o, r) PROVE CronInv'
  BY <1>8, MovesKeepsNew DEF CronEnds, CronTypeOK
<1>9. ASSUME NEW o \in Owners, NEW r \in CronRuns, CronReleases(o, r) PROVE CronInv'
  BY <1>9, MovesKeepsNew, AfterRunTyped, LeaseTyped DEF CronReleases, CronTypeOK
<1>10. CASE UNCHANGED cronVars
  BY <1>10 DEF cronVars, CronTypeOK, NewIsIdle
<1> QED BY <1>1, <1>2, <1>3, <1>4, <1>5, <1>6, <1>7, <1>8, <1>9, <1>10 DEF CronNext, CronStep

\* The rows of the leases, the runs and the processes keep their types, and
\* only a process that has started runs a job.
THEOREM CronTyped == CronSpec => []CronTypeOK
<1>1. CronInv => CronTypeOK
  BY DEF CronInv
<1> QED BY <1>1, CronInitInv, CronNextInv, PTL DEF CronSpec

-----------------------------------------------------------------------------
(* The refinement *)

\* A run that moves between states outside of its work leaves the set of runs
\* inside as it is; so does one that stays inside.
LEMMA InsideKept ==
  ASSUME CronTypeOK, NEW o \in Owners, NEW r \in CronRuns,
         NEW from \in RunStates, NEW to \in RunStates, Moves(o, r, from, to),
         (from \in {"runs", "leaves"}) <=> (to \in {"runs", "leaves"})
  PROVE  CronInside' = CronInside
<1>1. \A p \in Owners, q \in CronRuns : (cronRun'[p][q] \in {"runs", "leaves"}) <=> (cronRun[p][q] \in {"runs", "leaves"})
  BY MovesTyped DEF Moves
<1> QED BY <1>1 DEF CronInside

LEMMA InsideJoined ==
  ASSUME CronTypeOK, NEW o \in Owners, NEW r \in CronRuns, Moves(o, r, "asks", "runs")
  PROVE  CronInside' = CronInside \union {<<o, r>>}
<1>1. cronRun'[o][r] = "runs"
  BY MovesTyped DEF RunStates
<1>2. \A p \in Owners, q \in CronRuns : <<p, q>> # <<o, r>> => cronRun'[p][q] = cronRun[p][q]
  BY MovesTyped DEF RunStates
<1> QED BY <1>1, <1>2 DEF CronInside

LEMMA InsideLeft ==
  ASSUME CronTypeOK, NEW o \in Owners, NEW r \in CronRuns,
         NEW to \in {"off", "waits"}, Moves(o, r, "leaves", to)
  PROVE  <<o, r>> \in CronInside /\ CronInside' = CronInside \ {<<o, r>>}
<1>1. cronRun[o][r] = "leaves" /\ cronRun'[o][r] = to
  BY MovesTyped DEF Moves, RunStates
<1>2. \A p \in Owners, q \in CronRuns : <<p, q>> # <<o, r>> => cronRun'[p][q] = cronRun[p][q]
  BY MovesTyped DEF RunStates
<1> QED BY <1>1, <1>2 DEF CronInside

LEMMA HolderKept == ASSUME UNCHANGED leaseVars PROVE CronHolder' = CronHolder
BY DEF leaseVars, CronHolder

LEMMA GrantInitMaps == CronInit => Lease!GrantInit
BY DEF CronInit, Lease!GrantInit, CronHolder, CronInside, LeaseKeys

LEMMA GrantStepMaps ==
  CronInv /\ [CronNext]_cronVars => [Lease!GrantNext]_(Lease!grantVars)
<1> SUFFICES ASSUME CronInv, [CronNext]_cronVars
             PROVE  [Lease!GrantNext]_(Lease!grantVars)
  OBVIOUS
<1> DEFINE Maps == [Lease!GrantNext]_(Lease!grantVars)
<1>0. CronTypeOK /\ NewIsIdle /\ CronKey \in LeaseKeys
  BY DEF CronInv, LeaseKeys
<1>1. ASSUME NEW k \in LeaseKeys, LeaseLapses(k) PROVE Maps
  <2>1. CronInside' = CronInside
    BY <1>1 DEF LeaseLapses, CronInside
  <2>2. CronHolder' \in {NoOwner, CronHolder}
    BY <1>0, <1>1 DEF LeaseLapses, CronHolder, CronTypeOK
  <2> QED BY <2>1, <2>2 DEF Lease!GrantNext, Lease!Lapse, Lease!grantVars
<1>2. ASSUME NEW o \in Owners, ServerStarts(o) PROVE Maps
  <2>1. \A p \in Owners, q \in CronRuns :
          (cronRun'[p][q] \in {"runs", "leaves"}) <=> (cronRun[p][q] \in {"runs", "leaves"})
    BY <1>0, <1>2 DEF ServerStarts, CronTypeOK, NewIsIdle
  <2>2. CronInside' = CronInside
    BY <2>1 DEF CronInside
  <2> QED BY <1>2, <2>2, HolderKept DEF ServerStarts, Lease!grantVars
<1>3. ASSUME NEW o \in Owners, ServerStops(o) PROVE Maps
  <2>1. \A p \in Owners, q \in CronRuns :
          (cronRun'[p][q] \in {"runs", "leaves"}) <=> (cronRun[p][q] \in {"runs", "leaves"})
    BY <1>0, <1>3 DEF ServerStops, CronTypeOK
  <2>2. CronInside' = CronInside
    BY <2>1 DEF CronInside
  <2> QED BY <1>3, <2>2, HolderKept DEF ServerStops, Lease!grantVars
<1>4. ASSUME NEW o \in Owners, ProcessEnds(o) PROVE Maps
  <2>1. \A p \in Owners, q \in CronRuns :
          (cronRun'[p][q] \in {"runs", "leaves"}) <=> (p # o /\ cronRun[p][q] \in {"runs", "leaves"})
    BY <1>0, <1>4 DEF ProcessEnds, CronTypeOK
  <2>2. CronInside' = {x \in CronInside : x[1] # o}
    BY <2>1 DEF CronInside
  <2>3. Lease!Vanish(o)
    BY <1>4, <2>2, HolderKept DEF ProcessEnds, Lease!Vanish
  <2> QED BY <2>3 DEF Lease!GrantNext
<1>5. ASSUME NEW o \in Owners, NEW r \in CronRuns, CronFires(o, r) PROVE Maps
  <2>1. CronInside' = CronInside
    BY <1>0, <1>5, InsideKept DEF CronFires, RunStates
  <2> QED BY <1>5, <2>1, HolderKept DEF CronFires, Lease!grantVars, leaseVars
<1>6. ASSUME NEW o \in Owners, NEW r \in CronRuns, CronAcquires(o, r) PROVE Maps
  <2>1. CronInside' = CronInside \union {<<o, r>>}
    BY <1>0, <1>6, InsideJoined DEF CronAcquires
  <2>2. CronHolder \in {NoOwner, o} /\ CronHolder' = o
    BY <1>0, <1>6 DEF CronAcquires, AcquireCronLease, LeaseFree, CronHolder, CronTypeOK
  <2>3. Lease!Grant(o, r)
    BY <2>1, <2>2 DEF Lease!Grant
  <2> QED BY <2>3 DEF Lease!GrantNext
<1>7. ASSUME NEW o \in Owners, NEW r \in CronRuns, CronSkips(o, r) PROVE Maps
  <2>1. CronInside' = CronInside
    BY <1>0, <1>7, AfterRunTyped, InsideKept DEF CronSkips, RunStates
  <2> QED BY <1>7, <2>1, HolderKept DEF CronSkips, Lease!grantVars, leaseVars
<1>8. ASSUME NEW o \in Owners, NEW r \in CronRuns, CronEnds(o, r) PROVE Maps
  <2>1. CronInside' = CronInside
    BY <1>0, <1>8, InsideKept DEF CronEnds, RunStates
  <2> QED BY <1>8, <2>1, HolderKept DEF CronEnds, Lease!grantVars, leaseVars
<1>9. ASSUME NEW o \in Owners, NEW r \in CronRuns, CronReleases(o, r) PROVE Maps
  <2>1. <<o, r>> \in CronInside /\ CronInside' = CronInside \ {<<o, r>>}
    BY <1>0, <1>9, AfterRunTyped, InsideLeft DEF CronReleases
  <2>2. CASE UNCHANGED leaseVars
    BY <2>1, <2>2, HolderKept DEF Lease!Leave, Lease!GrantNext
  <2>3. CASE ReleaseCronLease(CronKey, o)
    <3>1. \/ CronHolder' = CronHolder
          \/ CronHolder = o /\ CronHolder' = NoOwner
      BY <1>0, <2>3 DEF ReleaseCronLease, CronHolder, CronTypeOK
    <3> QED BY <2>1, <3>1 DEF Lease!Leave, Lease!GrantNext
  <2> QED BY <1>9, <2>2, <2>3 DEF CronReleases
<1>10. CASE UNCHANGED cronVars
  BY <1>10 DEF cronVars, CronInside, CronHolder, Lease!grantVars
<1> QED BY <1>1, <1>2, <1>3, <1>4, <1>5, <1>6, <1>7, <1>8, <1>9, <1>10 DEF CronNext, CronStep

\* The lease of a job implements the grant: a run starts only when nobody
\* holds the key any more or its own process does, and no run ends the hold
\* of another process, however many processes start, stop and die.
THEOREM CronImplementsGrant == CronSpec => LeaseGranted
<1>1. CronInv => CronTypeOK
  BY DEF CronInv
<1> QED BY GrantInitMaps, GrantStepMaps, CronInitInv, CronNextInv, PTL
        DEF CronSpec, LeaseGranted, Lease!GrantSpec
-----------------------------------------------------------------------------
(* The sessions of the copy worker *)

RobotsPcs == {"off", "start", "connect", "consume", "close", "closing", "sleep", "ended"}
TradingPcs == {"off", "start", "connect", "consume", "idle", "sleep", "ended"}
LinkStates == {"free", "connecting", "open", "failed", "draining", "closed"}
SomeLink == Links \cup {NoLink}

FlagsTyped == server \in BOOLEAN /\ robotsStop \in BOOLEAN /\ tradingStop \in BOOLEAN /\ subscribedLate \in BOOLEAN
LinksTyped == link \in [Links -> LinkStates] /\ promise \in SomeLink /\ closing \in SomeLink
SubscribersTyped ==
  robots \in [pc : RobotsPcs, link : SomeLink] /\ trading \in [pc : TradingPcs, link : SomeLink]
QueueBounded ==
  pending \in Nat /\ inFlight \in Nat /\ pending + inFlight <= QueueLimit /\ inFlight <= QueueWorkers
StopTyped ==
  /\ loops \in [Loops -> {"off", "timer", "runs", "ended"}]
  /\ shutdown \in {"no", "loops", "trading", "robots", "exited"}
SessionInv == FlagsTyped /\ LinksTyped /\ SubscribersTyped /\ QueueBounded /\ StopTyped

LEMMA SessionInitInv == SessionInit => SessionInv
<1> SUFFICES ASSUME SessionInit PROVE SessionInv
  OBVIOUS
<1>1. 0 \in Nat /\ 0 <= QueueLimit /\ 0 <= QueueWorkers
  BY DispatchQueueAssumption
<1>2. pending = 0 /\ inFlight = 0
  BY DEF SessionInit
<1>3. QueueBounded
  BY <1>1, <1>2, DispatchQueueAssumption DEF QueueBounded
<1>4. FlagsTyped /\ StopTyped
  BY DEF SessionInit, FlagsTyped, StopTyped
<1>5. LinksTyped /\ SubscribersTyped
  BY DEF SessionInit, LinksTyped, SubscribersTyped, LinkStates, SomeLink, RobotsPcs, TradingPcs
<1> QED BY <1>3, <1>4, <1>5 DEF SessionInv

\* A connection that is drawn is the one that was promised, or one that nobody uses.
LEMMA DrawsTyped ==
  ASSUME LinksTyped, SubscribersTyped, NEW p \in SomeLink, Draws(p)
  PROVE  Drawn(p) \in Links /\ promise' \in SomeLink /\ link' \in [Links -> LinkStates]
<1>1. closing \in SomeLink /\ robots.link \in SomeLink /\ trading.link \in SomeLink
  BY DEF LinksTyped, SubscribersTyped
<1>2. \E l \in Links : l \notin {closing, robots.link, trading.link}
  BY <1>1, LinksAssumption DEF SomeLink
<1>3. Drawn(p) \in Links
  BY <1>2 DEF Drawn, SomeLink
<1> QED BY <1>3 DEF Draws, LinksTyped, LinkStates, SomeLink

LEMMA LinksKeepTypes ==
  ASSUME SessionInv, ServerGoes \/ ServerReturns \/ WorkerPublishes \/ LinkSteps \/ \E l \in Links : LinkCloses(l)
  PROVE  SessionInv'
<1> USE DEF SessionInv, LinkVars, QueueVars, StopVars
<1>1. CASE ServerGoes \/ ServerReturns
  BY <1>1 DEF ServerGoes, ServerReturns, FlagsTyped, LinksTyped, SubscribersTyped, QueueBounded, StopTyped
<1>2. UNCHANGED <<robots, trading, QueueVars, StopVars>> => SubscribersTyped' /\ QueueBounded' /\ StopTyped'
  BY DEF SubscribersTyped, QueueBounded, StopTyped
<1>3. CASE WorkerPublishes
  <2>1. promise \in SomeLink /\ Draws(promise)
    BY <1>3 DEF WorkerPublishes, LinksTyped
  <2>2. LinksTyped'
    BY <1>3, <2>1, DrawsTyped DEF WorkerPublishes, LinksTyped
  <2> QED BY <1>2, <1>3, <2>2 DEF WorkerPublishes, FlagsTyped
<1>4. CASE CloseDrains \/ CloseEnds
  <2>1. LinksTyped'
    BY <1>4 DEF CloseDrains, CloseEnds, LinksTyped, LinkStates, SomeLink
  <2> QED BY <1>2, <1>4, <2>1 DEF CloseDrains, CloseEnds, FlagsTyped
<1>5. ASSUME NEW l \in Links, Connects(l) \/ LinkCloses(l) PROVE SessionInv'
  <2>1. LinksTyped'
    BY <1>5 DEF Connects, LinkCloses, LinksTyped, LinkStates
  <2> QED BY <1>2, <1>5, <2>1 DEF Connects, LinkCloses, FlagsTyped
<1> QED BY <1>1, <1>3, <1>4, <1>5 DEF LinkSteps

LEMMA RobotsKeepTypes ==
  ASSUME SessionInv, RobotsSteps PROVE SessionInv'
<1> USE DEF LinkVars, QueueVars, StopVars
<1>1. UNCHANGED <<server, trading, QueueVars, StopVars, subscribedLate>>
  BY DEF RobotsSteps, RobotsConnect, RobotsSubscribe, RobotsSessionEnds, RobotsClose, RobotsSleep, RobotsWake
<1>2. FlagsTyped' /\ QueueBounded' /\ StopTyped'
  BY <1>1 DEF SessionInv, FlagsTyped, QueueBounded, StopTyped
<1>3. ASSUME NEW pc \in RobotsPcs, NEW l \in SomeLink, RobotsStep(pc, l), LinksTyped' PROVE SessionInv'
  <2>1. SubscribersTyped'
    BY <1>1, <1>3 DEF RobotsStep, SessionInv, SubscribersTyped
  <2> QED BY <1>2, <1>3, <2>1 DEF SessionInv
<1>4. NoLink \in SomeLink /\ robots.link \in SomeLink
  BY DEF SomeLink, SessionInv, SubscribersTyped
<1>5. CASE RobotsConnect
  <2>1. CASE robotsStop
    BY <1>3, <1>4, <1>5, <2>1 DEF RobotsConnect, RobotsPcs, SessionInv, LinksTyped
  <2>2. CASE ~robotsStop
    <3>1. Draws(NoLink) /\ RobotsStep("connect", Drawn(NoLink)) /\ closing' = closing
      BY <1>5, <2>2 DEF RobotsConnect
    <3>2. Drawn(NoLink) \in SomeLink /\ LinksTyped'
      BY <1>4, <3>1, DrawsTyped DEF SessionInv, LinksTyped, SomeLink
    <3>3. "connect" \in RobotsPcs
      BY DEF RobotsPcs
    <3> QED BY <1>3, <3>1, <3>2, <3>3
  <2> QED BY <2>1, <2>2
<1>6. CASE RobotsSubscribe \/ RobotsSessionEnds \/ RobotsSleep \/ RobotsWake
  <2>1. LinksTyped'
    BY <1>6 DEF RobotsSubscribe, RobotsSessionEnds, RobotsSleep, RobotsWake, SessionInv, LinksTyped
  <2>2. \E pc \in RobotsPcs, l \in {NoLink, robots.link} : RobotsStep(pc, l)
    BY <1>6 DEF RobotsSubscribe, RobotsSessionEnds, RobotsSleep, RobotsWake, RobotsPcs
  <2> QED BY <1>3, <1>4, <2>1, <2>2
<1>7. CASE RobotsClose
  <2>1. LinksTyped' /\ RobotsStep("closing", NoLink)
    BY <1>7 DEF RobotsClose, SessionInv, LinksTyped
  <2> QED BY <1>3, <1>4, <2>1 DEF RobotsPcs
<1> QED BY <1>5, <1>6, <1>7 DEF RobotsSteps

LEMMA TradingKeepsTypes ==
  ASSUME SessionInv, TradingSteps PROVE SessionInv'
<1> USE DEF LinkVars, QueueVars, StopVars
<1>1. UNCHANGED <<server, robots, QueueVars, StopVars>>
  BY DEF TradingSteps, TradingConnect, TradingSubscribe, TradingSessionEnds, TradingIdle, TradingWake
<1>2. subscribedLate' \in BOOLEAN
  BY DEF TradingSteps, TradingConnect, TradingSubscribe, TradingSessionEnds, TradingIdle, TradingWake, SessionInv,
         FlagsTyped
<1>3. FlagsTyped' /\ QueueBounded' /\ StopTyped'
  BY <1>1, <1>2 DEF SessionInv, FlagsTyped, QueueBounded, StopTyped
<1>4. ASSUME NEW pc \in TradingPcs, NEW l \in SomeLink, TradingStep(pc, l), LinksTyped' PROVE SessionInv'
  <2>1. SubscribersTyped'
    BY <1>1, <1>4 DEF TradingStep, SessionInv, SubscribersTyped
  <2> QED BY <1>3, <1>4, <2>1 DEF SessionInv
<1>5. NoLink \in SomeLink /\ trading.link \in SomeLink /\ {"ended", "sleep", "connect", "idle", "start"} \subseteq TradingPcs
  BY DEF SomeLink, SessionInv, SubscribersTyped, TradingPcs
<1>6. CASE TradingOver /\ LinksTyped'
  BY <1>4, <1>5, <1>6 DEF TradingOver
<1>7. CASE TradingConnect
  <2>1. CASE tradingStop
    <3>1. TradingOver /\ LinksTyped'
      BY <1>7, <2>1 DEF TradingConnect, SessionInv, LinksTyped
    <3> QED BY <1>6, <3>1
  <2>2. CASE ~tradingStop
    <3>1. Draws(promise) /\ TradingStep("connect", Drawn(promise)) /\ closing' = closing /\ promise \in SomeLink
      BY <1>7, <2>2 DEF TradingConnect, SessionInv, LinksTyped
    <3>2. Drawn(promise) \in SomeLink /\ LinksTyped'
      BY <3>1, DrawsTyped DEF SessionInv, LinksTyped, SomeLink
    <3> QED BY <1>4, <1>5, <3>1, <3>2
  <2> QED BY <2>1, <2>2
<1>8. CASE TradingSubscribe
  <2>1. LinksTyped'
    BY <1>5, <1>8 DEF TradingSubscribe, SessionInv, LinksTyped
  <2>2. TradingOver \/ TradingStep("consume", trading.link)
    BY <1>8 DEF TradingSubscribe
  <2> QED BY <1>4, <1>5, <1>6, <2>1, <2>2 DEF TradingPcs
<1>9. CASE TradingSessionEnds \/ TradingIdle \/ TradingWake
  <2>1. LinksTyped'
    BY <1>9 DEF TradingSessionEnds, TradingIdle, TradingWake, SessionInv, LinksTyped
  <2>2. TradingOver \/ TradingStep("idle", trading.link) \/ TradingStep("start", NoLink)
    BY <1>9 DEF TradingSessionEnds, TradingIdle, TradingWake
  <2> QED BY <1>4, <1>5, <1>6, <2>1, <2>2
<1> QED BY <1>7, <1>8, <1>9 DEF TradingSteps

\* A message is accepted while the queue has room, and runs at once only when a worker is free.
LEMMA QueueStaysBounded ==
  ASSUME SessionInv, TradingMessage \/ TaskEnds PROVE SessionInv'
<1> USE DEF LinkVars, QueueVars, StopVars
<1>1. UNCHANGED <<server, link, promise, closing, robots, loops, shutdown, robotsStop, tradingStop, subscribedLate>>
  BY DEF TradingMessage, TaskEnds
<1>2. QueueBounded'
  BY DispatchQueueAssumption DEF TradingMessage, TaskEnds, Accepts, SessionInv, QueueBounded
<1>3. SubscribersTyped'
  BY DEF TradingMessage, TaskEnds, TradingStep, SessionInv, SubscribersTyped, TradingPcs
<1> QED BY <1>1, <1>2, <1>3 DEF SessionInv, FlagsTyped, LinksTyped, StopTyped

LEMMA WorkerKeepsTypes ==
  ASSUME SessionInv,
         WorkerStarts \/ ShutdownBegins \/ ShutdownSteps \/ \E x \in Loops : LoopRuns(x) \/ LoopEnds(x)
  PROVE  SessionInv'
<1> USE DEF LinkVars, QueueVars, StopVars, ShutdownSteps
<1>1. UNCHANGED <<server, link, promise, pending, inFlight, subscribedLate>>
  BY DEF WorkerStarts, ShutdownBegins, ShutdownTrading, ShutdownRobots, ShutdownExits, LoopRuns, LoopEnds
<1>2. LinksTyped'
  BY <1>1 DEF WorkerStarts, ShutdownBegins, ShutdownTrading, ShutdownRobots, ShutdownExits, LoopRuns, LoopEnds,
              SessionInv, LinksTyped
<1>3. SubscribersTyped'
  BY DEF WorkerStarts, ShutdownBegins, ShutdownTrading, ShutdownRobots, ShutdownExits, LoopRuns, LoopEnds,
         SessionInv, SubscribersTyped, RobotsPcs, TradingPcs
<1>4. FlagsTyped'
  BY <1>1 DEF WorkerStarts, ShutdownBegins, ShutdownTrading, ShutdownRobots, ShutdownExits, LoopRuns, LoopEnds,
              SessionInv, FlagsTyped
<1>5. StopTyped'
  BY DEF WorkerStarts, ShutdownBegins, ShutdownTrading, ShutdownRobots, ShutdownExits, LoopRuns, LoopEnds,
         SessionInv, StopTyped
<1> QED BY <1>1, <1>2, <1>3, <1>4, <1>5 DEF SessionInv, QueueBounded

LEMMA SessionNextInv == SessionInv /\ [SessionNext]_sessionVars => SessionInv'
<1> SUFFICES ASSUME SessionInv, [SessionNext]_sessionVars PROVE SessionInv'
  OBVIOUS
<1>1. CASE UNCHANGED sessionVars
  BY <1>1 DEF sessionVars, SessionInv, FlagsTyped, LinksTyped, SubscribersTyped, QueueBounded, StopTyped
<1> QED
  BY <1>1, LinksKeepTypes, RobotsKeepTypes, TradingKeepsTypes, QueueStaysBounded, WorkerKeepsTypes DEF SessionNext

LEMMA SessionTypes == SessionInv => SessionTypeOK
BY DEF SessionInv, SessionTypeOK, FlagsTyped, LinksTyped, SubscribersTyped, QueueBounded, StopTyped, LinkStates,
       SomeLink, RobotsPcs, TradingPcs

\* The sessions, connections and loops of the worker keep their types, and its queue its bounds, however
\* the server comes and goes and both subscribers take each other's connection away.
THEOREM SessionsTyped == SessionSpec => []SessionTypeOK
BY SessionTypes, SessionInitInv, SessionNextInv, PTL DEF SessionSpec
-----------------------------------------------------------------------------
(* The jobs of the analyses, and the calls that create them *)

Statuses == {"PENDING", "RUNNING", "ENDED"}
Held == {"PENDING", "RUNNING"}
JobState == [wallet : Wallets, status : Statuses, active : BOOLEAN, late : BOOLEAN]
JobsTyped == jobs \in Seq(JobState) /\ \A j \in JobIds : jobs[j].active <=> jobs[j].status \in Held
ListsTyped ==
  /\ aged \subseteq JobIds
  /\ queueOn \subseteq Owners /\ wake \subseteq Owners /\ running \subseteq Owners
  /\ starting \subseteq Owners /\ unstarted \subseteq Owners
  /\ doubled \subseteq Owners /\ lost \subseteq Owners
  /\ asking \in [Owners -> Wallets \union {NoWallet}]

\* Every job, and every call that is about to create one, was asked for.
Askers == {o \in Owners : asking[o] # NoWallet}
AskedFor == asks \in Nat /\ asks <= MaxAsks /\ Len(jobs) + Cardinality(Askers) <= asks

JobsInv == CronInv /\ JobsTyped /\ ListsTyped /\ AskedFor

LEMMA AskersCount == Cardinality(Askers) \in Nat /\ IsFiniteSet(Askers)
BY QueueAssumption, FS_Subset, FS_CardinalityType DEF Askers

LEMMA JobsInitInv == QueueInit => JobsInv
<1> SUFFICES ASSUME QueueInit PROVE JobsInv
  OBVIOUS
<1>1. CronInv /\ JobsTyped
  BY CronInitInv DEF QueueInit, JobsTyped, JobIds
<1>2. ListsTyped
  BY DEF QueueInit, ListsTyped
<1>3. Askers = {} /\ Len(jobs) = 0 /\ asks = 0
  BY DEF QueueInit, Askers
<1>4. AskedFor
  BY <1>3, FS_EmptySet, QueueAssumption DEF AskedFor
<1> QED BY <1>1, <1>2, <1>4 DEF JobsInv

LEMMA SeqItems ==
  ASSUME NEW T, NEW s \in Seq(T)
  PROVE  Len(s) \in Nat /\ s \in [1 .. Len(s) -> T]
OBVIOUS

LEMMA IsASeq ==
  ASSUME NEW T, NEW m \in Nat, NEW s \in [1 .. m -> T]
  PROVE  s \in Seq(T) /\ Len(s) = m
OBVIOUS

\* Some jobs get another status, and the active key that goes with it.
LEMMA JobsRewritten ==
  ASSUME JobsTyped, NEW S, NEW st \in Statuses, NEW act \in BOOLEAN, act <=> st \in Held,
         jobs' = [j \in JobIds |-> IF j \in S THEN [jobs[j] EXCEPT !.status = st, !.active = act] ELSE jobs[j]]
  PROVE  JobsTyped' /\ Len(jobs') = Len(jobs)
<1> DEFINE n == Len(jobs)
<1>1. jobs \in Seq(JobState)
  BY DEF JobsTyped
<1>2. n \in Nat /\ jobs \in [JobIds -> JobState]
  BY <1>1, SeqItems DEF JobIds
<1>3. ASSUME NEW j \in JobIds PROVE jobs'[j] \in JobState /\ (jobs'[j].active <=> jobs'[j].status \in Held)
  <2>1. jobs[j] \in JobState /\ (jobs[j].active <=> jobs[j].status \in Held)
    BY <1>2 DEF JobsTyped
  <2>2. CASE j \in S
    <3>1. jobs'[j] = [jobs[j] EXCEPT !.status = st, !.active = act]
      BY <2>2
    <3>2. jobs'[j] = [wallet |-> jobs[j].wallet, status |-> st, active |-> act, late |-> jobs[j].late]
      BY <2>1, <3>1 DEF JobState
    <3> QED BY <2>1, <3>2 DEF JobState
  <2>3. CASE j \notin S
    <3>1. jobs'[j] = jobs[j]
      BY <2>3
    <3> QED BY <2>1, <3>1
  <2> QED BY <2>2, <2>3
<1>4. jobs' \in [1 .. n -> JobState]
  BY <1>3 DEF JobIds
<1> HIDE DEF n
<1>5. jobs' \in Seq(JobState) /\ Len(jobs') = n
  BY <1>2, <1>4, IsASeq
<1>6. Len(jobs') = Len(jobs)
  BY <1>5 DEF n
<1> QED BY <1>3, <1>5, <1>6 DEF JobsTyped, JobIds

LEMMA JobSet ==
  ASSUME JobsTyped, NEW j, NEW st \in Statuses, SetJob(j, st)
  PROVE  JobsTyped' /\ Len(jobs') = Len(jobs)
<1>1. jobs \in Seq(JobState) /\ DOMAIN jobs = JobIds
  BY DEF JobsTyped, JobIds
<1>2. jobs' = [jobs EXCEPT ![j] = [jobs[j] EXCEPT !.status = st, !.active = st \in Held]]
  BY <1>1 DEF SetJob, Held
<1>3. jobs' = [i \in JobIds |-> IF i \in {j} THEN [jobs[i] EXCEPT !.status = st, !.active = st \in Held] ELSE jobs[i]]
  BY <1>1, <1>2
<1>4. (st \in Held) \in BOOLEAN
  OBVIOUS
<1> QED BY <1>3, <1>4, JobsRewritten

\* The jobs keep their number, and nobody calls.
LEMMA JobsKeep ==
  ASSUME JobsInv, CronInv', JobsTyped', Len(jobs') = Len(jobs), UNCHANGED <<asking, asks>>,
         aged' \subseteq JobIds, queueOn' \subseteq Owners, wake' \subseteq Owners, running' \subseteq Owners,
         starting' \subseteq Owners, unstarted' \subseteq Owners,
         doubled' \subseteq Owners, lost' \subseteq Owners
  PROVE  JobsInv'
<1>1. JobIds' = JobIds /\ Askers' = Askers
  BY DEF JobIds, Askers
<1> QED BY <1>1 DEF JobsInv, ListsTyped, AskedFor

LEMMA CronStays ==
  ASSUME CronInv, UNCHANGED <<procUp, cronRun>>, PassTypeOK' PROVE CronInv'
BY DEF CronInv, CronTypeOK, NewIsIdle, PassTypeOK

LEMMA ScheduleTyped ==
  ASSUME JobsInv, NEW o \in Owners, Schedule(o) PROVE wake' \subseteq Owners
BY DEF Schedule, JobsInv, ListsTyped

LEMMA EnqueueKeepsJobs ==
  ASSUME JobsInv, CronInv', NEW o \in Owners,
         EnqueueCreates(o) \/ \E w \in Wallets : EnqueueReads(o, w)
  PROVE  JobsInv'
<1>1. JobsTyped /\ ListsTyped /\ AskedFor /\ Len(jobs) \in Nat /\ Cardinality(Askers) \in Nat /\ IsFiniteSet(Askers)
  BY AskersCount DEF JobsInv, JobsTyped
<1>2. /\ UNCHANGED <<aged, queueOn, running, doubled, lost>>
      /\ starting' \subseteq Owners /\ unstarted' \subseteq Owners
  BY <1>1 DEF EnqueueCreates, EnqueueReads, Wakes, ListsTyped, startVars
<1>3. CASE EnqueueCreates(o)
  <2>1. asking[o] # NoWallet /\ asking' = [asking EXCEPT ![o] = NoWallet] /\ asks' = asks /\ Schedule(o)
    BY <1>3 DEF EnqueueCreates, Wakes
  <2>2. asking[o] \in Wallets /\ o \in Askers /\ Askers' = Askers \ {o}
    BY <1>1, <2>1 DEF ListsTyped, Askers
  <2>3. Cardinality(Askers') = Cardinality(Askers) - 1
    BY <1>1, <2>2, FS_RemoveElement
  <2>4. JobsTyped' /\ Len(jobs') \in {Len(jobs), Len(jobs) + 1}
    <3>1. CASE jobs' = jobs
      BY <1>1, <3>1 DEF JobsTyped, JobIds
    <3>2. CASE jobs' = Append(jobs, [wallet |-> asking[o], status |-> "PENDING", active |-> TRUE,
                                       late |-> o \notin queueOn])
      <4> DEFINE x == [wallet |-> asking[o], status |-> "PENDING", active |-> TRUE, late |-> o \notin queueOn]
      <4>1. x \in JobState /\ x.active /\ x.status \in Held
        BY <2>2 DEF JobState, Statuses, Held
      <4>2. jobs' = Append(jobs, x)
        BY <3>2
      <4> HIDE DEF x
      <4>3. /\ jobs' \in Seq(JobState) /\ Len(jobs') = Len(jobs) + 1
            /\ \A i \in 1 .. Len(jobs') : jobs'[i] = IF i = Len(jobs) + 1 THEN x ELSE jobs[i]
        BY <1>1, <4>1, <4>2 DEF JobsTyped
      <4> QED BY <1>1, <4>1, <4>3 DEF JobsTyped, JobIds
    <3> QED BY <1>3, <3>1, <3>2 DEF EnqueueCreates
  <2>5. aged' \subseteq JobIds' /\ asking' \in [Owners -> Wallets \union {NoWallet}]
    BY <1>1, <1>2, <2>1, <2>4 DEF ListsTyped, JobIds
  <2>6. ListsTyped'
    BY <1>1, <1>2, <2>1, <2>5, ScheduleTyped DEF ListsTyped
  <2>7. AskedFor'
    BY <1>1, <2>1, <2>3, <2>4 DEF AskedFor
  <2> QED BY <2>4, <2>6, <2>7 DEF JobsInv
<1>4. ASSUME NEW w \in Wallets, EnqueueReads(o, w) PROVE JobsInv'
  <2>1. asks' = asks + 1 /\ asks < MaxAsks /\ jobs' = jobs /\ asking' \in {asking, [asking EXCEPT ![o] = w]}
    BY <1>4 DEF EnqueueReads
  <2>2. wake' \subseteq Owners
    BY <1>1, <1>4, ScheduleTyped DEF EnqueueReads, Wakes, ListsTyped
  <2>3. Askers' \subseteq Askers \cup {o} /\ asking' \in [Owners -> Wallets \union {NoWallet}]
    BY <1>1, <2>1 DEF Askers, ListsTyped
  <2>4. Cardinality(Askers') \in Nat /\ Cardinality(Askers') <= Cardinality(Askers) + 1
    <3>1. IsFiniteSet(Askers \cup {o}) /\ Cardinality(Askers \cup {o}) <= Cardinality(Askers) + 1
      <4>1. CASE o \in Askers
        <5>1. Askers \cup {o} = Askers
          BY <4>1
        <5>2. Cardinality(Askers) <= Cardinality(Askers) + 1
          BY <1>1
        <5> QED BY <1>1, <5>1, <5>2
      <4>2. CASE o \notin Askers
        <5>1. IsFiniteSet(Askers \cup {o}) /\ Cardinality(Askers \cup {o}) = Cardinality(Askers) + 1
          BY <1>1, <4>2, FS_AddElement
        <5>2. Cardinality(Askers) + 1 <= Cardinality(Askers) + 1
          BY <1>1
        <5> QED BY <5>1, <5>2
      <4> QED BY <4>1, <4>2
    <3>2. Cardinality(Askers') <= Cardinality(Askers \cup {o}) /\ IsFiniteSet(Askers')
      BY <2>3, <3>1, FS_Subset
    <3>3. Cardinality(Askers \cup {o}) \in Nat /\ Cardinality(Askers') \in Nat
      BY <3>1, <3>2, FS_CardinalityType
    <3> QED BY <1>1, <3>1, <3>2, <3>3
  <2>5. AskedFor'
    BY <1>1, <2>1, <2>4, QueueAssumption DEF AskedFor
  <2>6. ListsTyped' /\ JobsTyped'
    BY <1>1, <1>2, <2>1, <2>2, <2>3 DEF ListsTyped, JobsTyped, JobIds
  <2> QED BY <2>5, <2>6 DEF JobsInv
<1> QED BY <1>3, <1>4

LEMMA EndKeepsJobs ==
  ASSUME JobsInv, CronInv', NEW o \in Owners, QueueEnds(o) PROVE JobsInv'
<1>1. /\ UNCHANGED <<jobs, aged, asks, doubled, lost>> /\ asking' = [asking EXCEPT ![o] = NoWallet]
      /\ queueOn' = queueOn \ {o} /\ wake' = wake \ {o} /\ running' = running \ {o}
      /\ starting' = starting \ {o} /\ unstarted' = unstarted \ {o}
  BY DEF QueueEnds
<1>2. JobsTyped' /\ ListsTyped' /\ Askers' \subseteq Askers
  BY <1>1 DEF JobsInv, JobsTyped, ListsTyped, JobIds, Askers
<1>3. IsFiniteSet(Askers) /\ Cardinality(Askers) \in Nat
  BY AskersCount
<1>4. Cardinality(Askers') <= Cardinality(Askers) /\ Cardinality(Askers') \in Nat
  BY <1>2, <1>3, FS_Subset, FS_CardinalityType
<1>5. Len(jobs) \in Nat
  BY DEF JobsInv, JobsTyped
<1>6. AskedFor'
  BY <1>1, <1>3, <1>4, <1>5, QueueAssumption DEF JobsInv, AskedFor
<1> QED BY <1>2, <1>6 DEF JobsInv

LEMMA PassKeepsJobs ==
  ASSUME JobsInv, CronInv', NEW o \in Owners, NEW s \in Passes, PassStep(o, s) PROVE JobsInv'
<1>1. JobsTyped /\ ListsTyped /\ UNCHANGED <<aged, queueOn, starting, unstarted, asking, asks>>
  BY DEF JobsInv, PassStep, WakeFires, LooksBusy, AcquireRun, FindNext, ClaimJob, Analyzed, ReleaseRun, startVars
<1>2. running' \subseteq Owners /\ doubled' \subseteq Owners /\ lost' \subseteq Owners
  BY <1>1 DEF ListsTyped, PassStep, WakeFires, LooksBusy, AcquireRun, FindNext, ClaimJob, Analyzed, ReleaseRun
<1>3. wake' \subseteq Owners
  <2>1. Schedule(o) \/ wake' \subseteq wake
    BY DEF PassStep, WakeFires, LooksBusy, AcquireRun, FindNext, ClaimJob, Analyzed, ReleaseRun
  <2> QED BY <1>1, <2>1, ScheduleTyped DEF ListsTyped
<1>4. JobsTyped' /\ Len(jobs') = Len(jobs)
  <2>1. CASE UNCHANGED jobs
    BY <1>1, <2>1 DEF JobsTyped, JobIds
  <2>2. CASE ExpireOldPending
    <3> DEFINE S == {j \in JobIds : j \in aged /\ jobs[j].status = "PENDING"}
    <3>1. jobs' = [j \in JobIds |-> IF j \in S THEN [jobs[j] EXCEPT !.status = "ENDED", !.active = FALSE] ELSE jobs[j]]
      BY <2>2 DEF ExpireOldPending
    <3>2. "ENDED" \in Statuses /\ "ENDED" \notin Held /\ FALSE \in BOOLEAN
      BY DEF Statuses, Held
    <3> HIDE DEF S
    <3> QED BY <1>1, <3>1, <3>2, JobsRewritten
  <2>3. ASSUME NEW j, NEW st \in {"RUNNING", "ENDED"}, SetJob(j, st) PROVE JobsTyped' /\ Len(jobs') = Len(jobs)
    BY <1>1, <2>3, JobSet DEF Statuses
  <2> QED BY <2>1, <2>2, <2>3 DEF PassStep, WakeFires, LooksBusy, AcquireRun, FindNext, ClaimJob, Analyzed, ReleaseRun
<1> QED BY <1>1, <1>2, <1>3, <1>4, JobsKeep DEF ListsTyped

LEMMA ActiveFailed ==
  ASSUME JobsTyped, FailActive \/ UNCHANGED jobs PROVE JobsTyped' /\ Len(jobs') = Len(jobs)
<1>1. CASE UNCHANGED jobs
  BY <1>1 DEF JobsTyped, JobIds
<1>2. CASE FailActive
  <2>1. jobs' = [j \in JobIds |-> IF j \in ActiveJobs THEN [jobs[j] EXCEPT !.status = "ENDED", !.active = FALSE]
                                  ELSE jobs[j]]
    BY <1>2 DEF FailActive
  <2>2. "ENDED" \in Statuses /\ "ENDED" \notin Held /\ FALSE \in BOOLEAN
    BY DEF Statuses, Held
  <2> QED BY <2>1, <2>2, JobsRewritten
<1> QED BY <1>1, <1>2

LEMMA StartKeepsJobs ==
  ASSUME JobsInv, CronInv', NEW o \in Owners,
         QueueStarts(o) \/ StartEnds(o) \/ StartThrows(o) \/ QueueStops(o)
  PROVE  JobsInv'
<1>1. JobsTyped /\ ListsTyped
  BY DEF JobsInv
<1>2. UNCHANGED <<aged, running, asking, asks, doubled, lost>> /\ queueOn' \subseteq Owners
  BY <1>1 DEF QueueStarts, StartEnds, StartThrows, QueueStops, ListsTyped
<1>3. starting' \subseteq Owners /\ unstarted' \subseteq Owners
  BY <1>1 DEF QueueStarts, StartEnds, StartThrows, QueueStops, startVars, ListsTyped
<1>4. wake' \subseteq Owners
  BY <1>1, ScheduleTyped DEF QueueStarts, StartEnds, StartThrows, QueueStops, ListsTyped
<1>5. JobsTyped' /\ Len(jobs') = Len(jobs)
  <2>1. FailActive \/ UNCHANGED jobs
    BY DEF QueueStarts, StartEnds, StartThrows, QueueStops
  <2> QED BY <1>1, <2>1, ActiveFailed
<1> QED BY <1>1, <1>2, <1>3, <1>4, <1>5, JobsKeep DEF ListsTyped

LEMMA QuietKeepsJobs ==
  ASSUME JobsInv, CronInv', UNCHANGED <<jobs, queueOn, starting, unstarted, wake, running, asking, asks, doubled>>,
         aged' \subseteq JobIds, lost' \subseteq Owners
  PROVE  JobsInv'
<1>1. JobsTyped' /\ Len(jobs') = Len(jobs)
  BY DEF JobsInv, JobsTyped, JobIds
<1> QED BY <1>1, JobsKeep DEF JobsInv, ListsTyped

LEMMA JobsNextInv == QueueInv /\ JobsInv /\ [QueueNext]_queueVars => JobsInv'
<1> SUFFICES ASSUME QueueInv, JobsInv, [QueueNext]_queueVars PROVE JobsInv'
  OBVIOUS
<1>1. PassTypeOK' /\ CronInv /\ ListsTyped
  BY QueueNextInv DEF QueueInv, JobsInv
<1>2. ASSUME NEW k \in LeaseKeys, QueueLapses(k) PROVE JobsInv'
  <2>1. LeaseLapses(k) /\ leaseOwner[k] \in Owners /\ UNCHANGED <<jobs, aged, queueOn, starting, unstarted, wake, running, asking, asks, doubled>>
    BY <1>1, <1>2 DEF QueueLapses, LeaseLapses, startVars, CronInv, CronTypeOK
  <2>2. CronInv'
    BY <1>1, <2>1, CronStays DEF LeaseLapses
  <2>3. lost' \subseteq Owners /\ aged' \subseteq JobIds
    BY <1>1, <1>2, <2>1 DEF QueueLapses, ListsTyped
  <2> QED BY <2>1, <2>2, <2>3, QuietKeepsJobs
<1>3. ASSUME NEW o \in Owners, UNCHANGED queueOnlyVars,
             \/ ServerStarts(o)
             \/ \E r \in CronRuns : \/ CronFires(o, r) \/ CronAcquires(o, r) \/ CronSkips(o, r)
                                    \/ CronEnds(o, r) \/ CronReleases(o, r)
      PROVE  JobsInv'
  <2>1. CronInv'
    BY <1>1, <1>3, CronNextInv DEF CronNext, CronStep
  <2>2. UNCHANGED <<jobs, aged, queueOn, starting, unstarted, wake, running, asking, asks, doubled, lost>>
    BY <1>3 DEF queueOnlyVars, startVars
  <2> QED BY <1>1, <2>1, <2>2, QuietKeepsJobs DEF ListsTyped
<1>4. ASSUME NEW o \in Owners, QueueEnds(o) PROVE JobsInv'
  <2>1. CronInv'
    BY <1>1, <1>4, CronNextInv DEF QueueEnds, CronNext
  <2> QED BY <1>4, <2>1, EndKeepsJobs
<1>5. ASSUME NEW o \in Owners, QueueStops(o) PROVE JobsInv'
  <2>1. CronInv'
    BY <1>1, <1>5, CronNextInv DEF QueueStops, CronNext, CronStep
  <2> QED BY <1>5, <2>1, StartKeepsJobs
<1>6. ASSUME NEW o \in Owners, QueueStarts(o) \/ StartEnds(o) \/ StartThrows(o) PROVE JobsInv'
  <2>1. CronInv'
    BY <1>1, <1>6, CronStays DEF QueueStarts, StartEnds, StartThrows, cronVars
  <2> QED BY <1>6, <2>1, StartKeepsJobs
<1>7. ASSUME NEW o \in Owners, EnqueueCreates(o) \/ \E w \in Wallets : EnqueueReads(o, w) PROVE JobsInv'
  <2>1. CronInv'
    BY <1>1, <1>7, CronStays DEF EnqueueCreates, EnqueueReads, cronVars
  <2> QED BY <1>7, <2>1, EnqueueKeepsJobs
<1>8. ASSUME NEW o \in Owners, NEW s \in Passes, PassStep(o, s) PROVE JobsInv'
  <2>1. UNCHANGED <<procUp, cronRun>>
    BY <1>8 DEF PassStep, WakeFires, LooksBusy, AcquireRun, FindNext, ClaimJob, Analyzed, ReleaseRun, cronVars
  <2>2. CronInv'
    BY <1>1, <2>1, CronStays
  <2> QED BY <1>8, <2>2, PassKeepsJobs
<1>9. ASSUME NEW j \in JobIds, JobAges(j) PROVE JobsInv'
  <2>1. CronInv'
    BY <1>1, <1>9, CronStays DEF JobAges, cronVars
  <2>2. UNCHANGED <<jobs, queueOn, starting, unstarted, wake, running, asking, asks, doubled, lost>> /\ aged' \subseteq JobIds
    BY <1>1, <1>9 DEF JobAges, startVars, ListsTyped
  <2> QED BY <1>1, <2>1, <2>2, QuietKeepsJobs DEF ListsTyped
<1>10. CASE UNCHANGED queueVars
  <2>1. CronInv'
    BY <1>1, <1>10, CronStays DEF queueVars
  <2>2. UNCHANGED <<jobs, aged, queueOn, starting, unstarted, wake, running, asking, asks, doubled, lost>>
    BY <1>10 DEF queueVars
  <2> QED BY <1>1, <2>1, <2>2, QuietKeepsJobs DEF ListsTyped
<1> QED BY <1>2, <1>3, <1>4, <1>5, <1>6, <1>7, <1>8, <1>9, <1>10 DEF QueueNext, QueueNextOf

LEMMA JobsTypes == JobsInv => QueueTypeOK
<1> SUFFICES ASSUME JobsInv PROVE QueueTypeOK
  OBVIOUS
<1>1. Len(jobs) \in Nat /\ Cardinality(Askers) \in Nat /\ DOMAIN jobs = JobIds
  BY AskersCount DEF JobsInv, JobsTyped, JobIds
<1>2. Len(jobs) <= MaxAsks
  BY <1>1, QueueAssumption DEF JobsInv, AskedFor
<1>3. ASSUME NEW j \in JobIds
      PROVE  jobs[j].wallet \in Wallets /\ jobs[j].status \in Statuses /\ (jobs[j].active <=> j \in ActiveJobs)
  <2>1. jobs \in Seq(JobState) /\ (jobs[j].active <=> jobs[j].status \in Held)
    BY <1>3 DEF JobsInv, JobsTyped
  <2>2. jobs[j] \in JobState
    BY <1>1, <1>3, <2>1
  <2>3. j \in ActiveJobs <=> jobs[j].status \in Held
    BY <1>3 DEF ActiveJobs, Held
  <2> QED BY <2>1, <2>2, <2>3 DEF JobState
<1> QED BY <1>2, <1>3 DEF JobsInv, CronInv, ListsTyped, QueueTypeOK, Statuses

\* Jobs, leases and passes keep their types: a job has its active key while it waits or runs and
\* only then, and no call, whoever stops or dies under it, creates more jobs than were asked for.
THEOREM QueueTyped == QueueSpec => []QueueTypeOK
BY JobsTypes, QueueInitInv, QueueNextInv, JobsInitInv, JobsNextInv, PTL DEF QueueSpec

\* The passes write the row of their own key: to the grant of a job they are stutters.
LEMMA PassLeavesCron ==
  ASSUME CronInv, NEW o \in Owners, NEW s \in Passes, PassStep(o, s)
  PROVE  UNCHANGED <<CronHolder, CronInside>>
<1>1. UNCHANGED cronRun
  BY DEF PassStep, WakeFires, LooksBusy, AcquireRun, FindNext, ClaimJob, Analyzed, ReleaseRun, cronVars
<1>2. UNCHANGED leaseVars \/ AcquireCronLease(AnalyzeKey, o) \/ ReleaseCronLease(AnalyzeKey, o)
  BY DEF PassStep, WakeFires, LooksBusy, AcquireRun, FindNext, ClaimJob, Analyzed, ReleaseRun, cronVars, leaseVars
<1>3. leaseOwner'[CronKey] = leaseOwner[CronKey] /\ leaseLapsed'[CronKey] = leaseLapsed[CronKey]
  BY <1>2, CronAssumption DEF CronInv, CronTypeOK, AcquireCronLease, ReleaseCronLease, leaseVars, LeaseKeys
<1> QED BY <1>1, <1>3 DEF CronHolder, CronInside

LEMMA QueueStepMaps ==
  CronInv /\ [QueueNext]_queueVars => [Lease!GrantNext]_(Lease!grantVars)
<1> SUFFICES ASSUME CronInv, [QueueNext]_queueVars PROVE [Lease!GrantNext]_(Lease!grantVars)
  OBVIOUS
<1>1. CASE CronNext
  BY <1>1, GrantStepMaps
<1>2. CASE UNCHANGED cronVars
  BY <1>2, GrantStepMaps
<1>3. ASSUME NEW o \in Owners, NEW s \in Passes, PassStep(o, s) PROVE [Lease!GrantNext]_(Lease!grantVars)
  BY <1>3, PassLeavesCron DEF Lease!grantVars
<1>4. CronNext \/ UNCHANGED cronVars \/ \E o \in Owners, s \in Passes : PassStep(o, s)
  BY DEF QueueNext, QueueNextOf, QueueLapses, QueueStarts, StartEnds, StartThrows, QueueStops, QueueEnds, EnqueueCreates,
         EnqueueReads, JobAges, CronNext, CronStep, queueVars, cronVars
<1> QED BY <1>1, <1>2, <1>3, <1>4
-----------------------------------------------------------------------------
(* An address on its way to the board *)

IsSeq(s) == s \in Seq({s[i] : i \in DOMAIN s})
PoolWrite(c) == c.does \in {"stage", "shift"} /\ c.with = "COPY_POOL"
Admits(c) == PoolWrite(c) \/ (c.does = "board" /\ c.with.on)

\* Calls that one lane makes.
Own == {"mark", "queue", "score", "delete", "demote", "close", "purge", "scored"}
Plain(c) ==
  /\ c.does \notin Own /\ ~PoolWrite(c)
  /\ c.does \in {"stage", "shift"} => c.with # "none"

\* COPY_POOL is written right after the board, or once more.
Orderly(s) ==
  /\ IsSeq(s)
  /\ \A i \in 1 .. Len(s) : Plain(s[i]) \/ (PoolWrite(s[i]) /\ i > 1 /\ Admits(s[i - 1]))

\* The same of a list that is appended to another one.
Follows(a, b) ==
  /\ IsSeq(b)
  /\ \A i \in 1 .. Len(b) :
       \/ Plain(b[i])
       \/ PoolWrite(b[i]) /\ IF i = 1 THEN a # <<>> /\ Admits(a[Len(a)]) ELSE Admits(b[i - 1])

\* The lane that makes a call of its own, and where in its list.
OwnAt(l, s, catch, i) ==
  CASE s[i].does = "mark" -> i = 1 /\ s[i].with \in {"LIGHT", "FULL"}
    [] s[i].does = "queue" -> l = "deep"
    [] s[i].does = "score" -> /\ l = "deep" /\ s[i].with # "none"
                              /\ i = 1 \/ (i = 2 /\ s[1].does = "mark")
    [] s[i].does = "delete" -> l = "recheck" /\ catch = <<>>
    [] s[i].does = "demote" -> l = "flush" /\ i < Len(s) /\ s[i + 1].does = "close"
    [] OTHER -> l = "flush"

\* A list a lane may have; its first call may be what its last one has led to.
TodoOK(l, s, catch) ==
  /\ IsSeq(s)
  /\ \A i \in 1 .. Len(s) :
       \/ Plain(s[i])
       \/ PoolWrite(s[i]) /\ (i = 1 \/ Admits(s[i - 1]))
       \/ s[i].does \in Own /\ OwnAt(l, s, catch, i)

\* After an error a lane makes one write at most.
CatchOK(s) ==
  \/ s = <<>>
  \/ \E c : /\ s = <<c>> /\ c.does \in {"stage", "eliminate"}
            /\ c.does = "stage" => c.with # "none"

Scoring(s) == \E i \in 1 .. Len(s) : s[i].does = "score" /\ s[i].with = "COPY_POOL"
WorkShape == DOMAIN work = Lanes /\ \A l \in Lanes : DOMAIN work[l] = {"todo", "catch"}

\* A lane that will write COPY_POOL next, or restore it, has the address on the board.
WillPool(s) == (s # <<>> /\ PoolWrite(s[1])) \/ Scoring(s)
MayRestore(w) ==
  w.todo # <<>> /\ (Scoring(w.todo) \/ \E c : w.catch = <<c>> /\ PoolWrite(c))

\* The flush is between its statements.
Halfway ==
  /\ work["flush"].todo # <<>>
  /\ \/ work["flush"].todo[1].does = "close" /\ board.hard = "negative"
     \/ work["flush"].todo[1].does = "scored" /\ board.score = "exit"

BoardFields == {"row", "on", "pending", "copied", "score", "hard", "due"}
LaneOK(l) ==
  /\ TodoOK(l, work[l].todo, work[l].catch) /\ CatchOK(work[l].catch)
  /\ WillPool(work[l].todo) => board.on
  /\ MayRestore(work[l]) => stage # "none"

LanesInv ==
  /\ WorkShape /\ DOMAIN board = BoardFields
  /\ \A l \in Lanes : LaneOK(l)
  /\ stage = "COPY_POOL" /\ ~board.on => Halfway

\* Once a step crossed another one nothing more is promised.
PipelineInv == crossed \in BOOLEAN /\ (~crossed => LanesInv)
-----------------------------------------------------------------------------
LEMMA SeqIsSeq == ASSUME NEW S, NEW s \in Seq(S) PROVE IsSeq(s)
BY DEF IsSeq

LEMMA FirstIsHead == ASSUME NEW s, IsSeq(s), s # <<>> PROVE Head(s) = s[1] /\ 1 \in 1 .. Len(s) /\ Len(s) \in Nat
BY DEF IsSeq

LEMMA Joined ==
  ASSUME NEW a, NEW b, IsSeq(a), IsSeq(b)
  PROVE  /\ IsSeq(a \o b) /\ Len(a \o b) = Len(a) + Len(b) /\ Len(a) \in Nat /\ Len(b) \in Nat
         /\ \A i \in 1 .. Len(a) + Len(b) : (a \o b)[i] = IF i <= Len(a) THEN a[i] ELSE b[i - Len(a)]
<1> DEFINE A == {a[i] : i \in DOMAIN a}
           B == {b[i] : i \in DOMAIN b}
<1>1. a \in Seq(A \cup B) /\ b \in Seq(A \cup B)
  BY DEF IsSeq
<1>2. a \o b \in Seq(A \cup B)
  BY <1>1
<1>3. IsSeq(a \o b)
  BY <1>2, SeqIsSeq
<1> HIDE DEF A, B
<1> QED
  BY <1>1, <1>3

LEMMA TailOf ==
  ASSUME NEW s, IsSeq(s), s # <<>>
  PROVE  /\ IsSeq(Tail(s)) /\ Len(Tail(s)) = Len(s) - 1 /\ Len(s) \in Nat \ {0}
         /\ \A i \in 1 .. Len(s) - 1 : Tail(s)[i] = s[i + 1]
<1> DEFINE S == {s[i] : i \in DOMAIN s}
<1>1. s \in Seq(S)
  BY DEF IsSeq
<1> HIDE DEF S
<1>2. Tail(s) \in Seq(S) /\ Len(Tail(s)) = Len(s) - 1 /\ Len(s) \in Nat \ {0}
      /\ \A i \in 1 .. Len(s) - 1 : Tail(s)[i] = s[i + 1]
  BY <1>1
<1>3. IsSeq(Tail(s))
  BY <1>2, SeqIsSeq
<1> QED
  BY <1>2, <1>3

LEMMA Single == ASSUME NEW c PROVE IsSeq(<<c>>) /\ Len(<<c>>) = 1 /\ <<c>>[1] = c /\ <<c>> # <<>>
<1>1. <<c>> \in Seq({c})
  OBVIOUS
<1> QED
  BY <1>1, SeqIsSeq

LEMMA OrderlyNone == Orderly(<<>>)
<1>1. <<>> \in Seq({})
  OBVIOUS
<1>2. IsSeq(<<>>)
  BY <1>1, SeqIsSeq
<1> QED
  BY <1>2 DEF Orderly

LEMMA OrderlyOne == ASSUME NEW c, Plain(c) PROVE Orderly(<<c>>)
BY Single DEF Orderly

LEMMA OrderlyTwo == ASSUME NEW c, Plain(c), NEW d, Plain(d) PROVE Orderly(<<c, d>>)
<1>1. <<c, d>> \in Seq({c, d})
  OBVIOUS
<1>2. IsSeq(<<c, d>>)
  BY <1>1, SeqIsSeq
<1> QED
  BY <1>2 DEF Orderly

LEMMA OrderlyThree == ASSUME NEW c, Plain(c), NEW d, Plain(d), NEW e, Plain(e) PROVE Orderly(<<c, d, e>>)
<1>1. <<c, d, e>> \in Seq({c, d, e})
  OBVIOUS
<1>2. IsSeq(<<c, d, e>>)
  BY <1>1, SeqIsSeq
<1> QED
  BY <1>2 DEF Orderly

\* A list that goes on after another one: the address is admitted before COPY_POOL is written.
LEMMA OrderlyJoin ==
  ASSUME NEW a, Orderly(a), NEW b, Follows(a, b)
  PROVE  Orderly(a \o b)
<1>1. \A i \in 1 .. Len(b) :
        Plain(b[i]) \/ (PoolWrite(b[i]) /\ IF i = 1 THEN a # <<>> /\ Admits(a[Len(a)]) ELSE Admits(b[i - 1]))
  BY DEF Follows
<1>2. \A i \in 1 .. Len(a) : Plain(a[i]) \/ (PoolWrite(a[i]) /\ i > 1 /\ Admits(a[i - 1]))
  BY DEF Orderly
<1>3. /\ IsSeq(a \o b) /\ Len(a \o b) = Len(a) + Len(b) /\ Len(a) \in Nat /\ Len(b) \in Nat
      /\ \A i \in 1 .. Len(a) + Len(b) : (a \o b)[i] = IF i <= Len(a) THEN a[i] ELSE b[i - Len(a)]
  BY Joined DEF Orderly, Follows
<1> DEFINE t == a \o b
<1> HIDE DEF t
<1>4. ASSUME NEW i \in 1 .. Len(t) PROVE Plain(t[i]) \/ (PoolWrite(t[i]) /\ i > 1 /\ Admits(t[i - 1]))
  <2>1. CASE i <= Len(a)
    <3>1. t[i] = a[i] /\ (i > 1 => t[i - 1] = a[i - 1]) /\ i \in 1 .. Len(a)
      BY <1>3, <2>1 DEF t
    <3> QED
      BY <1>2, <3>1
  <2>2. CASE ~(i <= Len(a))
    <3> DEFINE k == i - Len(a)
    <3>1. /\ t[i] = b[k] /\ k \in 1 .. Len(b) /\ (k # 1 => t[i - 1] = b[k - 1])
          /\ (k = 1 /\ a # <<>> => i > 1 /\ t[i - 1] = a[Len(a)]) /\ (k # 1 => i > 1)
      <4>1. (a # <<>> => Len(a) > 0) /\ Len(a) \in Nat /\ Len(b) \in Nat
        BY <1>3 DEF Orderly, IsSeq
      <4> QED
        BY <1>3, <2>2, <4>1 DEF t
    <3> HIDE DEF k
    <3> QED
      BY <1>1, <3>1
  <2> QED
    BY <2>1, <2>2
<1> QED
  BY <1>3, <1>4 DEF Orderly, t

\* What a call puts in front of the rest.
LEMMA GoesOnOK ==
  ASSUME NEW l, NEW s, NEW catch, TodoOK(l, s, catch), s # <<>>, NEW more, IsSeq(more),
         TodoOK(l, more, catch), more # <<>> => ~Admits(s[1]) /\ s[1].does # "mark"
  PROVE  /\ TodoOK(l, more \o Tail(s), catch)
         /\ more \o Tail(s) # <<>> /\ PoolWrite((more \o Tail(s))[1]) =>
              Admits(s[1]) \/ (more # <<>> /\ PoolWrite(more[1]))
         /\ Scoring(more \o Tail(s)) => Scoring(more) \/ (Scoring(s) /\ s[1].does = "mark")
<1>1. /\ IsSeq(Tail(s)) /\ Len(Tail(s)) = Len(s) - 1 /\ Len(s) \in Nat \ {0}
      /\ \A i \in 1 .. Len(s) - 1 : Tail(s)[i] = s[i + 1]
  BY TailOf DEF TodoOK
<1> DEFINE t == more \o Tail(s)
<1>2. /\ IsSeq(t) /\ Len(t) = Len(more) + Len(s) - 1 /\ Len(more) \in Nat
      /\ \A i \in 1 .. Len(t) : t[i] = IF i <= Len(more) THEN more[i] ELSE s[i - Len(more) + 1]
  <2>1. /\ IsSeq(t) /\ Len(t) = Len(more) + Len(Tail(s)) /\ Len(more) \in Nat
        /\ \A i \in 1 .. Len(more) + Len(Tail(s)) : t[i] = IF i <= Len(more) THEN more[i] ELSE Tail(s)[i - Len(more)]
    BY <1>1, Joined
  <2> HIDE DEF t
  <2> QED
    BY <1>1, <2>1
<1> HIDE DEF t
<1>3. more = <<>> <=> Len(more) = 0
  BY DEF IsSeq
<1>4. ASSUME NEW i \in 1 .. Len(t)
      PROVE  /\ \/ Plain(t[i])
                \/ PoolWrite(t[i]) /\ (i = 1 \/ Admits(t[i - 1]))
                \/ t[i].does \in Own /\ OwnAt(l, t, catch, i)
             /\ i = 1 /\ PoolWrite(t[i]) => Admits(s[1]) \/ (more # <<>> /\ PoolWrite(more[1]))
             /\ t[i].does = "score" => \/ \E k \in 1 .. Len(more) : more[k] = t[i]
                                      \/ \E k \in 1 .. Len(s) : s[k] = t[i] /\ s[1].does = "mark"
  <2>1. CASE i <= Len(more)
    <3>1. /\ t[i] = more[i] /\ t[1] = more[1] /\ (i > 1 => t[i - 1] = more[i - 1]) /\ i \in 1 .. Len(more)
          /\ (i < Len(more) => t[i + 1] = more[i + 1] /\ i < Len(t))
      <4> DEFINE n == Len(more)
                 m == Len(t)
      <4>1. n \in Nat /\ m \in Nat /\ i \in 1 .. m /\ i <= n /\ n <= m
        BY <1>1, <1>2, <2>1
      <4>2. \A h \in 1 .. n : t[h] = more[h]
        BY <1>1, <1>2
      <4> HIDE DEF n, m
      <4>3. /\ i \in 1 .. n /\ 1 \in 1 .. n /\ (i > 1 => i - 1 \in 1 .. n) 
            /\ (i < n => i + 1 \in 1 .. n /\ i < m)
        BY <4>1
      <4>4. t[i] = more[i] /\ t[1] = more[1] /\ (i > 1 => t[i - 1] = more[i - 1]) /\ (i < n => t[i + 1] = more[i + 1])
        BY <4>2, <4>3
      <4> QED
        BY <4>3, <4>4 DEF n, m
    <3>2. \/ Plain(more[i])
          \/ PoolWrite(more[i]) /\ (i = 1 \/ Admits(more[i - 1]))
          \/ more[i].does \in Own /\ OwnAt(l, more, catch, i)
      BY <3>1 DEF TodoOK
    <3>3. OwnAt(l, more, catch, i) => OwnAt(l, t, catch, i)
      BY <3>1 DEF OwnAt
    <3>4. i = 1 => more # <<>> /\ t[i] = more[1]
      BY <1>3, <2>1, <3>1
    <3> QED
      BY <3>1, <3>2, <3>3, <3>4
  <2>2. CASE ~(i <= Len(more))
    <3> DEFINE k == i - Len(more) + 1
    <3>1. /\ k \in 2 .. Len(s) /\ t[i] = s[k] /\ (i > 1 /\ k > 2 => t[i - 1] = s[k - 1])
          /\ (k < Len(s) => t[i + 1] = s[k + 1] /\ i < Len(t)) /\ (i = 1 => k = 2 /\ more = <<>>)
          /\ (k = 2 /\ more = <<>> => i = 1)
      <4> DEFINE n == Len(more)
                 m == Len(t)
                 p == Len(s)
      <4>1. n \in Nat /\ p \in Nat /\ m = n + p - 1 /\ i \in 1 .. m /\ ~(i <= n) /\ (more = <<>> <=> n = 0)
        BY <1>1, <1>2, <1>3, <2>2
      <4>2. \A h \in 1 .. m : h > n => t[h] = s[h - n + 1]
        BY <1>1, <1>2
      <4> HIDE DEF n, m, p
      <4>3. /\ k = i - n + 1
            /\ k \in 2 .. p /\ (k > 2 => i - 1 \in 1 .. m /\ i - 1 > n /\ (i - 1) - n + 1 = k - 1)
            /\ (k < p => i + 1 \in 1 .. m /\ i + 1 > n /\ (i + 1) - n + 1 = k + 1 /\ i < m)
            /\ i > n
        BY <4>1 DEF n
      <4>4. t[i] = s[k] /\ (k > 2 => t[i - 1] = s[k - 1]) /\ (k < p => t[i + 1] = s[k + 1])
        BY <4>1, <4>2, <4>3
      <4> HIDE DEF k
      <4>5. (i = 1 => k = 2 /\ more = <<>>) /\ (k = 2 /\ more = <<>> => i = 1)
        BY <4>1, <4>3
      <4> QED
        BY <4>3, <4>4, <4>5 DEF m, p
    <3>2. \/ Plain(s[k])
          \/ PoolWrite(s[k]) /\ Admits(s[k - 1])
          \/ s[k].does \in Own /\ OwnAt(l, s, catch, k)
      BY <3>1 DEF TodoOK
    <3> HIDE DEF k
    <3>3. s[k].does \in Own /\ OwnAt(l, s, catch, k) => OwnAt(l, t, catch, i)
      BY <3>1 DEF OwnAt, Own
    <3>4. PoolWrite(s[k]) /\ Admits(s[k - 1]) => i = 1 \/ Admits(t[i - 1])
      BY <3>1
    <3>5. PoolWrite(s[k]) => Admits(s[k - 1])
      BY <3>2 DEF Plain, PoolWrite, Own
    <3>6. s[k].does = "score" => s[1].does = "mark"
      BY <3>1, <3>2 DEF Plain, PoolWrite, Own, OwnAt
    <3> QED
      BY <3>1, <3>2, <3>3, <3>4, <3>5, <3>6
  <2> QED
    BY <2>1, <2>2
<1>5. TodoOK(l, t, catch)
  BY <1>2, <1>4 DEF TodoOK
<1>6. t # <<>> /\ PoolWrite(t[1]) => Admits(s[1]) \/ (more # <<>> /\ PoolWrite(more[1]))
  <2>1. t # <<>> => 1 \in 1 .. Len(t)
    BY <1>2, FirstIsHead
  <2> QED
    BY <2>1, <1>4
<1>7. Scoring(t) => Scoring(more) \/ (Scoring(s) /\ s[1].does = "mark")
  BY <1>4 DEF Scoring
<1> QED
  BY <1>5, <1>6, <1>7 DEF t

LEMMA OrderlyIsOK ==
  ASSUME NEW s, Orderly(s), NEW l, NEW catch
  PROVE  IsSeq(s) /\ TodoOK(l, s, catch) /\ ~Scoring(s) /\ (s # <<>> => ~PoolWrite(s[1]))
<1>1. IsSeq(s) /\ TodoOK(l, s, catch)
  BY DEF Orderly, TodoOK
<1>2. ~Scoring(s)
  BY DEF Orderly, Scoring, Plain, Own, PoolWrite
<1>3. s # <<>> => ~PoolWrite(s[1])
  BY <1>1, FirstIsHead DEF Orderly, Plain
<1> QED
  BY <1>1, <1>2, <1>3
LEMMA OrderlyFollows == ASSUME NEW a, NEW b, Orderly(b) PROVE Follows(a, b)
BY DEF Orderly, Follows
-----------------------------------------------------------------------------
LEMMA CallIs ==
  ASSUME LanesInv, NEW l \in Lanes, NEW d, Calls(l, d)
  PROVE  work[l].todo # <<>> /\ work[l].todo[1].does = d /\ With(l) = work[l].todo[1].with
         /\ Head(work[l].todo) = work[l].todo[1]
<1>1. IsSeq(work[l].todo) /\ work[l].todo # <<>>
  BY DEF LanesInv, LaneOK, TodoOK, Calls
<1>2. Head(work[l].todo) = work[l].todo[1]
  BY <1>1, FirstIsHead
<1> QED
  BY <1>1, <1>2 DEF Calls, With

\* One lane moves, and nobody crosses it.
LEMMA LaneMoves ==
  ASSUME LanesInv, NEW l \in Lanes, ~Crosses, WorkShape', DOMAIN board' = BoardFields,
         \A k \in Lanes : k # l => work'[k] = work[k],
         TodoOK(l, work'[l].todo, work'[l].catch), CatchOK(work'[l].catch),
         WillPool(work'[l].todo) => board'.on,
         MayRestore(work'[l]) => stage' # "none",
         stage' = "COPY_POOL" /\ ~board'.on => Halfway'
  PROVE  LanesInv'
<1>1. ASSUME NEW k \in Lanes, k # l PROVE LaneOK(k)'
  <2>1. LaneOK(k) /\ work'[k] = work[k]
    BY <1>1 DEF LanesInv
  <2>2. WillPool(work[k].todo) /\ ~board'.on => FALSE
    <3> SUFFICES ASSUME WillPool(work[k].todo), ~board'.on PROVE FALSE
      OBVIOUS
    <3>1. board.on /\ IsSeq(work[k].todo)
      BY <2>1 DEF LaneOK, TodoOK
    <3>2. Holds(k)
      <4>1. CASE work[k].todo # <<>> /\ PoolWrite(work[k].todo[1])
        <5>1. Head(work[k].todo) = work[k].todo[1]
          BY <3>1, <4>1, FirstIsHead
        <5> QED
          BY <4>1, <5>1 DEF Holds, Calls, With, PoolWrite
      <4>2. CASE Scoring(work[k].todo)
        BY <4>2 DEF Holds, Scoring
      <4> QED
        BY <4>1, <4>2 DEF WillPool
    <3> QED
      BY <2>1, <3>1, <3>2 DEF Crosses
  <2>3. MayRestore(work[k]) /\ stage' = "none" => FALSE
    BY <2>1 DEF LaneOK, MayRestore, Crosses
  <2> QED
    BY <2>1, <2>2, <2>3 DEF LaneOK
<1>2. LaneOK(l)'
  BY DEF LaneOK
<1> QED
  BY <1>1, <1>2 DEF LanesInv

LEMMA NotHalfway ==
  ASSUME LanesInv, NEW l \in Lanes, ~Crosses, \A k \in Lanes : k # l => work'[k] = work[k],
         work[l].todo = <<>> \/ work[l].todo[1].does \notin {"close", "scored"}
  PROVE  ~(stage = "COPY_POOL" /\ ~board.on)
<1> SUFFICES ASSUME stage = "COPY_POOL", ~board.on PROVE FALSE
  OBVIOUS
<1>1. Halfway /\ "flush" \in Lanes
  BY DEF LanesInv, Lanes
<1>2. l # "flush" /\ work'["flush"] = work["flush"]
  BY <1>1 DEF Halfway
<1>3. IsSeq(work["flush"].todo) /\ work["flush"].todo # <<>>
  BY <1>1 DEF LanesInv, LaneOK, TodoOK, Halfway
<1>4. Calls("flush", "close") \/ Calls("flush", "scored")
  BY <1>1, <1>3, FirstIsHead DEF Halfway, Calls
<1> QED
  BY <1>2, <1>4 DEF Crosses

\* One lane makes its first call, which leads to others.
LaneGoes(l, more) ==
  /\ WorkShape' /\ \A k \in Lanes : k # l => work'[k] = work[k]
  /\ work'[l].catch = work[l].catch /\ work'[l].todo = more \o Tail(work[l].todo)

LEMMA GoesIs ==
  ASSUME LanesInv, NEW l \in Lanes, NEW more, GoesOn(l, more)
  PROVE  LaneGoes(l, more)
BY DEF LanesInv, WorkShape, GoesOn, LaneGoes

LEMMA GoesEffect ==
  ASSUME LanesInv, NEW l \in Lanes, work[l].todo # <<>>, NEW more, LaneGoes(l, more), IsSeq(more),
         TodoOK(l, more, work[l].catch),
         more # <<>> => ~Admits(work[l].todo[1]) /\ work[l].todo[1].does # "mark"
  PROVE  /\ TodoOK(l, work'[l].todo, work'[l].catch) /\ CatchOK(work'[l].catch)
         /\ work'[l].todo # <<>> /\ PoolWrite(work'[l].todo[1]) =>
              Admits(work[l].todo[1]) \/ (more # <<>> /\ PoolWrite(more[1]))
         /\ Scoring(work'[l].todo) => Scoring(more) \/ (Scoring(work[l].todo) /\ work[l].todo[1].does = "mark")
<1> DEFINE s == work[l].todo
           c == work[l].catch
<1>1. TodoOK(l, s, c) /\ CatchOK(c)
  BY DEF LanesInv, LaneOK
<1>2. s # <<>> /\ TodoOK(l, more, c) /\ (more # <<>> => ~Admits(s[1]) /\ s[1].does # "mark")
  OBVIOUS
<1>3. work'[l].catch = c /\ work'[l].todo = more \o Tail(s)
  BY DEF LaneGoes
<1> HIDE DEF s, c
<1>4. /\ TodoOK(l, more \o Tail(s), c)
      /\ more \o Tail(s) # <<>> /\ PoolWrite((more \o Tail(s))[1]) =>
           Admits(s[1]) \/ (more # <<>> /\ PoolWrite(more[1]))
      /\ Scoring(more \o Tail(s)) => Scoring(more) \/ (Scoring(s) /\ s[1].does = "mark")
  BY <1>1, <1>2, GoesOnOK
<1>5. /\ TodoOK(l, work'[l].todo, work'[l].catch) /\ CatchOK(work'[l].catch)
      /\ work'[l].todo # <<>> /\ PoolWrite(work'[l].todo[1]) =>
           Admits(s[1]) \/ (more # <<>> /\ PoolWrite(more[1]))
      /\ Scoring(work'[l].todo) => Scoring(more) \/ (Scoring(s) /\ s[1].does = "mark")
  BY <1>1, <1>3, <1>4
<1> QED
  BY <1>5 DEF s

\* A call leads to others.
LEMMA GoesInv ==
  ASSUME LanesInv, NEW l \in Lanes, ~Crosses, work[l].todo # <<>>, NEW more, LaneGoes(l, more), Orderly(more),
         more # <<>> => ~Admits(work[l].todo[1]) /\ work[l].todo[1].does # "mark",
         DOMAIN board' = BoardFields,
         Admits(work[l].todo[1]) => board'.on,
         work[l].todo[1].does = "mark" => board' = board,
         stage' = "none" => stage = "none" \/ work[l].todo[1].does = "delete",
         stage' = "COPY_POOL" /\ ~board'.on => Halfway'
  PROVE  LanesInv'
<1> DEFINE c == work[l].todo[1]
<1>1. LaneOK(l)
  BY DEF LanesInv
<1>2. IsSeq(more) /\ TodoOK(l, more, work[l].catch) /\ ~Scoring(more) /\ (more # <<>> => ~PoolWrite(more[1]))
  BY OrderlyIsOK
<1>3. /\ WorkShape' /\ \A k \in Lanes : k # l => work'[k] = work[k]
      /\ work'[l].catch = work[l].catch
      /\ TodoOK(l, work'[l].todo, work'[l].catch) /\ CatchOK(work'[l].catch)
      /\ work'[l].todo # <<>> /\ PoolWrite(work'[l].todo[1]) => Admits(c)
      /\ Scoring(work'[l].todo) => Scoring(work[l].todo) /\ c.does = "mark"
  BY <1>2, GoesEffect DEF LaneGoes
<1>4. WillPool(work'[l].todo) => board'.on
  BY <1>1, <1>3 DEF WillPool, LaneOK
<1>5. MayRestore(work'[l]) => stage' # "none"
  <2>1. c.does = "delete" => work[l].catch = <<>>
    BY <1>1, FirstIsHead DEF LaneOK, TodoOK, OwnAt, Plain, PoolWrite, Own
  <2>2. MayRestore(work'[l]) => MayRestore(work[l]) /\ c.does # "delete"
    BY <1>3, <2>1 DEF MayRestore
  <2> QED
    BY <1>1, <2>2 DEF LaneOK
<1> QED
  BY <1>3, <1>4, <1>5, LaneMoves

\* An address without a row has nothing to restore: the lane throws, or goes on.
LEMMA ThrownInv ==
  ASSUME LanesInv, NEW l \in Lanes, ~Crosses, work[l].todo # <<>>, Thrown(l), stage = "none",
         UNCHANGED <<stage, board>>, ~Admits(work[l].todo[1]) \/ PoolWrite(work[l].todo[1]),
         work[l].todo[1].does # "mark"
  PROVE  LanesInv'
<1>1. LaneOK(l)
  BY DEF LanesInv
<1>2. DOMAIN board' = BoardFields
  BY DEF LanesInv
<1>3. CASE Head(work[l].todo).soft
  <2>1. /\ WorkShape' /\ \A k \in Lanes : k # l => work'[k] = work[k]
        /\ work'[l].catch = work[l].catch /\ work'[l].todo = Tail(work[l].todo)
    BY <1>3 DEF Thrown, LanesInv, WorkShape
  <2>2. LaneGoes(l, <<>>)
    <3>1. <<>> \o Tail(work[l].todo) = Tail(work[l].todo)
      BY <1>1, TailOf DEF LaneOK, TodoOK, IsSeq
    <3> QED
      BY <2>1, <3>1 DEF LaneGoes
  <2>3. Admits(work[l].todo[1]) => board'.on
    BY <1>1 DEF LaneOK, WillPool
  <2> QED
    BY <1>2, <2>2, <2>3, OrderlyNone, GoesInv
<1>4. CASE ~Head(work[l].todo).soft
  <2>1. work' = [work EXCEPT ![l] = [todo |-> work[l].catch, catch |-> <<>>]]
    BY <1>4 DEF Thrown
  <2>2. /\ WorkShape' /\ \A k \in Lanes : k # l => work'[k] = work[k]
        /\ work'[l].todo = work[l].catch /\ work'[l].catch = <<>>
    BY <2>1 DEF LanesInv, WorkShape
  <2>3. \A c : work[l].catch = <<c>> => ~PoolWrite(c)
    BY <1>1 DEF LaneOK, MayRestore
  <2>4. Orderly(work[l].catch)
    <3>1. CASE work[l].catch = <<>>
      BY <3>1, OrderlyNone
    <3>2. CASE work[l].catch # <<>>
      <4>1. PICK c : work[l].catch = <<c>> /\ c.does \in {"stage", "eliminate"} /\ (c.does = "stage" => c.with # "none")
        BY <1>1, <3>2 DEF LaneOK, CatchOK
      <4>2. Plain(c)
        BY <2>3, <4>1 DEF Plain, Own
      <4> QED
        BY <4>1, <4>2, OrderlyOne
    <3> QED
      BY <3>1, <3>2
  <2>5. TodoOK(l, work'[l].todo, work'[l].catch) /\ ~WillPool(work'[l].todo) /\ ~MayRestore(work'[l])
    BY <2>2, <2>4, OrderlyIsOK DEF WillPool, MayRestore
  <2>6. CatchOK(work'[l].catch)
    BY <2>2 DEF CatchOK
  <2> QED
    BY <1>2, <2>2, <2>5, <2>6, LaneMoves
<1> QED
  BY <1>3, <1>4
-----------------------------------------------------------------------------
\* Between the statements of a flush nobody else moves.
LEMMA NotBetween ==
  ASSUME LanesInv, ~Crosses, work'["flush"] = work["flush"]
  PROVE  ~(stage = "COPY_POOL" /\ ~board.on)
<1> SUFFICES ASSUME stage = "COPY_POOL", ~board.on PROVE FALSE
  OBVIOUS
<1>1. Halfway /\ "flush" \in Lanes
  BY DEF LanesInv, Lanes
<1>2. IsSeq(work["flush"].todo) /\ work["flush"].todo # <<>>
  BY <1>1 DEF LanesInv, LaneOK, TodoOK, Halfway
<1>3. Calls("flush", "close") \/ Calls("flush", "scored")
  BY <1>1, <1>2, FirstIsHead DEF Halfway, Calls
<1> QED
  BY <1>3 DEF Crosses

\* A statement beside the lanes.
LEMMA StillInv ==
  ASSUME LanesInv, ~Crosses, work' = work, DOMAIN board' = BoardFields, board'.on = board.on,
         stage' = "none" => stage = "none",
         stage' = "COPY_POOL" => stage = "COPY_POOL" \/ board.on
  PROVE  LanesInv'
<1>1. ~(stage' = "COPY_POOL" /\ ~board'.on)
  BY NotBetween
<1>2. WorkShape'
  BY DEF LanesInv, WorkShape
<1>3. ASSUME NEW l \in Lanes PROVE LaneOK(l)'
  <2>1. LaneOK(l)
    BY DEF LanesInv
  <2> QED
    BY <2>1 DEF LaneOK
<1> QED
  BY <1>1, <1>2, <1>3 DEF LanesInv

\* A lane picks the address: nothing it is about to write says COPY_POOL.
LEMMA StartsInv ==
  ASSUME LanesInv, NEW l \in Lanes, ~Crosses, NEW todo, NEW catch, Starts(l, todo, catch),
         TodoOK(l, todo, catch), ~WillPool(todo), CatchOK(catch), \A c : catch = <<c>> => ~PoolWrite(c)
  PROVE  LanesInv'
<1>1. /\ WorkShape' /\ (\A k \in Lanes : k # l => work'[k] = work[k])
      /\ work'[l].todo = todo /\ work'[l].catch = catch
  BY DEF LanesInv, WorkShape, Starts
<1>2. UNCHANGED <<stage, board>> /\ DOMAIN board' = BoardFields /\ work[l].todo = <<>>
  BY DEF Starts, LanesInv
<1>3. ~(stage = "COPY_POOL" /\ ~board.on)
  BY <1>1, <1>2, NotHalfway
<1>4. ~Scoring(todo)
  BY DEF WillPool
<1> QED
  BY <1>1, <1>2, <1>3, <1>4, LaneMoves DEF MayRestore

LEMMA StartsOrderly ==
  ASSUME LanesInv, NEW l \in Lanes, ~Crosses, NEW todo, NEW catch, Starts(l, todo, catch),
         Orderly(todo), CatchOK(catch), \A c : catch = <<c>> => ~PoolWrite(c)
  PROVE  LanesInv'
BY OrderlyIsOK, StartsInv DEF WillPool

\* A lane makes its next call.
LEMMA CallInv ==
  ASSUME LanesInv, NEW l \in Lanes, ~Crosses, NEW d, Calls(l, d), d \notin {"close", "scored", "mark", "stage", "shift", "board"},
         NEW more, GoesOn(l, more), Orderly(more), DOMAIN board' = BoardFields,
         stage' = "none" => stage = "none" \/ d = "delete",
         stage' = "COPY_POOL" /\ ~board'.on => (stage = "COPY_POOL" /\ ~board.on) \/ Halfway'
  PROVE  LanesInv'
<1>1. work[l].todo # <<>> /\ work[l].todo[1].does = d
  BY CallIs
<1>2. LaneGoes(l, more)
  BY GoesIs
<1>3. ~(stage = "COPY_POOL" /\ ~board.on)
  BY <1>1, <1>2, NotHalfway DEF LaneGoes
<1>4. ~Admits(work[l].todo[1])
  BY <1>1 DEF Admits, PoolWrite
<1> QED
  BY <1>1, <1>2, <1>3, <1>4, GoesInv

\* One of the writes of a row or of a stage.
LEMMA WriteInv ==
  ASSUME LanesInv, NEW l \in Lanes, ~Crosses, NEW d, Calls(l, d), d \notin {"close", "scored", "delete"},
         GoesOn(l, <<>>), DOMAIN board' = BoardFields,
         d \in {"mark", "stage", "shift"} => board' = board,
         d = "board" /\ With(l).on => board'.on,
         stage' = "none" => stage = "none",
         stage' = "COPY_POOL" /\ ~board'.on => stage = "COPY_POOL" /\ ~board.on
  PROVE  LanesInv'
<1>1. work[l].todo # <<>> /\ work[l].todo[1].does = d /\ With(l) = work[l].todo[1].with
  BY CallIs
<1>2. LaneGoes(l, <<>>)
  BY GoesIs
<1>3. ~(stage = "COPY_POOL" /\ ~board.on)
  BY <1>1, <1>2, NotHalfway DEF LaneGoes
<1>4. Admits(work[l].todo[1]) => board'.on
  BY <1>1 DEF Admits, PoolWrite, LanesInv, LaneOK, WillPool
<1> QED
  BY <1>1, <1>2, <1>3, <1>4, OrderlyNone, GoesInv
-----------------------------------------------------------------------------
LEMMA MarksInv == ASSUME LanesInv, NEW l \in Lanes, ~Crosses, Marks(l) PROVE LanesInv'
<1>1. /\ Calls(l, "mark") /\ GoesOn(l, <<>>) /\ board' = board
      /\ stage' = IF stage = "none" THEN stage ELSE With(l)
  BY DEF Marks
<1>2. DOMAIN board' = BoardFields
  BY <1>1 DEF LanesInv
<1>3. With(l) \in {"LIGHT", "FULL"}
  <2>1. work[l].todo # <<>> /\ work[l].todo[1].does = "mark" /\ With(l) = work[l].todo[1].with
    BY <1>1, CallIs
  <2> QED
    BY <2>1, FirstIsHead DEF LanesInv, LaneOK, TodoOK, OwnAt, Plain, PoolWrite, Own
<1> QED
  BY <1>1, <1>2, <1>3, WriteInv

LEMMA StageWrittenInv == ASSUME LanesInv, NEW l \in Lanes, ~Crosses, StageWritten(l) PROVE LanesInv'
<1>1. PICK d \in {"stage", "shift"} : Calls(l, d)
  BY DEF StageWritten
<1>2. board' = board /\ DOMAIN board' = BoardFields
  BY DEF StageWritten, LanesInv
<1>3. work[l].todo # <<>> /\ work[l].todo[1].does = d /\ With(l) = work[l].todo[1].with
  BY <1>1, CallIs
<1>4. CASE stage = "none" /\ Thrown(l) /\ stage' = stage
  <2>1. ~Admits(work[l].todo[1]) \/ PoolWrite(work[l].todo[1])
    BY <1>3 DEF Admits
  <2> QED
    BY <1>2, <1>3, <1>4, <2>1, ThrownInv
<1>5. CASE stage # "none" /\ stage' = With(l) /\ GoesOn(l, <<>>)
  <2>1. IsSeq(work[l].todo) /\ 1 \in 1 .. Len(work[l].todo) /\ LaneOK(l)
    BY <1>3, FirstIsHead DEF LanesInv, LaneOK, TodoOK
  <2>2. With(l) # "none"
    BY <1>3, <2>1 DEF LaneOK, TodoOK, Plain, PoolWrite, Own
  <2>3. With(l) = "COPY_POOL" => board.on
    BY <1>3, <2>1 DEF LaneOK, WillPool, PoolWrite
  <2> QED
    BY <1>1, <1>2, <1>5, <2>2, <2>3, WriteInv
<1> QED
  BY <1>4, <1>5 DEF StageWritten

LEMMA EliminatesInv == ASSUME LanesInv, NEW l \in Lanes, ~Crosses, Eliminates(l) PROVE LanesInv'
<1>1. Calls(l, "eliminate")
  BY DEF Eliminates
<1>2. work[l].todo # <<>> /\ work[l].todo[1].does = "eliminate"
  BY <1>1, CallIs
<1>3. CASE stage = "none" /\ Thrown(l) /\ UNCHANGED <<stage, board>>
  <2>1. ~Admits(work[l].todo[1])
    BY <1>2 DEF Admits, PoolWrite
  <2> QED
    BY <1>2, <1>3, <2>1, ThrownInv
<1>4. CASE /\ stage' = "ELIMINATED" /\ GoesOn(l, <<>>)
           /\ board' = IF board.on THEN [board EXCEPT !.on = FALSE, !.pending = FALSE] ELSE board
  <2>1. DOMAIN board' = BoardFields
    BY <1>4 DEF LanesInv
  <2> QED
    BY <1>1, <1>4, <2>1, WriteInv
<1> QED
  BY <1>3, <1>4 DEF Eliminates

LEMMA RemovesInv == ASSUME LanesInv, NEW l \in Lanes, ~Crosses, Removes(l) PROVE LanesInv'
<1>1. Calls(l, "remove") /\ GoesOn(l, <<>>) /\ stage' = IF stage = "none" THEN stage ELSE "SCORED"
  BY DEF Removes
<1>2. DOMAIN board' = BoardFields
  BY DEF Removes, LanesInv
<1> QED
  BY <1>1, <1>2, WriteInv

LEMMA RowWrittenInv == ASSUME LanesInv, NEW l \in Lanes, ~Crosses, RowWritten(l) PROVE LanesInv'
<1>1. GoesOn(l, <<>>) /\ stage' = stage /\ DOMAIN board = BoardFields
  BY DEF RowWritten, LanesInv
<1>2. CASE Calls(l, "board") /\ board' = [board EXCEPT !.on = With(l).on,
                 !.pending = IF With(l).pending = "keep" THEN @ ELSE With(l).pending = "yes"]
  <2>1. DOMAIN board' = BoardFields /\ board'.on = With(l).on
    BY <1>1, <1>2 DEF BoardFields
  <2>2. work'[l] # work[l]
    <3>1. work[l].todo # <<>> /\ IsSeq(work[l].todo)
      BY <1>2, CallIs DEF LanesInv, LaneOK, TodoOK
    <3>2. Len(Tail(work[l].todo)) # Len(work[l].todo)
      BY <3>1, TailOf
    <3>3. work'[l].todo = <<>> \o Tail(work[l].todo)
      BY <1>1, GoesIs DEF LaneGoes
    <3>4. <<>> \o Tail(work[l].todo) = Tail(work[l].todo)
      BY <3>1, TailOf DEF IsSeq
    <3> QED
      BY <3>2, <3>3, <3>4
  <2>3. stage = "COPY_POOL" /\ ~board'.on => ~board.on
    BY <1>2, <2>2 DEF Crosses
  <2> QED
    BY <1>1, <1>2, <2>1, <2>3, WriteInv
<1>3. ASSUME NEW d \in {"upsert", "pending", "flag"}, Calls(l, d), DOMAIN board' = BoardFields, board'.on = board.on
      PROVE  LanesInv'
  BY <1>1, <1>3, WriteInv
<1>4. CASE Calls(l, "upsert") /\ board' = [board EXCEPT !.row = TRUE, !.score = With(l).score, !.hard = With(l).hard]
  <2>1. DOMAIN board' = BoardFields /\ board'.on = board.on
    BY <1>1, <1>4 DEF BoardFields
  <2> QED
    BY <1>3, <1>4, <2>1
<1>5. CASE Calls(l, "pending") /\ board' = [board EXCEPT !.pending = board.row /\ With(l)]
  <2>1. DOMAIN board' = BoardFields /\ board'.on = board.on
    BY <1>1, <1>5 DEF BoardFields
  <2> QED
    BY <1>3, <1>5, <2>1
<1>6. CASE Calls(l, "flag") /\ board' = [board EXCEPT !.hard = "other"]
  <2>1. DOMAIN board' = BoardFields /\ board'.on = board.on
    BY <1>1, <1>6 DEF BoardFields
  <2> QED
    BY <1>3, <1>6, <2>1
<1> QED
  BY <1>2, <1>4, <1>5, <1>6 DEF RowWritten
-----------------------------------------------------------------------------
\* The calls whose order does not matter.
LEMMA PlainCalls ==
  /\ \A x : Plain(Upsert(x)) /\ Plain(Eliminate(x)) /\ Plain(Soft(Eliminate(x))) /\ Plain(Pending(x))
  /\ \A x, y : Plain(Board(x, y))
  /\ \A x : \A d \in {"reread", "load", "try", "hedged", "flag", "judge", "sync", "refresh", "recheck"} :
       Plain(Call(d, x)) /\ Plain(Soft(Call(d, x)))
  /\ Plain(Remove) /\ Plain(Soft(Remove))
  /\ \A x \in {"RAW", "QUALIFIED", "SCORED", "ELIMINATED"} :
       Plain(Stage(x)) /\ Plain(Soft(Stage(x))) /\ Plain(Shift(x))
BY DEF Plain, PoolWrite, Own, Call, Soft, Upsert, Eliminate, Pending, Board, Remove, Stage, Shift

LEMMA PoolCalls ==
  /\ PoolWrite(Stage("COPY_POOL")) /\ PoolWrite(Shift("COPY_POOL"))
  /\ \A y : Admits(Board(TRUE, y))
  /\ \A c : PoolWrite(c) => Admits(c)
BY DEF PoolWrite, Admits, Call, Stage, Shift, Board

\* Admitted and then written: the end of every entry.
LEMMA OrderlyEnter ==
  ASSUME NEW c, Plain(c), NEW d, Plain(d), Admits(d), NEW e, PoolWrite(e)
  PROVE  /\ Orderly(<<d, e>>) /\ Orderly(<<c, d, e>>)
         /\ <<c, d, e>> # <<>> /\ Admits(<<c, d, e>>[Len(<<c, d, e>>)])
<1>1. <<c, d, e>> \in Seq({c, d, e}) /\ <<d, e>> \in Seq({d, e})
  OBVIOUS
<1>2. IsSeq(<<c, d, e>>) /\ IsSeq(<<d, e>>)
  BY <1>1, SeqIsSeq
<1> QED
  BY <1>2 DEF Orderly, Admits

LEMMA EnterOrderly == Orderly(Enter)
BY OrderlyEnter, PlainCalls, PoolCalls DEF Enter

LEMMA OrderlyFour ==
  ASSUME NEW c, Plain(c), NEW d, Plain(d), NEW e, Plain(e), NEW f, Plain(f) PROVE Orderly(<<c, d, e, f>>)
<1>1. <<c, d, e, f>> \in Seq({c, d, e, f})
  OBVIOUS
<1>2. IsSeq(<<c, d, e, f>>)
  BY <1>1, SeqIsSeq
<1> QED
  BY <1>2 DEF Orderly

LEMMA WritesOrderly ==
  ASSUME NEW v, NEW s
  PROVE  /\ Orderly(Writes(v, s))
         /\ v \in {"enters", "stays"} => Writes(v, s) # <<>> /\ Admits(Writes(v, s)[Len(Writes(v, s))])
<1>1. CASE v \in {"enters", "stays"}
  <2>1. PICK b \in {"yes", "no", "keep"} : Writes(v, s) = <<Upsert(s), Board(TRUE, b), Shift("COPY_POOL")>>
    BY <1>1 DEF Writes
  <2> QED
    BY <2>1, OrderlyEnter, PlainCalls, PoolCalls
<1>2. CASE v \in {"hard flag", "uncomputed", "exit"}
  <2>1. Writes(v, s) = <<Remove, Eliminate(TRUE)>> \/ Writes(v, s) = <<Upsert(s), Remove>>
    BY <1>2 DEF Writes
  <2> QED
    BY <1>2, <2>1, OrderlyTwo, PlainCalls
<1>3. CASE v \in {"inactive", "low", "not ready"}
  <2>1. \/ Writes(v, s) = <<Upsert(s), Remove, Soft(Eliminate(FALSE))>>
        \/ Writes(v, s) = <<Upsert(s), Remove, Eliminate(FALSE)>>
        \/ Writes(v, s) = <<Shift("SCORED"), Upsert(s), Board(FALSE, "yes")>>
    BY <1>3 DEF Writes
  <2> QED
    BY <1>3, <2>1, OrderlyThree, PlainCalls
<1>4. CASE v = "too low"
  <2>1. Writes(v, s) = <<Shift("SCORED"), Upsert(s), Board(FALSE, "no"), Eliminate(FALSE)>>
    BY <1>4 DEF Writes
  <2> QED
    BY <1>4, <2>1, OrderlyFour, PlainCalls
<1>5. CASE v \notin {"enters", "stays", "hard flag", "uncomputed", "exit", "inactive", "low", "not ready", "too low"}
  <2>1. Writes(v, s) = <<Eliminate(TRUE)>> \/ Writes(v, s) = <<Shift("SCORED")>>
    BY <1>5 DEF Writes
  <2> QED
    BY <1>5, <2>1, OrderlyOne, PlainCalls
<1> QED
  BY <1>1, <1>2, <1>3, <1>4, <1>5

LEMMA AfterFollows ==
  ASSUME NEW v, NEW s, NEW over
  PROVE  Follows(Writes(v, s), AfterDeep(v, s, over)) /\ Follows(Writes(v, s), AfterGamma(v))
<1> DEFINE w == Writes(v, s)
           r == Soft(Call("reread", "gamma"))
<1>1. v \in {"enters", "stays"} => w # <<>> /\ Admits(w[Len(w)])
  BY WritesOrderly
<1>2. Plain(r)
  BY PlainCalls
<1> HIDE DEF w, r
<1>3. CASE v \in {"enters", "stays"}
  <2> DEFINE p == Stage("COPY_POOL")
  <2>1. PoolWrite(p) /\ Admits(p)
    BY PoolCalls
  <2>2. AfterDeep(v, s, over) = <<p>> /\ AfterGamma(v) = <<p>> \o <<r>>
    BY <1>3 DEF AfterDeep, AfterGamma, r
  <2> HIDE DEF p
  <2> DEFINE x == <<p>> \o <<r>>
  <2>3. IsSeq(<<p>>) /\ Len(<<p>>) = 1 /\ <<p>>[1] = p /\ IsSeq(<<r>>) /\ Len(<<r>>) = 1 /\ <<r>>[1] = r
    BY Single
  <2>4. IsSeq(x) /\ Len(x) = 2 /\ x[1] = p /\ x[2] = r
    BY <2>3, Joined
  <2> HIDE DEF x
  <2>5. Follows(w, <<p>>) /\ Follows(w, x)
    BY <1>1, <1>2, <1>3, <2>1, <2>3, <2>4 DEF Follows
  <2> QED
    BY <2>2, <2>5 DEF w, x
<1>4. CASE v \notin {"enters", "stays"}
  <2>1. Orderly(AfterDeep(v, s, over))
    <3>1. \/ AfterDeep(v, s, over) = <<Stage("SCORED")>> \/ AfterDeep(v, s, over) = <<>>
          \/ AfterDeep(v, s, over) = <<Soft(Remove), Eliminate(TRUE)>>
      BY <1>4 DEF AfterDeep
    <3> QED
      BY <3>1, OrderlyNone, OrderlyOne, OrderlyTwo, PlainCalls
  <2>2. Orderly(AfterGamma(v))
    <3>1. AfterGamma(v) = <<Stage("SCORED")>> \o <<r>> \/ AfterGamma(v) = <<>> \o <<r>>
      BY <1>4 DEF AfterGamma, r
    <3>2. Orderly(<<Stage("SCORED")>>) /\ Orderly(<<>>) /\ Orderly(<<r>>)
      BY <1>2, OrderlyNone, OrderlyOne, PlainCalls
    <3> QED
      BY <3>1, <3>2, OrderlyJoin, OrderlyFollows
  <2> QED
    BY <2>1, <2>2, OrderlyFollows
<1> QED
  BY <1>3, <1>4
-----------------------------------------------------------------------------
LEMMA SyncsInv == ASSUME LanesInv, NEW l \in Lanes, ~Crosses, Syncs(l) PROVE LanesInv'
<1>1. Calls(l, "sync") /\ UNCHANGED <<stage, board>> /\ DOMAIN board = BoardFields
  BY DEF Syncs, LanesInv
<1>2. PICK v, over :
        GoesOn(l, Writes(v, With(l)) \o IF With(l).by = "deep" THEN AfterDeep(v, With(l), over) ELSE AfterGamma(v))
  BY DEF Syncs
<1> DEFINE more == Writes(v, With(l)) \o IF With(l).by = "deep" THEN AfterDeep(v, With(l), over) ELSE AfterGamma(v)
<1>3. Orderly(more)
  <2>1. Orderly(Writes(v, With(l))) /\ Follows(Writes(v, With(l)), AfterDeep(v, With(l), over))
        /\ Follows(Writes(v, With(l)), AfterGamma(v))
    BY WritesOrderly, AfterFollows
  <2> QED
    BY <2>1, OrderlyJoin
<1>4. GoesOn(l, more)
  BY <1>2
<1> HIDE DEF more
<1> QED
  BY <1>1, <1>3, <1>4, CallInv

LEMMA GammaLoadsInv == ASSUME LanesInv, NEW l \in Lanes, ~Crosses, GammaLoads(l) PROVE LanesInv'
<1>1. Calls(l, "load") /\ stage' = stage
  BY DEF GammaLoads
<1>2. DOMAIN board' = BoardFields /\ board'.on = board.on
  BY DEF GammaLoads, LanesInv, BoardFields
<1>3. PICK x : GoesOn(l, <<Call("sync", x)>>)
  BY DEF GammaLoads
<1>4. Orderly(<<Call("sync", x)>>)
  BY OrderlyOne, PlainCalls
<1> QED
  BY <1>1, <1>2, <1>3, <1>4, CallInv

LEMMA TriesInv == ASSUME LanesInv, NEW l \in Lanes, ~Crosses, Tries(l) PROVE LanesInv'
<1>1. Calls(l, "try") /\ UNCHANGED <<stage, board>> /\ DOMAIN board = BoardFields
  BY DEF Tries, LanesInv
<1>2. Orderly(IF MayEnter THEN Enter ELSE <<>>)
  BY EnterOrderly, OrderlyNone
<1>3. GoesOn(l, IF MayEnter THEN Enter ELSE <<>>)
  BY DEF Tries
<1> QED
  BY <1>1, <1>2, <1>3, CallInv

LEMMA RereadsInv == ASSUME LanesInv, NEW l \in Lanes, ~Crosses, Rereads(l) PROVE LanesInv'
<1>1. Calls(l, "reread") /\ UNCHANGED <<stage, board>> /\ DOMAIN board = BoardFields
  BY DEF Rereads, LanesInv
<1> DEFINE c == [Call("refresh", [hard |-> board.hard, by |-> With(l)]) EXCEPT !.soft = Head(work[l].todo).soft]
<1>2. GoesOn(l, <<c>>)
  BY DEF Rereads
<1>3. Plain(c)
  BY DEF Plain, PoolWrite, Own, Call
<1> HIDE DEF c
<1> QED
  BY <1>1, <1>2, <1>3, OrderlyOne, CallInv

LEMMA RefreshesInv == ASSUME LanesInv, NEW l \in Lanes, ~Crosses, Refreshes(l) PROVE LanesInv'
<1>1. Calls(l, "refresh") /\ stage' = stage
  BY DEF Refreshes
<1>2. DOMAIN board' = BoardFields /\ board'.on = board.on
  BY DEF Refreshes, LanesInv, BoardFields
<1>3. PICK c : GoesOn(l, IF With(l).by = "enrich" THEN <<Call("judge", c)>> ELSE <<>>)
  BY DEF Refreshes
<1>4. Orderly(IF With(l).by = "enrich" THEN <<Call("judge", c)>> ELSE <<>>)
  BY OrderlyOne, OrderlyNone, PlainCalls
<1> QED
  BY <1>1, <1>2, <1>3, <1>4, CallInv

LEMMA JudgesInv == ASSUME LanesInv, NEW l \in Lanes, ~Crosses, Judges(l) PROVE LanesInv'
<1>1. Calls(l, "judge") /\ UNCHANGED <<stage, board>> /\ DOMAIN board = BoardFields
  BY DEF Judges, LanesInv
<1>2. \/ \E x : GoesOn(l, <<Remove, Eliminate(x)>>)
      \/ GoesOn(l, <<Remove>>) \/ GoesOn(l, <<Pending(FALSE)>>)
      \/ \E x : GoesOn(l, <<Eliminate(x), Pending(FALSE)>>)
      \/ GoesOn(l, Enter \o <<Pending(FALSE)>>)
  BY Zenon DEF Judges
<1>3. /\ \A x : Orderly(<<Remove, Eliminate(x)>>) /\ Orderly(<<Eliminate(x), Pending(FALSE)>>)
      /\ Orderly(<<Remove>>) /\ Orderly(<<Pending(FALSE)>>)
  BY PlainCalls, OrderlyOne, OrderlyTwo
<1>4. Orderly(Enter \o <<Pending(FALSE)>>)
  BY <1>3, EnterOrderly, OrderlyJoin, OrderlyFollows
<1>5. PICK more : GoesOn(l, more) /\ Orderly(more)
  BY <1>2, <1>3, <1>4
<1> QED
  BY <1>1, <1>5, CallInv

LEMMA HedgedInv == ASSUME LanesInv, NEW l \in Lanes, ~Crosses, Hedged(l) PROVE LanesInv'
<1>1. Calls(l, "hedged") /\ UNCHANGED <<stage, board>> /\ DOMAIN board = BoardFields
  BY DEF Hedged, LanesInv
<1> DEFINE a == <<Call("flag", "")>>
           b == IF board.on THEN <<Soft(Remove)>> ELSE <<>>
           c == <<Soft(Eliminate(TRUE))>>
<1>2. Orderly(a) /\ Orderly(b) /\ Orderly(c)
  BY PlainCalls, OrderlyOne, OrderlyNone
<1>3. GoesOn(l, a \o b \o c)
  BY DEF Hedged
<1> HIDE DEF a, b, c
<1>4. Orderly(a \o b \o c)
  BY <1>2, OrderlyJoin, OrderlyFollows
<1> QED
  BY <1>1, <1>3, <1>4, CallInv
-----------------------------------------------------------------------------
LEMMA QueuesInv == ASSUME LanesInv, NEW l \in Lanes, ~Crosses, Queues(l) PROVE LanesInv'
<1> DEFINE p == IF stage = "none" THEN "QUALIFIED" ELSE stage
           a == Mark("FULL")
           b == Call("score", p)
           more == <<a, b>>
<1>1. Calls(l, "queue") /\ UNCHANGED <<stage, board>> /\ DOMAIN board' = BoardFields /\ LaneOK(l)
  BY DEF Queues, LanesInv
<1>2. work[l].todo # <<>> /\ work[l].todo[1].does = "queue"
  BY <1>1, CallIs
<1>3. GoesOn(l, more)
  BY DEF Queues
<1>4. l = "deep"
  <2>1. 1 \in 1 .. Len(work[l].todo)
    BY <1>1, <1>2, FirstIsHead DEF LaneOK, TodoOK
  <2> QED
    BY <1>1, <1>2, <2>1 DEF LaneOK, TodoOK, OwnAt, Plain, PoolWrite, Own
<1>5. /\ a.does = "mark" /\ a.with = "FULL" /\ b.does = "score" /\ b.with = p /\ p # "none"
      /\ p = "COPY_POOL" <=> stage = "COPY_POOL"
  BY DEF Mark, Call
<1>6. ~Admits(work[l].todo[1])
  BY <1>2 DEF Admits, PoolWrite
<1> HIDE DEF a, b, p
<1>7. IsSeq(more) /\ Len(more) = 2 /\ more[1] = a /\ more[2] = b
  <2>1. more \in Seq({a, b})
    OBVIOUS
  <2> QED
    BY <2>1, SeqIsSeq
<1> HIDE DEF more
<1>8. TodoOK(l, more, work[l].catch) /\ ~PoolWrite(more[1])
  BY <1>4, <1>5, <1>7 DEF TodoOK, OwnAt, Own, PoolWrite
<1>9. Scoring(more) => stage = "COPY_POOL"
  BY <1>5, <1>7 DEF Scoring
<1>10. LaneGoes(l, more)
  BY <1>3, GoesIs
<1>11. /\ TodoOK(l, work'[l].todo, work'[l].catch) /\ CatchOK(work'[l].catch)
       /\ work'[l].todo # <<>> => ~PoolWrite(work'[l].todo[1])
       /\ Scoring(work'[l].todo) => stage = "COPY_POOL"
  BY <1>2, <1>6, <1>7, <1>8, <1>9, <1>10, GoesEffect
<1>12. ~(stage = "COPY_POOL" /\ ~board.on)
  BY <1>2, <1>10, NotHalfway DEF LaneGoes
<1>13. MayRestore(work'[l]) => stage # "none"
  BY <1>1, <1>2, <1>10, <1>11 DEF MayRestore, LaneOK, LaneGoes
<1> QED
  BY <1>1, <1>10, <1>11, <1>12, <1>13, LaneMoves DEF LaneGoes, WillPool

\* Deep leaves its last call with the stage it would restore.
LEMMA DeepInv ==
  ASSUME LanesInv, NEW l \in Lanes, ~Crosses, Calls(l, "score"), NEW todo, DeepGoesOn(l, todo),
         stage' = stage, DOMAIN board' = BoardFields, board'.on = board.on,
         Orderly(todo) \/ todo = Restore(With(l))
  PROVE  LanesInv'
<1> DEFINE s == work[l].todo
           p == With(l)
<1>1. LaneOK(l) /\ IsSeq(s) /\ s # <<>> /\ 1 \in 1 .. Len(s) /\ s[1].does = "score" /\ p = s[1].with
  <2>1. LaneOK(l) /\ work[l].todo # <<>> /\ work[l].todo[1].does = "score" /\ p = work[l].todo[1].with
    BY CallIs DEF LanesInv
  <2> QED
    BY <2>1, FirstIsHead DEF LaneOK, TodoOK
<1>2. l = "deep" /\ p # "none"
  BY <1>1 DEF LaneOK, TodoOK, OwnAt, Plain, PoolWrite, Own
<1>3. p = "COPY_POOL" => board.on /\ stage # "none"
  <2>1. p = "COPY_POOL" => Scoring(s)
    BY <1>1 DEF Scoring
  <2> QED
    BY <1>1, <2>1 DEF LaneOK, WillPool, MayRestore
<1>4. /\ WorkShape' /\ (\A k \in Lanes : k # l => work'[k] = work[k])
      /\ work'[l].catch = Restore(p) /\ work'[l].todo = todo \o Tail(s)
  BY DEF LanesInv, WorkShape, DeepGoesOn
<1>5. ~(stage = "COPY_POOL" /\ ~board.on)
  <2>1. work[l].todo[1].does \notin {"close", "scored"}
    BY <1>1
  <2> QED
    BY <1>4, <2>1, NotHalfway
<1>6. TodoOK(l, s, Restore(p))
  BY <1>1, <1>2 DEF LaneOK, TodoOK, OwnAt
<1> HIDE DEF s, p
<1>7. \/ Restore(p) = <<>>
      \/ \E c : /\ Restore(p) = <<c>> /\ c.does = "stage" /\ c.with # "none"
                /\ c.with = "COPY_POOL" => p = "COPY_POOL"
  <2>1. CASE p = "ELIMINATED"
    BY <2>1 DEF Restore
  <2>2. CASE p # "ELIMINATED"
    <3> DEFINE q == IF p \in {"FULL", "LIGHT"} THEN "QUALIFIED" ELSE p
               c == Soft(Stage(q))
    <3>1. Restore(p) = <<c>>
      BY <2>2 DEF Restore
    <3>2. c.does = "stage" /\ c.with = q
      BY DEF Soft, Stage, Call
    <3>3. q # "none" /\ (q = "COPY_POOL" => p = "COPY_POOL")
      BY <1>2
    <3> HIDE DEF c, q
    <3> QED
      BY <3>1, <3>2, <3>3
  <2> QED
    BY <2>1, <2>2
<1>8. CatchOK(Restore(p)) /\ \A c : Restore(p) = <<c>> /\ PoolWrite(c) => p = "COPY_POOL"
  <2>1. CatchOK(Restore(p))
    BY <1>7 DEF CatchOK
  <2>2. ASSUME NEW c, Restore(p) = <<c>>, PoolWrite(c) PROVE p = "COPY_POOL"
    <3>1. PICK d : Restore(p) = <<d>> /\ (d.with = "COPY_POOL" => p = "COPY_POOL")
      BY <1>7, <2>2, Single
    <3>2. c = d
      BY <2>2, <3>1
    <3> QED
      BY <2>2, <3>1, <3>2 DEF PoolWrite
  <2> QED
    BY <2>1, <2>2
<1>9. /\ IsSeq(todo) /\ TodoOK(l, todo, Restore(p)) /\ ~Scoring(todo)
      /\ todo # <<>> /\ PoolWrite(todo[1]) => p = "COPY_POOL"
  <2>1. CASE Orderly(todo)
    BY <2>1, OrderlyIsOK
  <2>2. CASE todo = Restore(p)
    <3>1. CASE todo = <<>>
      BY <3>1, OrderlyNone, OrderlyIsOK
    <3>2. CASE todo # <<>>
      <4>1. PICK c : /\ todo = <<c>> /\ c.does = "stage" /\ c.with # "none"
                     /\ c.with = "COPY_POOL" => p = "COPY_POOL"
        BY <1>7, <2>2, <3>2
      <4>2. IsSeq(todo) /\ Len(todo) = 1 /\ todo[1] = c
        BY <4>1, Single
      <4>3. PoolWrite(c) \/ Plain(c)
        BY <4>1 DEF Plain, Own
      <4>4. IsSeq(todo) /\ TodoOK(l, todo, Restore(p))
        BY <4>2, <4>3 DEF TodoOK
      <4>5. ~Scoring(todo)
        BY <4>1, <4>2 DEF Scoring
      <4> QED
        BY <4>1, <4>2, <4>4, <4>5 DEF PoolWrite
    <3> QED
      BY <3>1, <3>2
  <2> QED
    BY <2>1, <2>2 DEF p
<1>10. s # <<>> /\ ~Admits(s[1]) /\ s[1].does # "mark"
  BY <1>1 DEF Admits, PoolWrite
<1>11. /\ TodoOK(l, todo \o Tail(s), Restore(p)) /\ ~Scoring(todo \o Tail(s))
       /\ todo \o Tail(s) # <<>> /\ PoolWrite((todo \o Tail(s))[1]) => p = "COPY_POOL"
  BY <1>6, <1>9, <1>10, GoesOnOK
<1>12. WillPool(work'[l].todo) => board'.on
  BY <1>3, <1>4, <1>11 DEF WillPool
<1>13. MayRestore(work'[l]) => stage' # "none"
  BY <1>3, <1>4, <1>8, <1>11 DEF MayRestore
<1> QED
  BY <1>4, <1>5, <1>8, <1>11, <1>12, <1>13, LaneMoves

LEMMA DeepScoresInv == ASSUME LanesInv, NEW l \in Lanes, ~Crosses, DeepScores(l) PROVE LanesInv'
<1>1. Calls(l, "score") /\ stage' = stage
  BY DEF DeepScores
<1>2. DOMAIN board' = BoardFields /\ board'.on = board.on
  BY DEF DeepScores, LanesInv, BoardFields, Cached
<1>3. \/ DeepGoesOn(l, Restore(With(l)))
      \/ \E x : DeepGoesOn(l, <<Soft(Remove), Eliminate(x)>>)
      \/ \E x : DeepGoesOn(l, <<Call("sync", x)>>)
  BY DEF DeepScores
<1>4. /\ \A x : Orderly(<<Soft(Remove), Eliminate(x)>>)
      /\ \A x : Orderly(<<Call("sync", x)>>)
  BY PlainCalls, OrderlyOne, OrderlyTwo
<1>5. PICK todo : DeepGoesOn(l, todo) /\ (Orderly(todo) \/ todo = Restore(With(l)))
  BY <1>3, <1>4
<1> QED
  BY <1>1, <1>2, <1>5, DeepInv

LEMMA RechecksInv == ASSUME LanesInv, NEW l \in Lanes, ~Crosses, Rechecks(l) PROVE LanesInv'
<1>1. Calls(l, "recheck") /\ UNCHANGED <<stage, board>> /\ DOMAIN board = BoardFields
  BY DEF Rechecks, LanesInv
<1>2. CASE GoesOn(l, <<Shift("ELIMINATED")>>)
  <2>1. Orderly(<<Shift("ELIMINATED")>>)
    BY PlainCalls, OrderlyOne
  <2> QED
    BY <1>1, <1>2, <2>1, CallInv
<1>3. CASE \E out \in Outcomes : work' = [work EXCEPT ![l] = [todo |-> <<Looked(out)>>, catch |-> <<Soft(Stage("RAW"))>>]]
  <2>1. PICK out \in Outcomes : work' = [work EXCEPT ![l] = [todo |-> <<Looked(out)>>, catch |-> <<Soft(Stage("RAW"))>>]]
    BY <1>3
  <2> DEFINE c == Soft(Stage("RAW"))
             t == <<Looked(out)>>
  <2>2. /\ WorkShape' /\ (\A k \in Lanes : k # l => work'[k] = work[k])
        /\ work'[l].todo = t /\ work'[l].catch = <<c>>
    BY <2>1 DEF LanesInv, WorkShape
  <2>3. Orderly(t)
    BY PlainCalls, OrderlyOne DEF Looked
  <2>4. c.does = "stage" /\ c.with = "RAW"
    BY DEF Soft, Stage, Call
  <2> HIDE DEF c, t
  <2>5. CatchOK(<<c>>) /\ \A d : <<c>> = <<d>> => ~PoolWrite(d)
    BY <2>4 DEF CatchOK, PoolWrite
  <2>6. TodoOK(l, t, <<c>>) /\ ~WillPool(t) /\ ~Scoring(t)
    BY <2>3, OrderlyIsOK DEF WillPool
  <2>7. ~(stage = "COPY_POOL" /\ ~board.on)
    <3>1. work[l].todo[1].does = "recheck"
      BY <1>1, CallIs
    <3> QED
      BY <2>2, <3>1, NotHalfway
  <2> QED
    BY <1>1, <2>2, <2>5, <2>6, <2>7, LaneMoves DEF MayRestore
<1> QED
  BY <1>2, <1>3 DEF Rechecks

LEMMA DeletesInv == ASSUME LanesInv, NEW l \in Lanes, ~Crosses, Deletes(l) PROVE LanesInv'
<1>1. Calls(l, "delete") /\ GoesOn(l, <<>>) /\ stage' = "none"
  BY DEF Deletes
<1>2. DOMAIN board' = BoardFields
  BY DEF Deletes, LanesInv
<1> QED
  BY <1>1, <1>2, OrderlyNone, CallInv

\* The calls of a flush follow each other.
LEMMA FlushCall ==
  ASSUME LanesInv, NEW l \in Lanes, NEW d \in {"demote", "close", "purge", "scored"}, Calls(l, d)
  PROVE  /\ l = "flush" /\ LaneOK(l) /\ IsSeq(work[l].todo) /\ work[l].todo # <<>> /\ work[l].todo[1].does = d
         /\ d = "demote" => 1 < Len(work[l].todo) /\ work[l].todo[2].does = "close"
<1>1. LaneOK(l) /\ work[l].todo # <<>> /\ work[l].todo[1].does = d
  BY CallIs DEF LanesInv
<1>2. IsSeq(work[l].todo) /\ 1 \in 1 .. Len(work[l].todo)
  BY <1>1, FirstIsHead DEF LaneOK, TodoOK
<1>3. OwnAt(l, work[l].todo, work[l].catch, 1)
  BY <1>1, <1>2 DEF LaneOK, TodoOK, Plain, PoolWrite, Own
<1> QED
  BY <1>1, <1>2, <1>3 DEF OwnAt

LEMMA DemotesInv == ASSUME LanesInv, NEW l \in Lanes, ~Crosses, Demotes(l) PROVE LanesInv'
<1>1. Calls(l, "demote") /\ GoesOn(l, <<>>) /\ stage' = stage /\ DOMAIN board = BoardFields
  BY DEF Demotes, LanesInv
<1>2. l = "flush" /\ IsSeq(work[l].todo) /\ work[l].todo # <<>> /\ 1 < Len(work[l].todo) /\ work[l].todo[2].does = "close"
  BY <1>1, FlushCall
<1>3. CASE board' = board
  BY <1>1, <1>3, OrderlyNone, CallInv
<1>4. CASE board' = [board EXCEPT !.on = FALSE, !.pending = FALSE, !.hard = "negative"]
  <2>1. DOMAIN board' = BoardFields /\ board'.hard = "negative"
    BY <1>1, <1>4 DEF BoardFields
  <2>2. /\ IsSeq(Tail(work[l].todo)) /\ Len(Tail(work[l].todo)) = Len(work[l].todo) - 1 /\ Len(work[l].todo) \in Nat
        /\ \A i \in 1 .. Len(work[l].todo) - 1 : Tail(work[l].todo)[i] = work[l].todo[i + 1]
    BY <1>2, TailOf
  <2>3. work'[l].todo = Tail(work[l].todo)
    <3>1. work'[l].todo = <<>> \o Tail(work[l].todo)
      BY <1>1, GoesIs DEF LaneGoes
    <3> QED
      BY <2>2, <3>1 DEF IsSeq
  <2>4. work'[l].todo # <<>> /\ work'[l].todo[1] = work[l].todo[2]
    <3> DEFINE n == Len(work[l].todo)
               t == Tail(work[l].todo)
    <3>1. n \in Nat /\ 1 < n /\ Len(t) = n - 1 /\ IsSeq(t) /\ \A i \in 1 .. n - 1 : t[i] = work[l].todo[i + 1]
      BY <1>2, <2>2
    <3> HIDE DEF n, t
    <3>2. 1 \in 1 .. n - 1 /\ n - 1 # 0
      BY <3>1
    <3>3. t[1] = work[l].todo[2]
      BY <3>1, <3>2
    <3>4. t # <<>>
      BY <3>1, <3>2
    <3> QED
      BY <2>3, <3>3, <3>4 DEF t
  <2>5. Halfway'
    BY <1>2, <2>1, <2>4 DEF Halfway
  <2> QED
    BY <1>1, <2>1, <2>5, OrderlyNone, CallInv
<1> QED
  BY <1>3, <1>4 DEF Demotes

LEMMA ClosesInv == ASSUME LanesInv, NEW l \in Lanes, ~Crosses, Closes(l) PROVE LanesInv'
<1>1. /\ Calls(l, "close") /\ LaneGoes(l, <<>>) /\ board' = board /\ DOMAIN board = BoardFields
      /\ IF ~board.on /\ board.hard = "negative" /\ stage = "COPY_POOL" THEN stage' = "ELIMINATED" ELSE stage' = stage
  BY GoesIs DEF Closes, LanesInv
<1>2. l = "flush" /\ work[l].todo # <<>> /\ work[l].todo[1].does = "close"
  BY <1>1, FlushCall
<1>3. ~(stage' = "COPY_POOL" /\ ~board'.on)
  BY <1>1, <1>2 DEF LanesInv, Halfway
<1>4. ~Admits(work[l].todo[1])
  BY <1>2 DEF Admits, PoolWrite
<1> QED
  BY <1>1, <1>2, <1>3, <1>4, OrderlyNone, GoesInv

LEMMA PurgesInv == ASSUME LanesInv, NEW l \in Lanes, ~Crosses, Purges(l) PROVE LanesInv'
<1>1. DOMAIN board = BoardFields
  BY DEF LanesInv
<1>2. CASE Calls(l, "purge") /\ GoesOn(l, <<>>) /\ UNCHANGED <<board, stage>>
  BY <1>1, <1>2, OrderlyNone, CallInv
<1>3. CASE /\ Calls(l, "scored") /\ GoesOn(l, <<>>) /\ board' = board
           /\ stage' = IF ~board.on /\ board.score = "exit" /\ stage = "COPY_POOL" THEN "SCORED" ELSE stage
  <2>1. l = "flush" /\ work[l].todo # <<>> /\ work[l].todo[1].does = "scored" /\ LaneGoes(l, <<>>)
    BY <1>3, FlushCall, GoesIs
  <2>2. ~(stage' = "COPY_POOL" /\ ~board'.on)
    BY <1>3, <2>1 DEF LanesInv, Halfway
  <2>3. ~Admits(work[l].todo[1])
    BY <2>1 DEF Admits, PoolWrite
  <2> QED
    BY <1>1, <1>3, <2>1, <2>2, <2>3, OrderlyNone, GoesInv
<1>4. CASE /\ Calls(l, "purge") /\ board.score = "exit" /\ GoesOn(l, <<Call("scored", "")>>) /\ stage' = stage
           /\ board' = [board EXCEPT !.on = FALSE, !.pending = FALSE]
  <2> DEFINE c == Call("scored", "")
             more == <<c>>
  <2>1. l = "flush" /\ work[l].todo # <<>> /\ work[l].todo[1].does = "purge" /\ LaneGoes(l, more) /\ LaneOK(l)
        /\ IsSeq(work[l].todo)
    BY <1>4, FlushCall, GoesIs
  <2>2. c.does = "scored"
    BY DEF Call
  <2> HIDE DEF c
  <2>3. IsSeq(more) /\ Len(more) = 1 /\ more[1] = c /\ more # <<>>
    BY Single
  <2>4. DOMAIN board' = BoardFields /\ board'.score = "exit"
    BY <1>1, <1>4 DEF BoardFields
  <2> HIDE DEF more
  <2>5. TodoOK(l, more, work[l].catch) /\ ~PoolWrite(more[1]) /\ ~Scoring(more)
    BY <2>1, <2>2, <2>3 DEF TodoOK, OwnAt, Own, PoolWrite, Scoring
  <2>6. ~Admits(work[l].todo[1]) /\ work[l].todo[1].does # "mark"
    BY <2>1 DEF Admits, PoolWrite
  <2>7. /\ TodoOK(l, work'[l].todo, work'[l].catch) /\ CatchOK(work'[l].catch)
        /\ work'[l].todo # <<>> => ~PoolWrite(work'[l].todo[1])
        /\ ~Scoring(work'[l].todo)
    BY <2>1, <2>3, <2>5, <2>6, GoesEffect
  <2>8. work'[l].todo # <<>> /\ work'[l].todo[1] = c
    <3>1. IsSeq(Tail(work[l].todo))
      BY <2>1, TailOf
    <3> DEFINE t == Tail(work[l].todo)
               x == more \o t
               n == Len(t)
    <3>2. IsSeq(x) /\ Len(x) = Len(more) + n /\ n \in Nat /\ \A i \in 1 .. Len(more) + n : x[i] = IF i <= Len(more) THEN more[i] ELSE t[i - Len(more)]
      BY <2>3, <3>1, Joined
    <3>3. work'[l].todo = x
      BY <2>1 DEF LaneGoes
    <3> HIDE DEF t, x, n
    <3>4. 1 \in 1 .. Len(more) + n /\ 1 <= Len(more) /\ Len(more) + n # 0
      BY <2>3, <3>2
    <3>5. x[1] = c /\ x # <<>>
      BY <2>3, <3>2, <3>4
    <3> QED
      BY <3>3, <3>5
  <2>9. Halfway'
    BY <2>1, <2>2, <2>4, <2>8 DEF Halfway
  <2>10. MayRestore(work'[l]) => stage # "none"
    BY <2>1, <2>7 DEF MayRestore, LaneOK, LaneGoes
  <2> QED
    BY <1>4, <2>1, <2>4, <2>7, <2>9, <2>10, LaneMoves DEF LaneGoes, WillPool
<1> QED
  BY <1>2, <1>3, <1>4 DEF Purges
-----------------------------------------------------------------------------
LEMMA RawAfterError ==
  ASSUME NEW d \in {Soft(Stage("RAW")), Soft(Eliminate(FALSE))}
  PROVE  CatchOK(<<d>>) /\ \A c : <<d>> = <<c>> => ~PoolWrite(c)
<1>1. d.does \in {"stage", "eliminate"} /\ (d.does = "stage" => d.with = "RAW")
  BY DEF Soft, Stage, Eliminate, Call
<1> QED
  BY <1>1 DEF CatchOK, PoolWrite

LEMMA NoCatch == CatchOK(<<>>) /\ \A c : <<>> = <<c>> => ~PoolWrite(c)
BY Single DEF CatchOK

\* A call that only its own lane makes.
LEMMA OwnStart ==
  ASSUME NEW l, NEW d, (d = "queue" /\ l = "deep") \/ (d = "delete" /\ l = "recheck")
  PROVE  TodoOK(l, <<Call(d, "")>>, <<>>) /\ ~WillPool(<<Call(d, "")>>)
<1> DEFINE c == Call(d, "")
           s == <<c>>
<1>1. c.does = d
  BY DEF Call
<1> HIDE DEF c
<1>2. IsSeq(s) /\ Len(s) = 1 /\ s[1] = c
  BY Single
<1> HIDE DEF s
<1>3. \A i \in 1 .. Len(s) : i = 1
  BY <1>2
<1>4. s[1].does \in Own /\ OwnAt(l, s, <<>>, 1) /\ s[1].does \notin {"stage", "shift", "score"}
  BY <1>1, <1>2 DEF Own, OwnAt
<1>5. TodoOK(l, s, <<>>) /\ ~WillPool(s)
  BY <1>1, <1>2, <1>3, <1>4 DEF TodoOK, WillPool, Scoring, PoolWrite
<1> QED
  BY <1>5 DEF c, s

LEMMA PicksInv == ASSUME LanesInv, ~Crosses, Picks PROVE LanesInv'
<1> USE NoCatch, PlainCalls DEF Lanes
<1>1. CASE LightCaps
  <2>1. Starts("light", <<Eliminate(TRUE)>>, <<>>)
    BY <1>1 DEF LightCaps
  <2> QED
    BY <2>1, OrderlyOne, StartsOrderly
<1>2. CASE LightPicks
  <2>1. PICK out \in Outcomes : Starts("light", <<Mark("LIGHT"), Looked(out)>>, <<Soft(Stage("RAW"))>>)
    BY <1>2 DEF LightPicks
  <2> DEFINE a == Mark("LIGHT")
             b == Looked(out)
             s == <<a, b>>
             catch == <<Soft(Stage("RAW"))>>
  <2>2. a.does = "mark" /\ a.with = "LIGHT" /\ Plain(b)
    BY DEF Mark, Call, Looked
  <2>3. CatchOK(catch) /\ \A c : catch = <<c>> => ~PoolWrite(c)
    BY RawAfterError
  <2>4. Starts("light", s, catch)
    BY <2>1
  <2> HIDE DEF a, b, catch
  <2>5. IsSeq(s) /\ Len(s) = 2 /\ s[1] = a /\ s[2] = b
    <3>1. s \in Seq({a, b})
      OBVIOUS
    <3> QED
      BY <3>1, SeqIsSeq
  <2> HIDE DEF s
  <2>6. TodoOK("light", s, catch) /\ ~WillPool(s)
    BY <2>2, <2>5 DEF TodoOK, OwnAt, Own, WillPool, Scoring, PoolWrite, Plain
  <2> QED
    BY <2>3, <2>4, <2>6, StartsInv
<1>3. CASE DeepPicks
  <2>1. Starts("deep", <<Call("queue", "")>>, <<>>)
    BY <1>3 DEF DeepPicks
  <2>2. TodoOK("deep", <<Call("queue", "")>>, <<>>) /\ ~WillPool(<<Call("queue", "")>>)
    BY OwnStart
  <2> QED
    BY <2>1, <2>2, StartsInv
<1>4. CASE PromotePicks \/ EnrichPicks \/ GammaPicks \/ CurvePicks
  <2>1. PICK l \in Lanes, d \in {"try", "reread", "load", "hedged"} : \E x : Starts(l, <<Call(d, x)>>, <<>>)
    BY <1>4 DEF PromotePicks, EnrichPicks, GammaPicks, CurvePicks
  <2>2. PICK x : Starts(l, <<Call(d, x)>>, <<>>)
    BY <2>1
  <2> QED
    BY <2>1, <2>2, OrderlyOne, StartsOrderly
<1>5. CASE RecheckPicks
  <2>1. CASE Starts("recheck", <<Call("recheck", "")>>, <<Soft(Eliminate(FALSE))>>)
    BY <2>1, RawAfterError, OrderlyOne, StartsOrderly
  <2>2. CASE Starts("recheck", <<Call("delete", "")>>, <<>>)
    BY <2>2, OwnStart, StartsInv
  <2> QED
    BY <1>5, <2>1, <2>2 DEF RecheckPicks
<1>6. CASE FlushPicks
  <2> DEFINE a == Call("demote", "")
             b == Call("close", "")
             c == Call("purge", "")
             s == <<a, b, c>>
  <2>1. Starts("flush", s, <<>>)
    BY <1>6 DEF FlushPicks
  <2>2. a.does = "demote" /\ b.does = "close" /\ c.does = "purge"
    BY DEF Call
  <2> HIDE DEF a, b, c
  <2>3. IsSeq(s) /\ Len(s) = 3 /\ s[1] = a /\ s[2] = b /\ s[3] = c
    <3>1. s \in Seq({a, b, c})
      OBVIOUS
    <3> QED
      BY <3>1, SeqIsSeq
  <2> HIDE DEF s
  <2>4. \A i \in 1 .. 3 : s[i].does \in Own /\ OwnAt("flush", s, <<>>, i)
    BY <2>2, <2>3 DEF OwnAt, Own
  <2>5. TodoOK("flush", s, <<>>) /\ ~WillPool(s)
    BY <2>2, <2>3, <2>4 DEF TodoOK, WillPool, Scoring, PoolWrite
  <2> QED
    BY <2>1, <2>5, StartsInv
<1> QED
  BY <1>1, <1>2, <1>3, <1>4, <1>5, <1>6 DEF Picks

\* An address found again, forgotten rows, and the repairs.
LEMMA BesideInv == ASSUME LanesInv, ~Crosses, Requeues \/ Found \/ Repairs PROVE LanesInv'
<1>1. CASE Requeues
  <2>1. DOMAIN board' = BoardFields /\ board'.on = board.on
    BY <1>1 DEF Requeues, LanesInv, BoardFields
  <2> QED
    BY <1>1, <2>1, StillInv DEF Requeues
<1>2. CASE Found \/ Reconciles \/ Recovers
  <2>1. DOMAIN board = BoardFields
    BY DEF LanesInv
  <2> QED
    BY <1>2, <2>1, StillInv DEF Found, Reconciles, Recovers
<1> QED
  BY <1>1, <1>2 DEF Repairs

LEMMA LaneStepsInv == ASSUME LanesInv, NEW l \in Lanes, ~Crosses, LaneSteps(l) PROVE LanesInv'
<1>1. CASE Marks(l) \/ StageWritten(l) \/ Eliminates(l) \/ Removes(l) \/ RowWritten(l)
  BY <1>1, MarksInv, StageWrittenInv, EliminatesInv, RemovesInv, RowWrittenInv
<1>2. CASE Queues(l) \/ DeepScores(l) \/ Syncs(l) \/ GammaLoads(l)
  BY <1>2, QueuesInv, DeepScoresInv, SyncsInv, GammaLoadsInv
<1>3. CASE Tries(l) \/ Rereads(l) \/ Refreshes(l) \/ Judges(l) \/ Hedged(l) \/ Rechecks(l) \/ Deletes(l)
  BY <1>3, TriesInv, RereadsInv, RefreshesInv, JudgesInv, HedgedInv, RechecksInv, DeletesInv
<1>4. CASE Demotes(l) \/ Closes(l) \/ Purges(l)
  BY <1>4, DemotesInv, ClosesInv, PurgesInv
<1> QED
  BY <1>1, <1>2, <1>3, <1>4 DEF LaneSteps

LEMMA PipelineStarts == PipelineInit => PipelineInv
<1> SUFFICES ASSUME PipelineInit PROVE PipelineInv
  OBVIOUS
<1>1. WorkShape /\ \A l \in Lanes : work[l].todo = <<>> /\ work[l].catch = <<>>
  BY DEF PipelineInit, NoWork, WorkShape
<1>2. DOMAIN board = BoardFields
  BY DEF PipelineInit, BoardFields
<1>3. ASSUME NEW l \in Lanes PROVE LaneOK(l)
  BY <1>1, NoCatch, OrderlyNone, OrderlyIsOK DEF LaneOK, WillPool, MayRestore
<1>4. stage = "COPY_POOL" => board.on
  BY DEF PipelineInit, AtRest
<1> QED
  BY <1>1, <1>2, <1>3, <1>4 DEF PipelineInv, LanesInv, PipelineInit

LEMMA PipelineStep == PipelineInv /\ [PipelineNext]_pipelineVars => PipelineInv'
<1> SUFFICES ASSUME PipelineInv, [PipelineNext]_pipelineVars PROVE PipelineInv'
  OBVIOUS
<1>1. CASE UNCHANGED pipelineVars
  <2>1. LanesInv => LanesInv'
    BY <1>1 DEF pipelineVars, LanesInv, WorkShape, LaneOK, Halfway
  <2> QED
    BY <1>1, <2>1 DEF PipelineInv, pipelineVars
<1>2. CASE Works /\ Remembers(FALSE)
  <2>1. crossed' = (crossed \/ Crosses)
    BY <1>2, Zenon DEF Remembers
  <2>2. ASSUME ~crossed' PROVE LanesInv'
    <3>1. ~Crosses /\ LanesInv
      BY <2>1, <2>2 DEF PipelineInv
    <3> QED
      BY <1>2, <3>1, PicksInv, LaneStepsInv, BesideInv DEF Works
  <2> QED
    BY <2>1, <2>2, Zenon DEF PipelineInv
<1>3. CASE Faults /\ Remembers(TRUE)
  <2>1. crossed' = TRUE
    BY <1>3, Zenon DEF Remembers
  <2> QED
    BY <2>1 DEF PipelineInv
<1> QED
  BY <1>1, <1>2, <1>3 DEF PipelineNext

\* The lists of calls of the lanes keep together what the stage and the board say.
THEOREM PipelineKept == PipelineSpec => []PipelineInv
BY PipelineStarts, PipelineStep, PTL DEF PipelineSpec

LEMMA NoneLost == PipelineInv => LostNeedsCrossing
BY DEF PipelineInv, LanesInv, LostNeedsCrossing, Halfway, Idle, Lanes

\* No address is lost to every lane while nobody crossed: with any number of
\* runs and faults, an address left in COPY_POOL off the board had its removal
\* and the writing of its stage overlap, or met a fault.
THEOREM LostCorrect == PipelineSpec => []LostNeedsCrossing
BY NoneLost, PipelineKept, PTL
-----------------------------------------------------------------------------
(* The calls of the lanes *)

SyncWith == [score : Scores, copied : Copied, hard : Flags, by : {"deep", "gamma"}, previous : Stages \cup {""}]
LaneCalls ==
  [does : {"mark", "stage", "shift", "score"}, with : Stages, soft : BOOLEAN]
    \cup [does : {"eliminate", "pending"}, with : BOOLEAN, soft : BOOLEAN]
    \cup [does : {"board"}, with : [on : BOOLEAN, pending : {"keep", "yes", "no"}], soft : BOOLEAN]
    \cup [does : {"sync", "upsert"}, with : SyncWith, soft : BOOLEAN]
    \cup [does : {"refresh"}, with : [hard : Flags, by : {"enrich", "gamma"}], soft : BOOLEAN]
    \cup [does : {"reread"}, with : {"enrich", "gamma"}, soft : BOOLEAN]
    \cup [does : {"judge"}, with : {"low", "ok"}, soft : BOOLEAN]
    \cup [does : {"remove", "queue", "load", "try", "hedged", "flag", "recheck", "delete",
                  "demote", "close", "purge", "scored"}, with : {""}, soft : BOOLEAN]

LaneWork == [todo : Seq(LaneCalls), catch : Seq(LaneCalls)]
BoardTyped ==
  board \in [row : BOOLEAN, on : BOOLEAN, pending : BOOLEAN, copied : Copied,
             score : Scores, hard : Flags, due : BOOLEAN]
AddressTyped == stage \in Stages /\ deepClass \in BOOLEAN /\ BoardTyped
RunsTyped == runs \in 0 .. MaxRuns /\ crossed \in BOOLEAN
WorkTyped == work \in [Lanes -> LaneWork]

LEMMA ListTyped ==
  ASSUME NEW S, NEW s \in Seq(S), s # <<>>
  PROVE  Head(s) \in S /\ Tail(s) \in Seq(S)
OBVIOUS

LEMMA ListsJoined ==
  ASSUME NEW S, NEW s \in Seq(S), NEW t \in Seq(S)
  PROVE  s \o t \in Seq(S)
OBVIOUS

LEMMA ListOf ==
  ASSUME NEW S
  PROVE  /\ <<>> \in Seq(S)
         /\ \A a \in S : <<a>> \in Seq(S)
         /\ \A a, b \in S : <<a, b>> \in Seq(S)
         /\ \A a, b, c \in S : <<a, b, c>> \in Seq(S)
         /\ \A a, b, c, d \in S : <<a, b, c, d>> \in Seq(S)
OBVIOUS

LEMMA StageCalls ==
  \A d \in {"mark", "stage", "shift", "score"}, x \in Stages : Call(d, x) \in LaneCalls /\ Soft(Call(d, x)) \in LaneCalls
BY DEF Call, Soft, LaneCalls

LEMMA FlagCalls ==
  \A d \in {"eliminate", "pending"}, x \in BOOLEAN : Call(d, x) \in LaneCalls /\ Soft(Call(d, x)) \in LaneCalls
BY DEF Call, Soft, LaneCalls

LEMMA BareCalls ==
  \A d \in {"remove", "queue", "load", "try", "hedged", "flag", "recheck", "delete",
            "demote", "close", "purge", "scored"} :
    Call(d, "") \in LaneCalls /\ Soft(Call(d, "")) \in LaneCalls
BY DEF Call, Soft, LaneCalls

LEMMA NamedCalls ==
  /\ \A x \in {"enrich", "gamma"} : Call("reread", x) \in LaneCalls /\ Soft(Call("reread", x)) \in LaneCalls
  /\ \A x \in {"low", "ok"} : Call("judge", x) \in LaneCalls
BY DEF Call, Soft, LaneCalls

LEMMA RowCalls ==
  /\ \A x \in BOOLEAN, y \in {"keep", "yes", "no"} : Board(x, y) \in LaneCalls
  /\ \A x \in SyncWith : Upsert(x) \in LaneCalls /\ Call("sync", x) \in LaneCalls
BY DEF Call, Board, Upsert, LaneCalls

LEMMA RefreshCalls ==
  \A h \in Flags, b \in {"enrich", "gamma"}, x \in BOOLEAN :
    [Call("refresh", [hard |-> h, by |-> b]) EXCEPT !.soft = x] \in LaneCalls
BY DEF Call, LaneCalls

\* What a call says by what it does.
LEMMA CallSays ==
  ASSUME NEW c \in LaneCalls
  PROVE  /\ c.soft \in BOOLEAN
         /\ c.does \in {"mark", "stage", "shift", "score"} => c.with \in Stages
         /\ c.does \in {"eliminate", "pending"} => c.with \in BOOLEAN
         /\ c.does = "board" => c.with.on \in BOOLEAN
         /\ c.does \in {"sync", "upsert"} => c.with \in SyncWith
         /\ c.does = "refresh" => c.with.hard \in Flags
         /\ c.does = "reread" => c.with \in {"enrich", "gamma"}
BY DEF LaneCalls

LEMMA CallTyped ==
  ASSUME WorkTyped, NEW l \in Lanes, NEW d, Calls(l, d)
  PROVE  /\ work[l] \in LaneWork /\ work[l].todo # <<>> /\ Tail(work[l].todo) \in Seq(LaneCalls)
         /\ Head(work[l].todo) \in LaneCalls /\ Head(work[l].todo).does = d /\ With(l) = Head(work[l].todo).with
<1>1. work[l] \in LaneWork /\ work[l].todo # <<>>
  BY DEF WorkTyped, Calls
<1>2. work[l].todo \in Seq(LaneCalls)
  BY <1>1 DEF LaneWork
<1> QED BY <1>1, <1>2, ListTyped DEF Calls, With

LEMMA GoesTyped ==
  ASSUME WorkTyped, NEW l \in Lanes, work[l].todo # <<>>, NEW more \in Seq(LaneCalls), GoesOn(l, more)
  PROVE  WorkTyped'
<1>1. work[l].todo \in Seq(LaneCalls) /\ work[l].catch \in Seq(LaneCalls) /\ work[l] \in LaneWork
  BY DEF WorkTyped, LaneWork
<1>2. more \o Tail(work[l].todo) \in Seq(LaneCalls)
  BY <1>1, ListTyped, ListsJoined
<1>3. [work[l] EXCEPT !.todo = more \o Tail(work[l].todo)] \in LaneWork
  BY <1>1, <1>2 DEF LaneWork
<1>4. work' = [work EXCEPT ![l] = [work[l] EXCEPT !.todo = more \o Tail(work[l].todo)]]
  BY DEF GoesOn, WorkTyped
<1> QED BY <1>3, <1>4 DEF WorkTyped

LEMMA ThrownTyped ==
  ASSUME WorkTyped, NEW l \in Lanes, work[l].todo # <<>>, Thrown(l)
  PROVE  WorkTyped'
<1>1. work[l].todo \in Seq(LaneCalls) /\ work[l].catch \in Seq(LaneCalls)
  BY DEF WorkTyped, LaneWork
<1>2. Tail(work[l].todo) \in Seq(LaneCalls) /\ <<>> \in Seq(LaneCalls)
  BY <1>1, ListTyped, ListOf
<1>3. [todo |-> Tail(work[l].todo), catch |-> work[l].catch] \in LaneWork
      /\ [todo |-> work[l].catch, catch |-> <<>>] \in LaneWork
  BY <1>1, <1>2 DEF LaneWork
<1> QED BY <1>3 DEF Thrown, WorkTyped

LEMMA StartsTyped ==
  ASSUME WorkTyped, RunsTyped, AddressTyped, NEW l \in Lanes, NEW s \in Seq(LaneCalls), NEW t \in Seq(LaneCalls),
         Starts(l, s, t)
  PROVE  WorkTyped' /\ AddressTyped' /\ runs' \in 0 .. MaxRuns
<1>1. [todo |-> s, catch |-> t] \in LaneWork
  BY DEF LaneWork
<1>2. runs' = runs + 1 /\ runs < MaxRuns
  BY DEF Starts
<1>3. runs' \in 0 .. MaxRuns
  BY <1>2, PipelineAssumption DEF RunsTyped
<1>4. WorkTyped'
  BY <1>1 DEF Starts, WorkTyped
<1>5. AddressTyped'
  BY DEF Starts, AddressTyped, BoardTyped
<1> QED BY <1>3, <1>4, <1>5

\* The lists a call leads to.
LEMMA StagesAre == \A x \in {"none", "RAW", "LIGHT", "QUALIFIED", "FULL", "SCORED", "COPY_POOL", "ELIMINATED"} : x \in Stages
BY DEF Stages

LEMMA LookedTyped == \A out : Looked(out) \in LaneCalls
BY StagesAre, StageCalls, FlagCalls DEF Looked, Eliminate, Stage

LEMMA RestoreTyped == \A x \in Stages : Restore(x) \in Seq(LaneCalls)
<1> SUFFICES ASSUME NEW x \in Stages PROVE Restore(x) \in Seq(LaneCalls)
  OBVIOUS
<1> DEFINE y == IF x \in {"FULL", "LIGHT"} THEN "QUALIFIED" ELSE x
<1>1. y \in Stages
  BY StagesAre
<1>2. Restore(x) = <<>> \/ Restore(x) = <<Soft(Stage(y))>>
  BY DEF Restore
<1> HIDE DEF y
<1>3. Soft(Stage(y)) \in LaneCalls
  BY <1>1, StageCalls DEF Stage
<1> QED BY <1>2, <1>3, ListOf

LEMMA EnterTyped == Enter \in Seq(LaneCalls)
<1>1. Board(TRUE, "no") \in LaneCalls /\ Shift("COPY_POOL") \in LaneCalls
  BY RowCalls, StageCalls, StagesAre DEF Shift
<1> QED BY <1>1, ListOf DEF Enter

LEMMA WritesTyped == ASSUME NEW v, NEW s \in SyncWith PROVE Writes(v, s) \in Seq(LaneCalls)
<1>1. /\ Upsert(s) \in LaneCalls /\ \A x \in BOOLEAN, y \in {"keep", "yes", "no"} : Board(x, y) \in LaneCalls
      /\ \A x \in BOOLEAN : Eliminate(x) \in LaneCalls /\ Soft(Eliminate(x)) \in LaneCalls
      /\ Remove \in LaneCalls /\ Shift("COPY_POOL") \in LaneCalls /\ Shift("SCORED") \in LaneCalls
  BY RowCalls, FlagCalls, BareCalls, StageCalls, StagesAre DEF Eliminate, Remove, Shift
<1>2. CASE v \in {"enters", "stays"}
  <2>1. PICK b \in {"yes", "no", "keep"} : Writes(v, s) = <<Upsert(s), Board(TRUE, b), Shift("COPY_POOL")>>
    BY <1>2 DEF Writes
  <2>2. Upsert(s) \in LaneCalls /\ Board(TRUE, b) \in LaneCalls /\ Shift("COPY_POOL") \in LaneCalls
    BY <1>1, <2>1
  <2>3. <<Upsert(s), Board(TRUE, b), Shift("COPY_POOL")>> \in Seq(LaneCalls)
    BY <2>2, ListOf, Zenon
  <2> QED BY <2>1, <2>3
<1>3. CASE v \notin {"enters", "stays"}
  <2>1. \/ Writes(v, s) = <<Remove, Eliminate(TRUE)>> \/ Writes(v, s) = <<Upsert(s), Remove>>
        \/ Writes(v, s) = <<Upsert(s), Remove, Soft(Eliminate(FALSE))>>
        \/ Writes(v, s) = <<Upsert(s), Remove, Eliminate(FALSE)>>
        \/ Writes(v, s) = <<Shift("SCORED"), Upsert(s), Board(FALSE, "yes")>>
        \/ Writes(v, s) = <<Shift("SCORED"), Upsert(s), Board(FALSE, "no"), Eliminate(FALSE)>>
        \/ Writes(v, s) = <<Eliminate(TRUE)>> \/ Writes(v, s) = <<Shift("SCORED")>>
    BY <1>3 DEF Writes
  <2>2. Board(FALSE, "yes") \in LaneCalls /\ Board(FALSE, "no") \in LaneCalls
        /\ Eliminate(TRUE) \in LaneCalls /\ Eliminate(FALSE) \in LaneCalls /\ Soft(Eliminate(FALSE)) \in LaneCalls
        /\ Upsert(s) \in LaneCalls /\ Remove \in LaneCalls /\ Shift("SCORED") \in LaneCalls
    BY <1>1
  <2>3. /\ <<Remove, Eliminate(TRUE)>> \in Seq(LaneCalls) /\ <<Upsert(s), Remove>> \in Seq(LaneCalls)
        /\ <<Eliminate(TRUE)>> \in Seq(LaneCalls) /\ <<Shift("SCORED")>> \in Seq(LaneCalls)
    BY <2>2, ListOf, Zenon
  <2>4. /\ <<Upsert(s), Remove, Soft(Eliminate(FALSE))>> \in Seq(LaneCalls)
        /\ <<Upsert(s), Remove, Eliminate(FALSE)>> \in Seq(LaneCalls)
        /\ <<Shift("SCORED"), Upsert(s), Board(FALSE, "yes")>> \in Seq(LaneCalls)
    BY <2>2, ListOf, Zenon
  <2>5. <<Shift("SCORED"), Upsert(s), Board(FALSE, "no"), Eliminate(FALSE)>> \in Seq(LaneCalls)
    BY <2>2, ListOf, Zenon
  <2> QED BY <2>1, <2>3, <2>4, <2>5
<1> QED BY <1>2, <1>3

LEMMA AfterTyped ==
  ASSUME NEW v, NEW s, NEW over
  PROVE  AfterDeep(v, s, over) \in Seq(LaneCalls) /\ AfterGamma(v) \in Seq(LaneCalls)
<1>1. /\ Stage("COPY_POOL") \in LaneCalls /\ Stage("SCORED") \in LaneCalls /\ Soft(Remove) \in LaneCalls
      /\ Eliminate(TRUE) \in LaneCalls /\ Soft(Call("reread", "gamma")) \in LaneCalls
  BY StageCalls, StagesAre, BareCalls, FlagCalls, NamedCalls DEF Stage, Remove, Eliminate
<1>2. \/ AfterDeep(v, s, over) = <<Stage("COPY_POOL")>> \/ AfterDeep(v, s, over) = <<Stage("SCORED")>>
      \/ AfterDeep(v, s, over) = <<Soft(Remove), Eliminate(TRUE)>> \/ AfterDeep(v, s, over) = <<>>
  BY DEF AfterDeep
<1>3. PICK a \in {<<Stage("COPY_POOL")>>, <<>>, <<Stage("SCORED")>>} : AfterGamma(v) = a \o <<Soft(Call("reread", "gamma"))>>
  BY DEF AfterGamma
<1>4. a \in Seq(LaneCalls) /\ <<Soft(Call("reread", "gamma"))>> \in Seq(LaneCalls)
  BY <1>1, <1>3, ListOf
<1>5. AfterGamma(v) \in Seq(LaneCalls)
  BY <1>3, <1>4, ListsJoined
<1> QED BY <1>1, <1>2, <1>5, ListOf
-----------------------------------------------------------------------------
(* The steps of the lanes *)

PipelineTyped == WorkTyped /\ AddressTyped /\ RunsTyped

\* A call leads to others and leaves the count of the runs.
LEMMA StepTyped ==
  ASSUME PipelineTyped, NEW l \in Lanes, NEW d, Calls(l, d), NEW more \in Seq(LaneCalls), GoesOn(l, more),
         AddressTyped', runs' = runs
  PROVE  WorkTyped' /\ AddressTyped' /\ runs' \in 0 .. MaxRuns
BY GoesTyped DEF PipelineTyped, RunsTyped, Calls

Kept == WorkTyped' /\ AddressTyped' /\ runs' \in 0 .. MaxRuns

LEMMA WriteTyped ==
  ASSUME PipelineTyped, NEW l \in Lanes,
         Marks(l) \/ StageWritten(l) \/ Eliminates(l) \/ Removes(l) \/ RowWritten(l)
  PROVE  Kept
<1> USE DEF Kept
<1>0. WorkTyped /\ AddressTyped /\ RunsTyped /\ <<>> \in Seq(LaneCalls)
  BY ListOf DEF PipelineTyped
<1>1. CASE Marks(l)
  <2>1. Calls(l, "mark") /\ With(l) \in Stages
    BY <1>0, <1>1, CallTyped, CallSays DEF Marks
  <2>2. AddressTyped'
    BY <1>0, <1>1, <2>1 DEF Marks, AddressTyped, BoardTyped
  <2> QED BY <1>0, <1>1, <2>1, <2>2, StepTyped DEF Marks
<1>2. CASE StageWritten(l)
  <2>1. (Calls(l, "stage") \/ Calls(l, "shift")) /\ With(l) \in Stages
    BY <1>0, <1>2, CallTyped, CallSays DEF StageWritten
  <2>2. AddressTyped'
    BY <1>0, <1>2, <2>1 DEF StageWritten, AddressTyped, BoardTyped
  <2>3. CASE Thrown(l)
    BY <1>0, <1>2, <2>1, <2>2, <2>3, ThrownTyped DEF StageWritten, Calls, RunsTyped
  <2>4. CASE GoesOn(l, <<>>)
    BY <1>0, <1>2, <2>1, <2>2, <2>4, StepTyped DEF StageWritten
  <2> QED BY <1>2, <2>3, <2>4 DEF StageWritten
<1>3. CASE Eliminates(l)
  <2>1. Calls(l, "eliminate") /\ With(l) \in BOOLEAN
    BY <1>0, <1>3, CallTyped, CallSays DEF Eliminates
  <2>2. BoardTyped'
    BY <1>0, <1>3 DEF Eliminates, AddressTyped, BoardTyped
  <2>3. AddressTyped'
    BY <1>0, <1>3, <2>1, <2>2, StagesAre DEF Eliminates, AddressTyped
  <2>4. CASE Thrown(l)
    BY <1>0, <1>3, <2>1, <2>3, <2>4, ThrownTyped DEF Eliminates, Calls, RunsTyped
  <2>5. CASE GoesOn(l, <<>>)
    BY <1>0, <1>3, <2>1, <2>3, <2>5, StepTyped DEF Eliminates
  <2> QED BY <1>3, <2>4, <2>5 DEF Eliminates
<1>4. CASE Removes(l)
  <2>1. Calls(l, "remove") /\ GoesOn(l, <<>>) /\ runs' = runs
    BY <1>4 DEF Removes
  <2>2. BoardTyped'
    BY <1>0, <1>4 DEF Removes, AddressTyped, BoardTyped
  <2>3. AddressTyped'
    BY <1>0, <1>4, <2>2, StagesAre DEF Removes, AddressTyped
  <2> QED BY <1>0, <2>1, <2>3, StepTyped
<1>5. CASE RowWritten(l)
  <2>1. PICK d \in {"upsert", "board", "pending", "flag"} : Calls(l, d)
    BY <1>5 DEF RowWritten
  <2>2. BoardTyped'
    <3>0. BoardTyped
      BY <1>0 DEF AddressTyped
    <3>1. CASE Calls(l, "upsert") /\ board' = [board EXCEPT !.row = TRUE, !.score = With(l).score, !.hard = With(l).hard]
      <4>1. With(l).score \in Scores /\ With(l).hard \in Flags
        BY <1>0, <3>1, CallTyped, CallSays DEF SyncWith
      <4> QED BY <3>0, <3>1, <4>1 DEF BoardTyped
    <3>2. CASE Calls(l, "board") /\ board' = [board EXCEPT !.on = With(l).on,
                       !.pending = IF With(l).pending = "keep" THEN @ ELSE With(l).pending = "yes"]
      <4>1. With(l).on \in BOOLEAN
        BY <1>0, <3>2, CallTyped, CallSays
      <4> QED BY <3>0, <3>2, <4>1 DEF BoardTyped
    <3>3. CASE Calls(l, "pending") /\ board' = [board EXCEPT !.pending = board.row /\ With(l)]
      BY <3>0, <3>3 DEF BoardTyped
    <3>4. CASE board' = [board EXCEPT !.hard = "other"]
      BY <3>0, <3>4 DEF BoardTyped, Flags
    <3> QED BY <1>5, <3>1, <3>2, <3>3, <3>4 DEF RowWritten
  <2>3. AddressTyped'
    BY <1>0, <1>5, <2>2 DEF RowWritten, AddressTyped
  <2> QED BY <1>0, <1>5, <2>1, <2>3, StepTyped DEF RowWritten
<1> QED BY <1>1, <1>2, <1>3, <1>4, <1>5

LEMMA DeepTyped ==
  ASSUME PipelineTyped, NEW l \in Lanes, Queues(l) \/ DeepScores(l)
  PROVE  Kept
<1> USE DEF Kept
<1>0. WorkTyped /\ AddressTyped /\ RunsTyped /\ BoardTyped
  BY DEF PipelineTyped, AddressTyped
<1>1. CASE Queues(l)
  <2> DEFINE x == IF stage = "none" THEN "QUALIFIED" ELSE stage
  <2>1. x \in Stages /\ "FULL" \in Stages
    BY <1>0, StagesAre DEF AddressTyped
  <2>2. GoesOn(l, <<Mark("FULL"), Call("score", x)>>) /\ Calls(l, "queue") /\ AddressTyped' /\ runs' = runs
    BY <1>0, <1>1 DEF Queues, AddressTyped, BoardTyped
  <2> HIDE DEF x
  <2>3. <<Mark("FULL"), Call("score", x)>> \in Seq(LaneCalls)
    BY <2>1, StageCalls, ListOf DEF Mark
  <2> QED BY <2>2, <2>3, StepTyped
<1>2. CASE DeepScores(l)
  <2>1. Calls(l, "score") /\ UNCHANGED <<stage, deepClass, runs>>
    BY <1>2 DEF DeepScores
  <2>2. work[l] \in LaneWork /\ Tail(work[l].todo) \in Seq(LaneCalls) /\ With(l) \in Stages
    BY <1>0, <2>1, CallTyped, CallSays
  <2>3. ASSUME NEW t \in Seq(LaneCalls), DeepGoesOn(l, t) PROVE WorkTyped'
    <3>1. t \o Tail(work[l].todo) \in Seq(LaneCalls) /\ Restore(With(l)) \in Seq(LaneCalls)
      BY <2>2, RestoreTyped, ListsJoined
    <3>2. [todo |-> t \o Tail(work[l].todo), catch |-> Restore(With(l))] \in LaneWork
      BY <3>1 DEF LaneWork
    <3> QED BY <1>0, <2>3, <3>2 DEF DeepGoesOn, WorkTyped
  <2>4. ASSUME NEW t \in Seq(LaneCalls), DeepGoesOn(l, t), BoardTyped' PROVE Kept
    BY <1>0, <2>1, <2>3, <2>4 DEF AddressTyped, RunsTyped
  <2>5. \A sc \in Scores, h \in Flags, due \in BOOLEAN : board' = Cached(sc, h, due) => BoardTyped'
    BY <1>0 DEF Cached, BoardTyped
  <2>6. FALSE \in BOOLEAN /\ TRUE \in BOOLEAN /\ "no" \in Flags /\ (board' = board => BoardTyped')
    BY <1>0 DEF Flags, BoardTyped
  <2>7. Restore(With(l)) \in Seq(LaneCalls)
    BY <2>2, RestoreTyped
  <2>8. \A deep \in BOOLEAN : <<Soft(Remove), Eliminate(deep)>> \in Seq(LaneCalls)
    BY BareCalls, FlagCalls, ListOf DEF Remove, Eliminate
  <2>9. CASE DeepGoesOn(l, Restore(With(l))) /\ UNCHANGED board
    BY <2>4, <2>6, <2>7, <2>9
  <2>10. CASE \E sc \in Scores, h \in Flags : DeepGoesOn(l, Restore(With(l))) /\ board' = Cached(sc, h, FALSE)
    BY <2>4, <2>5, <2>6, <2>7, <2>10
  <2>11. CASE \E deep \in BOOLEAN : DeepGoesOn(l, <<Soft(Remove), Eliminate(deep)>>) /\ UNCHANGED board
    BY <2>4, <2>6, <2>8, <2>11
  <2>12. CASE \E sc \in Scores, h \in Flags, due \in BOOLEAN :
                DeepGoesOn(l, <<Soft(Remove), Eliminate(TRUE)>>) /\ board' = Cached(sc, h, due)
    BY <2>4, <2>5, <2>6, <2>8, <2>12
  <2>13. CASE \E sc \in Scores, c \in Recomposed(board.copied), due \in BOOLEAN :
                DeepGoesOn(l, <<Call("sync", [score |-> sc, copied |-> c, hard |-> "no",
                                              by |-> "deep", previous |-> With(l)])>>)
                /\ board' = Cached(sc, "no", due)
    <3>1. PICK sc \in Scores, c \in Recomposed(board.copied), due \in BOOLEAN :
                DeepGoesOn(l, <<Call("sync", [score |-> sc, copied |-> c, hard |-> "no",
                                              by |-> "deep", previous |-> With(l)])>>)
                /\ board' = Cached(sc, "no", due)
      BY <2>13
    <3>2. c \in Copied
      BY <1>0, <3>1 DEF Recomposed, Copied
    <3> DEFINE w == [score |-> sc, copied |-> c, hard |-> "no", by |-> "deep", previous |-> With(l)]
    <3>3. w \in SyncWith
      BY <2>2, <2>6, <3>1, <3>2 DEF SyncWith
    <3> HIDE DEF w
    <3>4. <<Call("sync", w)>> \in Seq(LaneCalls)
      BY <3>3, RowCalls, ListOf
    <3>5. DeepGoesOn(l, <<Call("sync", w)>>) /\ BoardTyped'
      BY <2>5, <2>6, <3>1 DEF w
    <3> QED BY <2>4, <3>4, <3>5
  <2> QED BY <1>2, <2>9, <2>10, <2>11, <2>12, <2>13 DEF DeepScores
<1> QED BY <1>1, <1>2

LEMMA SyncTyped ==
  ASSUME PipelineTyped, NEW l \in Lanes, Syncs(l) \/ GammaLoads(l)
  PROVE  Kept
<1> USE DEF Kept
<1>0. WorkTyped /\ AddressTyped /\ RunsTyped /\ BoardTyped
  BY DEF PipelineTyped, AddressTyped
<1>1. CASE Syncs(l)
  <2>1. Calls(l, "sync") /\ UNCHANGED <<stage, deepClass, board, runs>>
    BY <1>1 DEF Syncs
  <2>2. With(l) \in SyncWith /\ AddressTyped'
    BY <1>0, <2>1, CallTyped, CallSays DEF AddressTyped, BoardTyped
  <2>3. PICK v, over :
          GoesOn(l, Writes(v, With(l)) \o IF With(l).by = "deep" THEN AfterDeep(v, With(l), over) ELSE AfterGamma(v))
    BY <1>1 DEF Syncs
  <2> DEFINE more == Writes(v, With(l)) \o IF With(l).by = "deep" THEN AfterDeep(v, With(l), over) ELSE AfterGamma(v)
  <2>4. more \in Seq(LaneCalls)
    <3>1. /\ Writes(v, With(l)) \in Seq(LaneCalls)
          /\ AfterDeep(v, With(l), over) \in Seq(LaneCalls) /\ AfterGamma(v) \in Seq(LaneCalls)
      BY <2>2, WritesTyped, AfterTyped
    <3> QED BY <3>1, ListsJoined
  <2>5. GoesOn(l, more)
    BY <2>3
  <2> HIDE DEF more
  <2> QED BY <2>1, <2>2, <2>4, <2>5, StepTyped
<1>2. CASE GammaLoads(l)
  <2> DEFINE w == [score |-> board.score, copied |-> board.copied, hard |-> board.hard, by |-> "gamma", previous |-> ""]
  <2>1. w \in SyncWith
    BY <1>0 DEF BoardTyped, SyncWith
  <2>2. Calls(l, "load") /\ GoesOn(l, <<Call("sync", w)>>) /\ runs' = runs
    BY <1>2 DEF GammaLoads
  <2> HIDE DEF w
  <2>3. <<Call("sync", w)>> \in Seq(LaneCalls)
    BY <2>1, RowCalls, ListOf
  <2>4. AddressTyped'
    BY <1>0, <1>2 DEF GammaLoads, AddressTyped, BoardTyped
  <2> QED BY <2>2, <2>3, <2>4, StepTyped
<1> QED BY <1>1, <1>2

LEMMA JudgeTyped ==
  ASSUME PipelineTyped, NEW l \in Lanes, Tries(l) \/ Rereads(l) \/ Refreshes(l) \/ Judges(l)
  PROVE  Kept
<1> USE DEF Kept
<1>0. WorkTyped /\ AddressTyped /\ RunsTyped /\ BoardTyped /\ Enter \in Seq(LaneCalls) /\ <<>> \in Seq(LaneCalls)
  BY EnterTyped, ListOf DEF PipelineTyped, AddressTyped
<1>1. CASE Tries(l)
  <2>1. Calls(l, "try") /\ runs' = runs /\ AddressTyped' /\ (GoesOn(l, Enter) \/ GoesOn(l, <<>>))
    BY <1>0, <1>1 DEF Tries, AddressTyped, BoardTyped
  <2> QED BY <1>0, <2>1, StepTyped
<1>2. CASE Rereads(l)
  <2> DEFINE c == [Call("refresh", [hard |-> board.hard, by |-> With(l)]) EXCEPT !.soft = Head(work[l].todo).soft]
  <2>1. Calls(l, "reread") /\ GoesOn(l, <<c>>) /\ runs' = runs /\ AddressTyped'
    BY <1>0, <1>2 DEF Rereads, AddressTyped, BoardTyped
  <2>2. With(l) \in {"enrich", "gamma"} /\ Head(work[l].todo).soft \in BOOLEAN /\ board.hard \in Flags
    BY <1>0, <2>1, CallTyped, CallSays DEF BoardTyped
  <2>3. c \in LaneCalls
    BY <2>2, RefreshCalls
  <2> HIDE DEF c
  <2> QED BY <2>1, <2>3, ListOf, StepTyped
<1>3. CASE Refreshes(l)
  <2>1. PICK c \in {"low", "ok"}, sc \in Scores :
          /\ board' = IF ~board.row THEN board
                      ELSE [board EXCEPT !.copied = c, !.score = sc, !.hard = With(l).hard]
          /\ GoesOn(l, IF With(l).by = "enrich" THEN <<Call("judge", c)>> ELSE <<>>)
    BY <1>3 DEF Refreshes
  <2>2. Calls(l, "refresh") /\ UNCHANGED <<stage, deepClass, runs>>
    BY <1>3 DEF Refreshes
  <2>3. With(l).hard \in Flags /\ c \in Copied
    BY <1>0, <2>2, CallTyped, CallSays DEF Copied
  <2>4. BoardTyped'
    BY <1>0, <2>1, <2>3 DEF BoardTyped
  <2>5. AddressTyped'
    BY <1>0, <2>2, <2>4 DEF AddressTyped
  <2>6. <<Call("judge", c)>> \in Seq(LaneCalls)
    BY NamedCalls, ListOf
  <2>7. GoesOn(l, <<Call("judge", c)>>) \/ GoesOn(l, <<>>)
    BY <2>1
  <2> QED BY <1>0, <2>2, <2>5, <2>6, <2>7, StepTyped
<1>4. CASE Judges(l)
  <2>1. Calls(l, "judge") /\ UNCHANGED <<stage, deepClass, board, runs>>
    BY <1>4 DEF Judges
  <2>2. AddressTyped'
    BY <1>0, <2>1 DEF AddressTyped, BoardTyped
  <2>3. \/ GoesOn(l, <<Remove, Eliminate(TRUE)>>) \/ GoesOn(l, <<Remove, Eliminate(FALSE)>>)
        \/ GoesOn(l, <<Remove>>) \/ GoesOn(l, <<Pending(FALSE)>>)
        \/ GoesOn(l, <<Eliminate(TRUE), Pending(FALSE)>>) \/ GoesOn(l, Enter \o <<Pending(FALSE)>>)
        \/ GoesOn(l, <<Eliminate(FALSE), Pending(FALSE)>>)
    BY <1>4 DEF Judges
  <2>4. Remove \in LaneCalls /\ Eliminate(TRUE) \in LaneCalls /\ Eliminate(FALSE) \in LaneCalls /\ Pending(FALSE) \in LaneCalls
    BY BareCalls, FlagCalls DEF Remove, Eliminate, Pending
  <2>5. /\ <<Remove, Eliminate(TRUE)>> \in Seq(LaneCalls) /\ <<Remove, Eliminate(FALSE)>> \in Seq(LaneCalls)
        /\ <<Remove>> \in Seq(LaneCalls) /\ <<Pending(FALSE)>> \in Seq(LaneCalls)
        /\ <<Eliminate(TRUE), Pending(FALSE)>> \in Seq(LaneCalls)
        /\ <<Eliminate(FALSE), Pending(FALSE)>> \in Seq(LaneCalls)
    BY <2>4, ListOf, Zenon
  <2>6. Enter \o <<Pending(FALSE)>> \in Seq(LaneCalls)
    BY <1>0, <2>5, ListsJoined
  <2> QED BY <2>1, <2>2, <2>3, <2>5, <2>6, StepTyped
<1> QED BY <1>1, <1>2, <1>3, <1>4

LEMMA SlowTyped ==
  ASSUME PipelineTyped, NEW l \in Lanes, Hedged(l) \/ Rechecks(l) \/ Deletes(l)
  PROVE  Kept
<1> USE DEF Kept
<1>0. WorkTyped /\ AddressTyped /\ RunsTyped /\ BoardTyped /\ <<>> \in Seq(LaneCalls)
  BY ListOf DEF PipelineTyped, AddressTyped
<1>1. CASE Hedged(l)
  <2>1. Calls(l, "hedged") /\ runs' = runs /\ AddressTyped'
    BY <1>0, <1>1 DEF Hedged, AddressTyped, BoardTyped
  <2>2. PICK a \in {<<Soft(Remove)>>, <<>>} : GoesOn(l, <<Call("flag", "")>> \o a \o <<Soft(Eliminate(TRUE))>>)
    BY <1>1 DEF Hedged
  <2>3. Call("flag", "") \in LaneCalls /\ Soft(Remove) \in LaneCalls /\ Soft(Eliminate(TRUE)) \in LaneCalls
    BY BareCalls, FlagCalls DEF Remove, Eliminate
  <2>4. <<Call("flag", "")>> \in Seq(LaneCalls) /\ a \in Seq(LaneCalls) /\ <<Soft(Eliminate(TRUE))>> \in Seq(LaneCalls)
    BY <2>2, <2>3, ListOf
  <2>5. <<Call("flag", "")>> \o a \in Seq(LaneCalls)
    BY <2>4, ListsJoined
  <2>6. <<Call("flag", "")>> \o a \o <<Soft(Eliminate(TRUE))>> \in Seq(LaneCalls)
    BY <2>4, <2>5, ListsJoined
  <2> QED BY <2>1, <2>2, <2>6, StepTyped
<1>2. CASE Rechecks(l)
  <2>1. Calls(l, "recheck") /\ runs' = runs /\ AddressTyped'
    BY <1>0, <1>2 DEF Rechecks, AddressTyped, BoardTyped
  <2>2. CASE GoesOn(l, <<Shift("ELIMINATED")>>)
    <3>1. <<Shift("ELIMINATED")>> \in Seq(LaneCalls)
      BY StageCalls, StagesAre, ListOf DEF Shift
    <3> QED BY <2>1, <2>2, <3>1, StepTyped
  <2>3. CASE \E out \in Outcomes : work' = [work EXCEPT ![l] = [todo |-> <<Looked(out)>>, catch |-> <<Soft(Stage("RAW"))>>]]
    <3>1. PICK out \in Outcomes : work' = [work EXCEPT ![l] = [todo |-> <<Looked(out)>>, catch |-> <<Soft(Stage("RAW"))>>]]
      BY <2>3
    <3>2. <<Looked(out)>> \in Seq(LaneCalls) /\ <<Soft(Stage("RAW"))>> \in Seq(LaneCalls)
      BY LookedTyped, StageCalls, StagesAre, ListOf DEF Stage
    <3>3. [todo |-> <<Looked(out)>>, catch |-> <<Soft(Stage("RAW"))>>] \in LaneWork
      BY <3>2 DEF LaneWork
    <3>4. WorkTyped'
      BY <1>0, <3>1, <3>3 DEF WorkTyped
    <3> QED BY <1>0, <2>1, <3>4 DEF RunsTyped
  <2> QED BY <1>2, <2>2, <2>3 DEF Rechecks
<1>3. CASE Deletes(l)
  <2>1. Calls(l, "delete") /\ GoesOn(l, <<>>) /\ runs' = runs /\ AddressTyped'
    BY <1>0, <1>3, StagesAre DEF Deletes, AddressTyped, BoardTyped
  <2> QED BY <1>0, <2>1, StepTyped
<1> QED BY <1>1, <1>2, <1>3

LEMMA FlushTyped ==
  ASSUME PipelineTyped, NEW l \in Lanes, Demotes(l) \/ Closes(l) \/ Purges(l)
  PROVE  Kept
<1>0. WorkTyped /\ AddressTyped /\ BoardTyped /\ <<>> \in Seq(LaneCalls)
  BY ListOf DEF PipelineTyped, AddressTyped
<1>1. BoardTyped'
  BY <1>0 DEF Demotes, Closes, Purges, BoardTyped, Flags
<1>2. AddressTyped' /\ runs' = runs
  BY <1>0, <1>1, StagesAre DEF Demotes, Closes, Purges, AddressTyped
<1>3. PICK d \in {"demote", "close", "purge", "scored"} : Calls(l, d)
  BY DEF Demotes, Closes, Purges
<1>4. GoesOn(l, <<>>) \/ GoesOn(l, <<Call("scored", "")>>)
  BY DEF Demotes, Closes, Purges
<1>5. <<Call("scored", "")>> \in Seq(LaneCalls)
  BY BareCalls, ListOf
<1> QED BY <1>0, <1>2, <1>3, <1>4, <1>5, StepTyped DEF Kept

LEMMA PicksTyped ==
  ASSUME PipelineTyped, Picks
  PROVE  Kept
<1>0. WorkTyped /\ AddressTyped /\ RunsTyped /\ <<>> \in Seq(LaneCalls)
  BY ListOf DEF PipelineTyped
<1>1. PICK l \in Lanes, s \in Seq(LaneCalls), t \in Seq(LaneCalls) : Starts(l, s, t)
  <2>1. CASE LightCaps
    <3>1. <<Eliminate(TRUE)>> \in Seq(LaneCalls) /\ "light" \in Lanes
      BY FlagCalls, ListOf DEF Eliminate, Lanes
    <3> QED BY <1>0, <2>1, <3>1 DEF LightCaps
  <2>2. CASE LightPicks
    <3>1. PICK out \in Outcomes : Starts("light", <<Mark("LIGHT"), Looked(out)>>, <<Soft(Stage("RAW"))>>)
      BY <2>2 DEF LightPicks
    <3>2. Mark("LIGHT") \in LaneCalls /\ Looked(out) \in LaneCalls /\ Soft(Stage("RAW")) \in LaneCalls /\ "light" \in Lanes
      BY LookedTyped, StageCalls, StagesAre DEF Mark, Stage, Lanes
    <3>3. <<Mark("LIGHT"), Looked(out)>> \in Seq(LaneCalls) /\ <<Soft(Stage("RAW"))>> \in Seq(LaneCalls)
      BY <3>2, ListOf, Zenon
    <3> QED BY <3>1, <3>2, <3>3
  <2>3. CASE DeepPicks \/ PromotePicks \/ EnrichPicks \/ GammaPicks \/ CurvePicks
    <3>1. PICK c \in {Call("queue", ""), Call("try", ""), Call("reread", "enrich"), Call("load", ""), Call("hedged", "")},
               l \in Lanes : Starts(l, <<c>>, <<>>)
      BY <2>3 DEF DeepPicks, PromotePicks, EnrichPicks, GammaPicks, CurvePicks, Lanes
    <3>2. c \in LaneCalls
      BY <3>1, BareCalls, NamedCalls
    <3> QED BY <1>0, <3>1, <3>2, ListOf
  <2>4. CASE RecheckPicks
    <3>1. /\ <<Call("recheck", "")>> \in Seq(LaneCalls) /\ <<Call("delete", "")>> \in Seq(LaneCalls)
          /\ <<Soft(Eliminate(FALSE))>> \in Seq(LaneCalls) /\ "recheck" \in Lanes
      BY BareCalls, FlagCalls, ListOf DEF Eliminate, Lanes
    <3> QED BY <1>0, <2>4, <3>1 DEF RecheckPicks
  <2>5. CASE FlushPicks
    <3>1. Call("demote", "") \in LaneCalls /\ Call("close", "") \in LaneCalls /\ Call("purge", "") \in LaneCalls /\ "flush" \in Lanes
      BY BareCalls DEF Lanes
    <3>2. <<Call("demote", ""), Call("close", ""), Call("purge", "")>> \in Seq(LaneCalls)
      BY <3>1, ListOf, Zenon
    <3> QED BY <1>0, <2>5, <3>1, <3>2 DEF FlushPicks
  <2> QED BY <2>1, <2>2, <2>3, <2>4, <2>5 DEF Picks
<1> QED BY <1>0, <1>1, StartsTyped DEF Kept

LEMMA BesideTyped ==
  ASSUME PipelineTyped, Requeues \/ Found \/ Repairs
  PROVE  Kept
<1>0. WorkTyped /\ AddressTyped /\ BoardTyped /\ RunsTyped
  BY DEF PipelineTyped, AddressTyped
<1>1. UNCHANGED <<work, runs>> /\ BoardTyped'
  BY <1>0 DEF Requeues, Found, Repairs, Reconciles, Recovers, BoardTyped
<1>2. AddressTyped'
  BY <1>0, <1>1, StagesAre DEF Requeues, Found, Repairs, Reconciles, Recovers, AddressTyped
<1> QED BY <1>0, <1>1, <1>2 DEF Kept, WorkTyped, RunsTyped

LEMMA FaultsTyped ==
  ASSUME PipelineTyped, Faults
  PROVE  Kept
<1>0. WorkTyped /\ AddressTyped /\ BoardTyped /\ RunsTyped /\ <<>> \in Seq(LaneCalls)
  BY ListOf DEF PipelineTyped, AddressTyped
<1>1. Fault /\ UNCHANGED <<stage, deepClass, board>>
  BY DEF Faults, Fails, TimesOut, Crashes
<1>2. AddressTyped'
  BY <1>0, <1>1 DEF AddressTyped, BoardTyped
<1>3. runs' \in 0 .. MaxRuns
  BY <1>0, <1>1, PipelineAssumption DEF Fault, RunsTyped
<1>4. WorkTyped'
  <2>1. ASSUME NEW l \in Lanes, Fails(l) PROVE WorkTyped'
    BY <1>0, <2>1, ThrownTyped DEF Fails
  <2>2. ASSUME NEW l \in {"light", "deep", "enrich"}, TimesOut(l) PROVE WorkTyped'
    <3> DEFINE retry == IF l = "enrich" THEN <<>> ELSE work[l].catch
               a == [todo |-> retry, catch |-> <<>>]
               b == [todo |-> work[l].todo, catch |-> IF l = "light" THEN retry ELSE <<>>]
    <3>1. work' = [work EXCEPT ![l] = a, !["late"] = b]
      BY <2>2 DEF TimesOut
    <3>2. l \in Lanes /\ work[l].todo \in Seq(LaneCalls) /\ work[l].catch \in Seq(LaneCalls)
      BY <1>0 DEF Lanes, WorkTyped, LaneWork
    <3>3. a \in LaneWork /\ b \in LaneWork
      BY <1>0, <3>2 DEF LaneWork
    <3> HIDE DEF a, b
    <3> QED BY <1>0, <3>1, <3>3 DEF WorkTyped
  <2>3. CASE Crashes
    <3>1. PICK gone : work' = [l \in Lanes |-> IF l \in gone THEN NoWork ELSE work[l]]
      BY <2>3 DEF Crashes
    <3>2. NoWork \in LaneWork
      BY <1>0 DEF NoWork, LaneWork
    <3> QED BY <1>0, <3>1, <3>2 DEF WorkTyped
  <2> QED BY <2>1, <2>2, <2>3 DEF Faults
<1> QED BY <1>2, <1>3, <1>4 DEF Kept

LEMMA PipelineTypedStep == PipelineTyped /\ [PipelineNext]_pipelineVars => PipelineTyped'
<1> SUFFICES ASSUME PipelineTyped, [PipelineNext]_pipelineVars PROVE PipelineTyped'
  OBVIOUS
<1>1. CASE UNCHANGED pipelineVars
  BY <1>1 DEF pipelineVars, PipelineTyped, WorkTyped, AddressTyped, BoardTyped, RunsTyped
<1>2. CASE PipelineNext
  <2>1. Kept
    <3>1. ASSUME NEW l \in Lanes, LaneSteps(l) PROVE Kept
      <4>1. \/ Marks(l) \/ StageWritten(l) \/ Eliminates(l) \/ Removes(l) \/ RowWritten(l)
            \/ Queues(l) \/ DeepScores(l) \/ Syncs(l) \/ GammaLoads(l)
            \/ Tries(l) \/ Rereads(l) \/ Refreshes(l) \/ Judges(l)
            \/ Hedged(l) \/ Rechecks(l) \/ Deletes(l) \/ Demotes(l) \/ Closes(l) \/ Purges(l)
        BY <3>1 DEF LaneSteps
      <4> QED BY <4>1, WriteTyped, DeepTyped, SyncTyped, JudgeTyped, SlowTyped, FlushTyped
    <3> QED BY <1>2, <3>1, PicksTyped, BesideTyped, FaultsTyped DEF PipelineNext, Works
  <2>2. crossed' \in BOOLEAN
    <3>1. crossed' = (crossed \/ Crosses \/ FALSE) \/ crossed' = (crossed \/ Crosses \/ TRUE)
      BY <1>2 DEF PipelineNext, Remembers
    <3> QED BY <3>1
  <2> QED BY <2>1, <2>2 DEF PipelineTyped, Kept, RunsTyped
<1> QED BY <1>1, <1>2

LEMMA PipelineTypedStarts == PipelineInit => PipelineTyped
<1> SUFFICES ASSUME PipelineInit PROVE PipelineTyped
  OBVIOUS
<1>1. NoWork \in LaneWork
  BY ListOf DEF NoWork, LaneWork
<1>2. WorkTyped
  BY <1>1 DEF PipelineInit, WorkTyped
<1>3. AddressTyped
  BY DEF PipelineInit, AddressTyped, BoardTyped
<1>4. RunsTyped
  <2>1. runs = 0 /\ crossed = FALSE /\ 0 \in 0 .. MaxRuns
    BY PipelineAssumption DEF PipelineInit
  <2> QED BY <2>1 DEF RunsTyped
<1> QED BY <1>2, <1>3, <1>4 DEF PipelineTyped

LEMMA PipelineTypes == PipelineTyped => PipelineTypeOK
BY DEF PipelineTyped, AddressTyped, BoardTyped, RunsTyped, PipelineTypeOK

\* The stage, the row and the calls of the lanes keep their types: what a lane read
\* or decided long ago is still a stage, a score or a flag when it writes it.
THEOREM AddressesTyped == PipelineSpec => []PipelineTypeOK
BY PipelineTypes, PipelineTypedStarts, PipelineTypedStep, PTL DEF PipelineSpec
-----------------------------------------------------------------------------
(* The processes together *)

\* While the scheduled jobs are watched, nobody has asked for an analysis.
NobodyAsked == part = "scheduled jobs" => \A o \in Owners, s \in Passes : pass[o][s] = NoPass
PartsInv ==
  /\ RobotInv /\ SessionInv /\ QueueInv /\ JobsInv
  /\ PipelineInv /\ PipelineTyped
  /\ NobodyAsked

LEMMA PartsStart == ProcessesInit => PartsInv
<1> SUFFICES ASSUME ProcessesInit PROVE PartsInv
  OBVIOUS
<1>1. RobotInit /\ SessionInit /\ QueueInit /\ PipelineInit
  BY DEF ProcessesInit
<1>2. NobodyAsked
  BY <1>1 DEF QueueInit, NobodyAsked
<1> QED BY <1>1, <1>2, RobotInitInv, SessionInitInv, QueueInitInv, JobsInitInv, PipelineStarts,
           PipelineTypedStarts DEF PartsInv

\* The steps of some processes are steps of the queue.
LEMMA SomeProcesses ==
  ASSUME NEW procs \in SUBSET Owners, NEW passes \in SUBSET Passes, NEW rs \in SUBSET CronRuns,
         NEW wallets \in SUBSET Wallets, QueueNextOf(procs, passes, rs, wallets)
  PROVE  QueueNext
<1>1. CASE \E k \in LeaseKeys : QueueLapses(k)
  BY <1>1 DEF QueueNext, QueueNextOf
<1>2. CASE /\ \/ \E o \in procs : ServerStarts(o)
              \/ \E o \in procs, r \in rs :
                   \/ CronFires(o, r) \/ CronAcquires(o, r) \/ CronSkips(o, r)
                   \/ CronEnds(o, r) \/ CronReleases(o, r)
           /\ UNCHANGED queueOnlyVars
  BY <1>2 DEF QueueNext, QueueNextOf
<1>3. CASE \E o \in procs :
             \/ QueueStarts(o) \/ StartEnds(o) \/ StartThrows(o) \/ QueueStops(o) \/ QueueEnds(o) \/ EnqueueCreates(o)
             \/ \E w \in wallets : EnqueueReads(o, w)
             \/ \E s \in passes : PassStep(o, s)
  BY <1>3 DEF QueueNext, QueueNextOf
<1>4. CASE \E j \in JobIds : JobAges(j)
  BY <1>4 DEF QueueNext, QueueNextOf
<1> QED BY <1>1, <1>2, <1>3, <1>4 DEF QueueNextOf

\* Every step of the processes is one of a part, and the others stand still.
LEMMA PartSteps ==
  ASSUME [ProcessesNext]_processVars
  PROVE  /\ [RobotNext]_robotVars /\ [SessionNext]_sessionVars /\ [PipelineNext]_pipelineVars
         /\ part' = part
         /\ \/ UNCHANGED queueVars
            \/ part # "scheduled jobs" /\ QueueNext
            \/ part = "scheduled jobs" /\ CronNext /\ UNCHANGED queueOnlyVars
<1>1. CASE UNCHANGED processVars
  BY <1>1 DEF processVars
<1>2. CASE part = "robots" /\ RobotNext /\ UNCHANGED <<sessionVars, queueVars, pipelineVars, part>>
  BY <1>2
<1>3. CASE part = "sessions" /\ SessionNext /\ UNCHANGED <<robotVars, queueVars, pipelineVars, part>>
  BY <1>3
<1>4. CASE QueuePart /\ UNCHANGED <<robotVars, sessionVars, pipelineVars, part>>
  <2>1. /\ {o1} \in SUBSET Owners /\ {o1, o2} \in SUBSET Owners /\ {1} \in SUBSET Passes /\ Passes \in SUBSET Passes
        /\ {} \in SUBSET CronRuns /\ {"interval"} \in SUBSET CronRuns
        /\ {"a1"} \in SUBSET Wallets /\ Wallets \in SUBSET Wallets
    BY ProcessesAssumption
  <2>2. \/ part = "scheduled jobs" /\ CronNext /\ UNCHANGED queueOnlyVars
        \/ /\ part # "scheduled jobs"
           /\ \/ QueueNextOf({o1}, Passes, {}, Wallets) \/ QueueNextOf({o1}, {1}, {"interval"}, {"a1"})
              \/ QueueNextOf({o1, o2}, {1}, {}, {"a1"})
    BY <1>4 DEF QueuePart
  <2>3. \/ part = "scheduled jobs" /\ CronNext /\ UNCHANGED queueOnlyVars
        \/ part # "scheduled jobs" /\ QueueNext
    BY <2>1, <2>2, SomeProcesses
  <2> QED BY <1>4, <2>3
<1>5. CASE AddressPart /\ UNCHANGED <<robotVars, sessionVars, queueVars, part>>
  BY <1>5 DEF AddressPart
<1> QED BY <1>1, <1>2, <1>3, <1>4, <1>5 DEF ProcessesNext

LEMMA PartsStep == PartsInv /\ [ProcessesNext]_processVars => PartsInv'
<1> SUFFICES ASSUME PartsInv, [ProcessesNext]_processVars PROVE PartsInv'
  OBVIOUS
<1>1. /\ [RobotNext]_robotVars /\ [SessionNext]_sessionVars /\ [PipelineNext]_pipelineVars
      /\ part' = part
      /\ \/ UNCHANGED queueVars
         \/ part # "scheduled jobs" /\ QueueNext
         \/ part = "scheduled jobs" /\ CronNext /\ UNCHANGED queueOnlyVars
  BY PartSteps
<1>2. RobotInv' /\ SessionInv' /\ PipelineInv' /\ PipelineTyped'
  BY <1>1, RobotNextInv, SessionNextInv, PipelineStep, PipelineTypedStep DEF PartsInv
<1>3. CASE UNCHANGED queueVars \/ (part # "scheduled jobs" /\ QueueNext)
  <2>1. QueueInv' /\ JobsInv'
    BY <1>3, QueueNextInv, JobsNextInv DEF PartsInv
  <2>2. NobodyAsked'
    BY <1>1, <1>3 DEF PartsInv, NobodyAsked, queueVars
  <2> QED BY <1>2, <2>1, <2>2 DEF PartsInv
<1>4. CASE part = "scheduled jobs" /\ CronNext /\ UNCHANGED queueOnlyVars
  <2>1. CronInv'
    BY <1>4, CronNextInv DEF PartsInv, JobsInv
  <2>2. UNCHANGED <<jobs, aged, queueOn, starting, unstarted, wake, running, pass, asking, asks, doubled, lost>>
    BY <1>4 DEF queueOnlyVars, startVars
  <2>3. \A o \in Owners, s \in Passes : pass[o][s] = NoPass
    BY <1>4 DEF PartsInv, NobodyAsked
  <2>4. PassTypeOK'
    BY <2>1, <2>2 DEF PartsInv, QueueInv, PassTypeOK, CronInv, CronTypeOK
  <2>5. QueueInv'
    BY <2>2, <2>3, <2>4 DEF PartsInv, QueueInv, InsideHolds, OnePass, Inside, NoPass
  <2>6. JobsInv'
    BY <2>1, <2>2, QuietKeepsJobs DEF PartsInv, JobsInv, ListsTyped
  <2>7. NobodyAsked'
    BY <1>1, <2>2, <2>3 DEF NobodyAsked
  <2> QED BY <1>2, <2>5, <2>6, <2>7 DEF PartsInv
<1> QED BY <1>1, <1>3, <1>4

\* The index, the sessions, the jobs and the address keep their types together.
THEOREM ProcessesTyped == ProcessesSpec => []ProcessesTypeOK
<1>1. PartsInv => ProcessesTypeOK
  BY RobotTypes, SessionTypes, JobsTypes, PipelineTypes DEF PartsInv, ProcessesTypeOK
<1> QED BY <1>1, PartsStart, PartsStep, PTL DEF ProcessesSpec

\* What the parts promise of their own specifications they keep side by side.
THEOREM ProcessesCorrect == ProcessesSpec => [](LeftOutNeedsLoss /\ SideBySideNeedsTwoWakes /\ LostNeedsCrossing)
<1>1. PartsInv => LeftOutNeedsLoss /\ SideBySideNeedsTwoWakes /\ LostNeedsCrossing
  BY LeavesOut, OneWorks, NoneLost DEF PartsInv
<1> QED BY <1>1, PartsStart, PartsStep, PTL DEF ProcessesSpec

\* Beside the analyses, the sessions and the rest the lease of a job still implements its
\* grant, though the analyses keep a lease in the same table.
THEOREM ProcessesImplementGrant == ProcessesSpec => LeaseGranted
<1>1. ProcessesInit => Lease!GrantInit
  BY GrantInitMaps DEF ProcessesInit, QueueInit
<1>2. PartsInv /\ [ProcessesNext]_processVars => [Lease!GrantNext]_(Lease!grantVars)
  <2> SUFFICES ASSUME PartsInv, [ProcessesNext]_processVars PROVE [Lease!GrantNext]_(Lease!grantVars)
    OBVIOUS
  <2>1. CronInv
    BY DEF PartsInv, JobsInv
  <2>2. [QueueNext]_queueVars \/ CronNext
    BY PartSteps
  <2> QED BY <2>1, <2>2, QueueStepMaps, GrantStepMaps
<1> QED BY <1>1, <1>2, PartsStart, PartsStep, PTL DEF ProcessesSpec, LeaseGranted, Lease!GrantSpec
=============================================================================

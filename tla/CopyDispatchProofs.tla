------------------------- MODULE CopyDispatchProofs -------------------------
(***************************************************************************)
(* Theorems about CopyDispatch, for every set of trades, subscriptions and *)
(* dispatch slots, every COPY_MAX_RETRIES and every value of the bounds.   *)
(***************************************************************************)
EXTENDS CopyDispatch, FiniteSetTheorems, TLAPS

-----------------------------------------------------------------------------
(* What the helpers of the model return *)

LEMMA NullsTyped ==
  /\ NoRow \in Row /\ NoTask \in Task /\ NoDisp \in Disp
  /\ WorkerSlots \subseteq Slots /\ ApiSlots \subseteq Slots
BY SetsAssumption DEF NoRow, Row, RowStates, Codes, Retryable, NoTask, Task, TaskPcs, NoDisp, Disp,
       DispPcs, Slots

LEMMA StatusTyped ==
  ASSUME NEW r \in Row, NEW st \in RowStates, NEW code \in Codes, NEW rc \in Nat
  PROVE  WithStatus(r, st, code) \in Row /\ [WithStatus(r, st, code) EXCEPT !.rc = rc] \in Row
BY DEF WithStatus, Row

LEMMA RowTyped ==
  ASSUME TypeOK, NEW k \in Keys PROVE row[k] \in Row
BY DEF TypeOK

LEMMA RowChangesTyped ==
  ASSUME NEW r \in Row
  PROVE  /\ StaleReset(r) \in Row
         /\ [r EXCEPT !.st = "queued", !.code = "", !.aged = FALSE] \in Row
         /\ [r EXCEPT !.aged = TRUE] \in Row /\ [r EXCEPT !.aged = FALSE] \in Row
<1>1. r.rc \in Nat /\ r.rc + 1 \in Nat
  BY DEF Row
<1>2. StaleReset(r) \in Row
  BY <1>1 DEF StaleReset, Row, RowStates, Codes, Retryable
<1> QED BY <1>2 DEF Row, RowStates, Codes

LEMMA FailureTyped ==
  ASSUME NEW r \in Row, NEW code \in Codes, NEW rc \in Nat
  PROVE  WithFailure(r, code, rc) \in Row
BY StatusTyped DEF WithFailure, RowStates

LEMMA RecountTyped ==
  ASSUME TypeOK, NEW S, Recount(S)
  PROVE  reopened' \in [Keys -> Nat]
BY DEF TypeOK, Recount

LEMMA SetRowTyped ==
  ASSUME TypeOK, NEW d \in Slots, NEW s \in Subs, NEW r \in Row, SetRow(d, s, r)
  PROVE  row' \in [Keys -> Row] /\ reopened' \in [Keys -> Nat]
<1>1. row' \in [Keys -> Row]
  BY DEF TypeOK, SetRow
<1>2. reopened' \in [Keys -> Nat]
  BY RecountTyped DEF SetRow
<1> QED BY <1>1, <1>2

LEMMA PutTyped ==
  ASSUME TypeOK, NEW d \in Slots, NEW s \in Subs, NEW x \in Task,
         task' = [task EXCEPT ![d][s] = x]
  PROVE  task' \in [Slots -> [Subs -> Task]]
BY DEF TypeOK

LEMMA GoTyped ==
  ASSUME TypeOK, NEW d \in Slots, NEW s \in Subs, NEW pc \in TaskPcs, Go(d, s, pc)
  PROVE  task' \in [Slots -> [Subs -> Task]]
<1>1. task \in [Slots -> [Subs -> Task]] /\ task[d][s] \in Task
  BY DEF TypeOK
<1>2. [task[d][s] EXCEPT !.pc = pc] \in Task
  BY <1>1 DEF Task
<1>3. task' = [task EXCEPT ![d] = [task[d] EXCEPT ![s] = [task[d][s] EXCEPT !.pc = pc]]]
  BY DEF Go
<1> QED BY <1>1, <1>2, <1>3

LEMMA StopTyped ==
  ASSUME TypeOK, NEW d \in Slots, NEW s \in Subs, NEW pc \in TaskPcs, Stop(d, s, pc)
  PROVE  task' \in [Slots -> [Subs -> Task]]
BY DEF TypeOK, Stop, Task, NoTask

LEMMA KeyTyped ==
  ASSUME TypeOK, NEW d \in Slots, NEW s \in Subs
  PROVE  /\ Key(d, s) \in Keys /\ RowAt(d, s) \in Row /\ task[d][s] \in Task
         /\ disp[d] \in Disp /\ task[d][s].rc + 1 \in Nat
<1>1. disp[d] \in Disp /\ task[d][s] \in Task
  BY DEF TypeOK
<1>2. Key(d, s) \in Keys
  BY <1>1 DEF Key, Keys, Disp
<1>3. RowAt(d, s) \in Row
  BY <1>2 DEF RowAt, TypeOK
<1>4. task[d][s].rc + 1 \in Nat
  BY <1>1 DEF Task
<1> QED BY <1>1, <1>2, <1>3, <1>4

LEMMA AbsorbTyped ==
  ASSUME TypeOK, NEW d \in Slots, NEW s \in Subs, Absorb(d, s)
  PROVE  row' \in [Keys -> Row] /\ reopened' \in [Keys -> Nat]
<1>1. [NoRow EXCEPT !.id = RowAt(d, s).id] \in Row
  BY KeyTyped, NullsTyped DEF Row
<1>2. CASE Found(d, s)
  BY <1>1, <1>2, SetRowTyped DEF Absorb
<1>3. CASE ~Found(d, s)
  BY <1>3 DEF Absorb, TypeOK
<1> QED BY <1>2, <1>3

LEMMA UpdateTyped ==
  ASSUME TypeOK, NEW d \in Slots, NEW s \in Subs, NEW r \in Row, UpdateThenStop(d, s, r)
  PROVE  /\ row' \in [Keys -> Row] /\ reopened' \in [Keys -> Nat]
         /\ task' \in [Slots -> [Subs -> Task]]
<1>1. CASE Found(d, s)
  BY <1>1, SetRowTyped, StopTyped DEF UpdateThenStop, TaskPcs
<1>2. CASE ~Found(d, s)
  BY <1>2, GoTyped DEF UpdateThenStop, TypeOK, TaskPcs
<1> QED BY <1>1, <1>2

LEMMA WarningTyped ==
  ASSUME TypeOK, NEW u, NEW w \in Warnings, MarkWarning(u, w) \/ ClearFundsWarning(u)
  PROVE  sub' \in [Subs -> [mode: {"on", "paused", "off"}, warn: {"none"} \cup Warnings]]
BY DEF TypeOK, MarkWarning, ClearFundsWarning, Warnings

LEMMA SpendTyped ==
  ASSUME TypeOK, NEW what \in {"signals", "crashes", "changes", "reads"}, Spend(what)
  PROVE  used' \in [{"signals", "crashes", "changes", "reads"} -> Nat]
BY DEF TypeOK, Spend

LEMMA EnterTyped ==
  ASSUME TypeOK, NEW d \in Slots, NEW t \in Trades, Enter(d, t)
  PROVE  disp' \in [Slots -> Disp]
BY NullsTyped DEF TypeOK, Enter, Disp, DispPcs

LEMMA TypeInit == Init => TypeOK
BY NullsTyped DEF Init, TypeOK, Warnings

LEMMA SignalTyped ==
  ASSUME TypeOK, NEW t \in Trades, Signal(t) PROVE TypeOK'
<1>1. nats' \in [Trades -> Nat] /\ disp' \in [Slots -> Disp]
  <2>1. CASE nats' = [nats EXCEPT ![t] = @ + 1] /\ UNCHANGED disp
    BY <2>1 DEF TypeOK
  <2>2. CASE \E d \in ApiSlots : Enter(d, t) /\ UNCHANGED nats
    BY <2>2, EnterTyped, NullsTyped DEF TypeOK
  <2> QED BY <2>1, <2>2 DEF Signal, Announce
<1>2. lt' \in [Trades -> {"absent", "open", "processed"}]
  BY DEF Signal, TypeOK
<1>3. used' \in [{"signals", "crashes", "changes", "reads"} -> Nat]
  BY SpendTyped DEF Signal
<1> QED BY <1>1, <1>2, <1>3 DEF Signal, TypeOK

LEMMA QueueTyped ==
  ASSUME TypeOK, NEW t \in Trades, NEW d \in WorkerSlots,
         Deliver(t, d) \/ Replay(t, d) \/ SweepRead(t, d)
  PROVE  TypeOK'
<1>0. d \in Slots
  BY NullsTyped
<1>3. CASE Deliver(t, d)
  <2>1. disp' \in [Slots -> Disp]
    BY <1>0, <1>3, EnterTyped DEF Deliver
  <2> QED BY <1>3, <2>1 DEF Deliver, TypeOK
<1>4. CASE Replay(t, d)
  <2>1. disp' \in [Slots -> Disp]
    BY <1>0, <1>4, EnterTyped DEF Replay
  <2> QED BY <1>4, <2>1 DEF Replay, TypeOK
<1>5. CASE SweepRead(t, d)
  <2>1. PICK S \in SUBSET Subs :
          disp' = [disp EXCEPT ![d] =
            [NoDisp EXCEPT !.pc = "sweep", !.t = t,
                           !.elig = {<<s, row[<<t, s>>].id>> : s \in S}]]
    BY <1>5 DEF SweepRead
  <2>2. {<<s, row[<<t, s>>].id>> : s \in S} \in SUBSET (Subs \X Nat)
    <3>1. ASSUME NEW s \in S PROVE <<s, row[<<t, s>>].id>> \in Subs \X Nat
      <4>1. <<t, s>> \in Keys
        BY DEF Keys
      <4>2. row[<<t, s>>].id \in Nat
        BY <4>1, RowTyped DEF Row
      <4> QED BY <4>2
    <3> QED BY <3>1
  <2>3. ASSUME NEW elig \in SUBSET (Subs \X Nat)
        PROVE  [NoDisp EXCEPT !.pc = "sweep", !.t = t, !.elig = elig] \in Disp
    BY NullsTyped DEF Disp, DispPcs
  <2>4. disp' \in [Slots -> Disp]
    BY <1>0, <2>1, <2>2, <2>3 DEF TypeOK
  <2> QED BY <1>5, <2>4 DEF SweepRead, TypeOK
<1> QED BY <1>3, <1>4, <1>5

LEMMA DispatchTyped ==
  ASSUME TypeOK, NEW d \in Slots, DispatchStep(d) PROVE TypeOK'
<1> DEFINE t == disp[d].t
<1>0. t \in Trades /\ disp \in [Slots -> Disp] /\ disp[d] \in Disp /\ NoDisp \in Disp
  BY NullsTyped DEF TypeOK, Disp
<1>1. ASSUME NEW pc \in DispPcs
      PROVE  [NoDisp EXCEPT !.pc = pc, !.t = t] \in Disp /\ [disp[d] EXCEPT !.pc = pc] \in Disp
  BY <1>0 DEF Disp
<1>2. [s \in Subs |-> NoTask] \in [Subs -> Task]
  BY NullsTyped
<1>3. CASE SweepRequeue(d)
  <2>1. disp' \in [Slots -> Disp]
    BY <1>0, <1>1, <1>3 DEF SweepRequeue, DispPcs
  <2>2. row' \in [Keys -> Row]
    BY <1>3, RowTyped, RowChangesTyped DEF SweepRequeue
  <2> QED BY <1>3, <2>1, <2>2 DEF SweepRequeue, TypeOK
<1>4. CASE Begin(d)
  <2>1. disp' \in [Slots -> Disp]
    BY <1>0, <1>1, <1>4 DEF Begin, DispPcs
  <2>2. row' \in [Keys -> Row]
    BY <1>4, RowTyped, RowChangesTyped DEF Begin
  <2>3. reopened' \in [Keys -> Nat]
    BY <1>4, RecountTyped DEF Begin
  <2> QED BY <1>4, <2>1, <2>2, <2>3 DEF Begin, TypeOK
<1>5. CASE Resolve(d)
  <2>1. ASSUME NEW A \in SUBSET Subs, NEW B \in SUBSET Subs
        PROVE  [disp[d] EXCEPT !.pc = "fanout", !.open = A, !.blocked = B] \in Disp
    BY <1>0 DEF Disp, DispPcs
  <2>2. PICK A \in SUBSET Subs, B \in SUBSET Subs :
          disp' = [disp EXCEPT ![d] = [@ EXCEPT !.pc = "fanout", !.open = A, !.blocked = B]]
    BY <1>5 DEF Resolve, Eligible
  <2> QED BY <1>0, <1>5, <2>1, <2>2 DEF Resolve, TypeOK
<1>6. CASE FanOut(d)
  <2>1. ASSUME NEW S, NEW st \in RowStates, NEW code \in Codes, CreateRows(t, S, st, code)
        PROVE  row' \in [Keys -> Row]
    <3>1. ASSUME NEW k \in Keys
          PROVE  [NoRow EXCEPT !.st = st, !.code = code, !.id = row[k].id + 1] \in Row
      <4>1. row[k].id + 1 \in Nat
        BY RowTyped DEF Row
      <4> QED BY <4>1, NullsTyped DEF Row
    <3> QED BY <2>1, <3>1, RowTyped DEF CreateRows
  <2>2. row' \in [Keys -> Row]
    BY <1>6, <2>1 DEF FanOut, RowStates, Codes, TypeOK
  <2>3. \E pc \in DispPcs : disp' = [disp EXCEPT ![d] = [NoDisp EXCEPT !.pc = pc, !.t = t]]
    BY <1>6 DEF FanOut, DispPcs
  <2>4. disp' \in [Slots -> Disp]
    BY <1>0, <1>1, <2>3
  <2> QED BY <1>6, <2>2, <2>4 DEF FanOut, TypeOK
<1>7. CASE ReadRows(d)
  <2>1. disp' \in [Slots -> Disp]
    BY <1>0, <1>1, <1>7 DEF ReadRows, DispPcs
  <2>2. ASSUME NEW s \in Subs, NEW w \in BOOLEAN
        PROVE  [NoTask EXCEPT !.pc = "delay", !.rc = row[<<t, s>>].rc,
                              !.id = row[<<t, s>>].id, !.warned = w] \in Task
    BY <1>0, NullsTyped DEF TypeOK, Keys, Row, Task, TaskPcs
  <2>3. task' \in [Slots -> [Subs -> Task]]
    BY <1>7, <2>2, NullsTyped DEF ReadRows, TypeOK
  <2> QED BY <1>7, <2>1, <2>3 DEF ReadRows, TypeOK
<1>8. CASE Finish(d)
  BY <1>0, <1>1, <1>2, <1>8 DEF Finish, TypeOK, DispPcs
<1>9. CASE MarkProcessed(d)
  BY <1>0, <1>9 DEF MarkProcessed, TypeOK
<1>10. CASE Abort(d)
  BY <1>0, <1>1, <1>10 DEF Abort, TypeOK, DispPcs
<1>11. CASE OrphanEnds(d)
  BY <1>0, <1>2, <1>11 DEF OrphanEnds, TypeOK
<1> QED
  BY <1>3, <1>4, <1>5, <1>6, <1>7, <1>8, <1>9, <1>10, <1>11 DEF DispatchStep
LEMMA TaskTyped ==
  ASSUME TypeOK, NEW d \in Slots, NEW s \in Subs, TaskStep(d, s) PROVE TypeOK'
<1>0. Key(d, s) \in Keys /\ RowAt(d, s) \in Row /\ task[d][s] \in Task
  BY KeyTyped
<1>1. task[d][s].rc + 1 \in Nat
  BY KeyTyped
<1>2. CASE Claim(d, s)
  <2>1. CASE task[d][s].warned
    BY <1>2, <2>1, AbsorbTyped, StopTyped DEF Claim, TaskPcs, TypeOK
  <2>2. CASE ~task[d][s].warned /\ Found(d, s) /\ RowAt(d, s).st = "queued"
    <3>1. WithStatus(RowAt(d, s), "submitting", "") \in Row
      BY <1>0, StatusTyped DEF RowStates, Codes, Task
    <3>2. row' \in [Keys -> Row] /\ reopened' \in [Keys -> Nat]
      BY <1>2, <2>2, <3>1, SetRowTyped DEF Claim
    <3>3. [task[d][s] EXCEPT !.pc = "live", !.own = TRUE] \in Task
      BY <1>0 DEF Task, TaskPcs
    <3>4. task' \in [Slots -> [Subs -> Task]]
      BY <1>2, <2>2, <3>3, PutTyped DEF Claim
    <3> QED BY <1>2, <3>2, <3>4 DEF Claim, TypeOK
  <2>3. CASE ~task[d][s].warned /\ ~(Found(d, s) /\ RowAt(d, s).st = "queued")
    BY <1>2, <2>3, StopTyped DEF Claim, TaskPcs, TypeOK
  <2> QED BY <2>1, <2>2, <2>3
<1>3. CASE LiveCheck(d, s)
  <2>1. WithStatus(RowAt(d, s), "skipped", "") \in Row
    BY <1>0, StatusTyped DEF RowStates, Codes
  <2>2. CASE s \in Eligible(disp[d].t)
    BY <1>3, <2>2, GoTyped DEF LiveCheck, TaskPcs, TypeOK
  <2>3. CASE s \notin Eligible(disp[d].t)
    BY <1>3, <2>1, <2>3, UpdateTyped DEF LiveCheck, TypeOK
  <2> QED BY <2>2, <2>3
<1>4. CASE Prepare(d, s)
  <2>1. row' \in [Keys -> Row] /\ reopened' \in [Keys -> Nat]
    <3>1. WithStatus(RowAt(d, s), "skipped", "") \in Row
      BY <1>0, StatusTyped DEF RowStates, Codes
    <3>2. WithFailure(RowAt(d, s), "ignored_no_position_sell", task[d][s].rc + 1) \in Row
      BY <1>0, <1>1, FailureTyped DEF Codes, Retryable
    <3>3. [RowAt(d, s) EXCEPT !.aged = FALSE] \in Row
      BY <1>0, RowChangesTyped
    <3> QED BY <1>4, <3>1, <3>2, <3>3, SetRowTyped, AbsorbTyped DEF Prepare, TypeOK
  <2>2. task' \in [Slots -> [Subs -> Task]]
    BY <1>4, GoTyped, StopTyped DEF Prepare, TaskPcs
  <2>3. sub' \in [Subs -> [mode: {"on", "paused", "off"}, warn: {"none"} \cup Warnings]]
    BY <1>4, WarningTyped DEF Prepare, TypeOK
  <2> QED BY <1>4, <2>1, <2>2, <2>3 DEF Prepare, TypeOK
<1>5. CASE Throw(d, s) \/ TakeUserLock(d, s) \/ Return(d, s) \/ CatchThrows(d, s)
  <2>1. task' \in [Slots -> [Subs -> Task]]
    BY <1>5, GoTyped, StopTyped DEF Throw, TakeUserLock, Return, CatchThrows, TaskPcs
  <2> QED BY <1>5, <2>1 DEF Throw, TakeUserLock, Return, CatchThrows, TypeOK
<1>6. CASE Post(d, s)
  <2>1. ASSUME NEW resp \in {"ok", "partial"}
        PROVE  [task[d][s] EXCEPT !.pc = "sent", !.ex = TRUE, !.resp = resp] \in Task
    BY <1>0 DEF Task, TaskPcs
  <2>2. [task[d][s] EXCEPT !.pc = "record", !.resp = "unfilled"] \in Task
    BY <1>0 DEF Task, TaskPcs
  <2>3. task' \in [Slots -> [Subs -> Task]]
    <3>1. CASE \E resp \in {"ok", "partial"} :
                 task' = [task EXCEPT ![d][s] =
                            [@ EXCEPT !.pc = "sent", !.ex = TRUE, !.resp = resp]]
      BY <2>1, <3>1, PutTyped
    <3>2. CASE task' = [task EXCEPT ![d][s] = [@ EXCEPT !.pc = "record", !.resp = "unfilled"]]
      BY <2>2, <3>2, PutTyped
    <3>3. CASE Go(d, s, "catch")
      BY <3>3, GoTyped DEF TaskPcs
    <3> QED BY <1>6, <3>1, <3>2, <3>3 DEF Post
  <2>4. execs' \in [Keys -> Nat]
    <3>1. CASE execs' = [execs EXCEPT ![Key(d, s)] = @ + 1]
      BY <1>0, <3>1 DEF TypeOK
    <3>2. CASE UNCHANGED execs
      BY <3>2 DEF TypeOK
    <3> QED BY <1>6, <3>1, <3>2 DEF Post
  <2> QED BY <1>6, <2>3, <2>4 DEF Post, TypeOK
<1>7. CASE Record(d, s)
  <2>1. /\ WithStatus(RowAt(d, s), "skipped", "") \in Row
        /\ WithStatus(RowAt(d, s), "filled", "") \in Row
    BY <1>0, StatusTyped DEF RowStates, Codes
  <2>2. WithFailure(RowAt(d, s), "clob_partial_fill", task[d][s].rc + 1) \in Row
    BY <1>0, <1>1, FailureTyped DEF Codes, Retryable
  <2>3. /\ row' \in [Keys -> Row] /\ reopened' \in [Keys -> Nat]
        /\ task' \in [Slots -> [Subs -> Task]]
    <3>1. CASE Found(d, s) /\ SetRow(d, s, WithStatus(RowAt(d, s), "filled", ""))
                           /\ Go(d, s, "settle")
      BY <2>1, <3>1, SetRowTyped, GoTyped DEF TaskPcs
    <3>2. CASE Go(d, s, "catch") /\ UNCHANGED <<row, reopened>>
      BY <3>2, GoTyped DEF TaskPcs, TypeOK
    <3> QED BY <1>7, <2>1, <2>2, <3>1, <3>2, UpdateTyped DEF Record
  <2> QED BY <1>7, <2>3 DEF Record, TypeOK
<1>8. CASE Settle(d, s)
  <2>1. task' \in [Slots -> [Subs -> Task]]
    BY <1>8, GoTyped, StopTyped DEF Settle, TaskPcs
  <2>2. sub' \in [Subs -> [mode: {"on", "paused", "off"}, warn: {"none"} \cup Warnings]]
    BY <1>8, WarningTyped DEF Settle, TypeOK, Warnings
  <2> QED BY <1>8, <2>1, <2>2 DEF Settle, TypeOK
<1>9. CASE Catch(d, s)
  <2>1. /\ [WithStatus(RowAt(d, s), "dead", "") EXCEPT !.rc = task[d][s].rc + 1] \in Row
        /\ WithFailure(RowAt(d, s), "transient", task[d][s].rc + 1) \in Row
    BY <1>0, <1>1, StatusTyped, FailureTyped DEF RowStates, Codes, Retryable
  <2>2. row' \in [Keys -> Row] /\ reopened' \in [Keys -> Nat]
    BY <1>9, <2>1, SetRowTyped, AbsorbTyped DEF Catch, TypeOK
  <2>3. task' \in [Slots -> [Subs -> Task]]
    BY <1>9, StopTyped DEF Catch, TaskPcs
  <2>4. sub' \in [Subs -> [mode: {"on", "paused", "off"}, warn: {"none"} \cup Warnings]]
    BY <1>9, WarningTyped DEF Catch, TypeOK, Warnings
  <2> QED BY <1>9, <2>2, <2>3, <2>4 DEF Catch, TypeOK
<1> QED
  BY <1>2, <1>3, <1>4, <1>5, <1>6, <1>7, <1>8, <1>9 DEF TaskStep

\* The repair of a page: the row becomes filled and keeps its id and tries.
LEMMA RepairEffect ==
  ASSUME TypeOK, NEW j \in Keys, RepairWrite(j), NEW k \in Keys
  PROVE  \/ row'[k] = row[k]
         \/ /\ k = j /\ k \in repair /\ row'[k] \in Row
            /\ row'[k].st = "filled" /\ row'[k].code = ""
            /\ row'[k].rc = row[k].rc /\ row'[k].id = row[k].id
<1>1. row \in [Keys -> Row] /\ row[k] \in Row /\ j \in repair
  BY DEF TypeOK, RepairWrite
<1>2. CASE row' = row
  BY <1>2
<1>3. CASE row' = [row EXCEPT ![j] = WithStatus(row[j], "filled", "")]
  <2>1. CASE k = j
    <3>1. row'[k] = WithStatus(row[k], "filled", "")
      BY <1>1, <1>3, <2>1
    <3>2. WithStatus(row[k], "filled", "") \in Row
      BY <1>1, StatusTyped DEF RowStates, Codes
    <3> QED BY <1>1, <2>1, <3>1, <3>2 DEF WithStatus, Row
  <2>2. CASE k # j
    BY <1>1, <1>3, <2>2
  <2> QED BY <2>1, <2>2
<1> QED BY <1>2, <1>3 DEF RepairWrite

LEMMA WorldTyped ==
  ASSUME TypeOK,
         \/ \E k \in Keys : Age(k) \/ RepairWrite(k)
         \/ \E u \in Users : PageResetsStale(u) \/ RepairRead(u)
         \/ \E d \in Slots : DispatchThrows(d)
         \/ \E p \in {"api", "worker"} : Crash(p)
         \/ Change
  PROVE  TypeOK'
<1>1. ASSUME NEW k \in Keys, Age(k) PROVE TypeOK'
  <2>1. [row[k] EXCEPT !.aged = TRUE] \in Row
    BY RowTyped, RowChangesTyped
  <2> QED BY <1>1, <2>1 DEF Age, TypeOK
<1>2. ASSUME NEW u \in Users, PageResetsStale(u) PROVE TypeOK'
  <2>1. ASSUME NEW k \in Keys PROVE WithStatus(row[k], "failed", "stale_submitting") \in Row
    BY RowTyped, StatusTyped DEF RowStates, Codes, Retryable
  <2>2. row' \in [Keys -> Row]
    BY <1>2, <2>1, RowTyped DEF PageResetsStale
  <2>3. reopened' \in [Keys -> Nat]
    BY <1>2, RecountTyped DEF PageResetsStale
  <2>4. used' \in [{"signals", "crashes", "changes", "reads"} -> Nat]
    BY <1>2, SpendTyped DEF PageResetsStale
  <2> QED BY <1>2, <2>2, <2>3, <2>4 DEF PageResetsStale, TypeOK
<1>3. ASSUME NEW p \in {"api", "worker"}, Crash(p) PROVE TypeOK'
  <2>1. used' \in [{"signals", "crashes", "changes", "reads"} -> Nat]
    BY <1>3, SpendTyped DEF Crash
  <2> QED BY <1>3, <2>1, NullsTyped DEF Crash, TypeOK
<1>4. ASSUME Change PROVE TypeOK'
  <2>1. used' \in [{"signals", "crashes", "changes", "reads"} -> Nat]
    BY <1>4, SpendTyped DEF Change
  <2>2. sub' \in [Subs -> [mode: {"on", "paused", "off"}, warn: {"none"} \cup Warnings]]
    <3>1. ASSUME NEW s \in Subs, NEW m \in {"on", "paused", "off"},
                 NEW w \in {"none"} \cup Warnings,
                 sub' = [sub EXCEPT ![s] = [mode |-> m, warn |-> w]]
          PROVE  sub' \in [Subs -> [mode: {"on", "paused", "off"}, warn: {"none"} \cup Warnings]]
      BY <3>1 DEF TypeOK
    <3> QED BY <1>4, <3>1 DEF Change, TypeOK
  <2>3. leaderOn' \in BOOLEAN
    BY <1>4 DEF Change, TypeOK
  <2> QED BY <1>4, <2>1, <2>2, <2>3 DEF Change, TypeOK
<1>5. ASSUME NEW d \in Slots, DispatchThrows(d) PROVE TypeOK'
  <2>1. used' \in [{"signals", "crashes", "changes", "reads"} -> Nat]
    BY <1>5, SpendTyped DEF DispatchThrows
  <2> QED BY <1>5, <2>1, NullsTyped DEF DispatchThrows, TypeOK
<1>6. ASSUME NEW k \in Keys, RepairWrite(k) PROVE TypeOK'
  <2>1. WithStatus(row[k], "filled", "") \in Row
    BY RowTyped, StatusTyped DEF RowStates, Codes
  <2>2. row' \in [Keys -> Row]
    BY <1>6, <2>1 DEF RepairWrite, TypeOK
  <2> QED BY <1>6, <2>2 DEF RepairWrite, TypeOK
<1>7. ASSUME NEW u \in Users, RepairRead(u) PROVE TypeOK'
  <2>1. used' \in [{"signals", "crashes", "changes", "reads"} -> Nat]
    BY <1>7, SpendTyped DEF RepairRead
  <2> QED BY <1>7, <2>1 DEF RepairRead, TypeOK
<1> QED BY <1>1, <1>2, <1>3, <1>4, <1>5, <1>6, <1>7

LEMMA TypeNext == TypeOK /\ [Next]_vars => TypeOK'
<1> SUFFICES ASSUME TypeOK, [Next]_vars PROVE TypeOK'
  OBVIOUS
<1>1. CASE UNCHANGED vars
  BY <1>1 DEF vars, TypeOK
<1>2. ASSUME NEW t \in Trades, Signal(t) PROVE TypeOK'
  BY <1>2, SignalTyped
<1>3. ASSUME NEW t \in Trades, Lose(t) \/ Archive(t) \/ Outlives(t) PROVE TypeOK'
  <2>1. CASE Lose(t)
    BY <2>1 DEF Lose, TypeOK
  <2>2. CASE Archive(t)
    BY <2>2 DEF Archive, TypeOK
  <2>3. CASE Outlives(t)
    BY <2>3 DEF Outlives, TypeOK
  <2> QED BY <1>3, <2>1, <2>2, <2>3
<1>4. ASSUME NEW t \in Trades, NEW d \in WorkerSlots,
             Deliver(t, d) \/ Replay(t, d) \/ SweepRead(t, d)
      PROVE  TypeOK'
  BY <1>4, QueueTyped
<1>5. ASSUME NEW d \in Slots, DispatchStep(d) PROVE TypeOK'
  BY <1>5, DispatchTyped
<1>6. ASSUME NEW d \in Slots, NEW s \in Subs, TaskStep(d, s) PROVE TypeOK'
  BY <1>6, TaskTyped
<1> QED BY <1>1, <1>2, <1>3, <1>4, <1>5, <1>6, WorldTyped DEF Next

\* Every reachable state is typed.
THEOREM TypeCorrect == Spec => []TypeOK
BY TypeInit, TypeNext, PTL DEF Spec

-----------------------------------------------------------------------------
(* What one step of a task does to its row and to itself *)

\* The row of the task becomes r; no other row changes.
RowEffect(d, s, r) ==
  /\ row' = [row EXCEPT ![Key(d, s)] = r]
  /\ r # RowAt(d, s) => /\ Found(d, s) /\ r.id = RowAt(d, s).id
                        /\ r.code # "buy_funding" \/ r.code = RowAt(d, s).code
  /\ \/ r.st = RowAt(d, s).st /\ r.code = RowAt(d, s).code /\ r.rc = RowAt(d, s).rc
     \/ r.st = "submitting" /\ RowAt(d, s).st = "queued" /\ r.rc = RowAt(d, s).rc
     \/ r.st \in {"skipped", "filled"} /\ r.rc = RowAt(d, s).rc
     \/ r.st = "none" /\ r.rc = 0
     \/ r.st = "failed" /\ r.code \in Retryable /\ r.rc = task[d][s].rc + 1
     \/ r.st = "dead" /\ r.rc = task[d][s].rc + 1

\* The task becomes x; no other task and no dispatch changes.
TaskEffect(d, s, x) ==
  /\ task' = [task EXCEPT ![d][s] = x] /\ disp' = disp
  /\ task[d][s].pc \in TaskPcs \ {"idle", "done", "threw"} /\ x.pc # task[d][s].pc
  /\ x.rc \in {0, task[d][s].rc} /\ x.id \in {0, task[d][s].id}

LEMMA GoEffect ==
  ASSUME TypeOK, NEW d \in Slots, NEW s \in Subs, NEW pc \in TaskPcs,
         Go(d, s, pc) \/ Stop(d, s, pc), disp' = disp, pc # task[d][s].pc,
         task[d][s].pc \in TaskPcs \ {"idle", "done", "threw"}
  PROVE  \E x \in Task : TaskEffect(d, s, x) /\ x.pc = pc
<1>1. task[d][s] \in Task /\ NoTask \in Task /\ task \in [Slots -> [Subs -> Task]]
  BY KeyTyped, NullsTyped DEF TypeOK
<1>2. CASE Go(d, s, pc)
  <2>1. [task[d][s] EXCEPT !.pc = pc] \in Task
    BY <1>1 DEF Task
  <2>2. TaskEffect(d, s, [task[d][s] EXCEPT !.pc = pc])
    BY <1>1, <1>2 DEF Go, TaskEffect, Task
  <2>3. [task[d][s] EXCEPT !.pc = pc].pc = pc
    BY <1>1 DEF Task
  <2> QED BY <2>1, <2>2, <2>3
<1>3. CASE Stop(d, s, pc)
  <2>1. [NoTask EXCEPT !.pc = pc] \in Task
    BY <1>1 DEF Task
  <2>2. TaskEffect(d, s, [NoTask EXCEPT !.pc = pc])
    BY <1>1, <1>3 DEF Stop, TaskEffect, NoTask
  <2>3. [NoTask EXCEPT !.pc = pc].pc = pc
    BY DEF NoTask
  <2> QED BY <2>1, <2>2, <2>3
<1> QED BY <1>2, <1>3

LEMMA KeepEffect ==
  ASSUME TypeOK, NEW d \in Slots, NEW s \in Subs, row' = row
  PROVE  \E r \in Row : RowEffect(d, s, r)
<1>1. RowAt(d, s) \in Row /\ Key(d, s) \in Keys
  BY KeyTyped
<1>2. RowEffect(d, s, RowAt(d, s))
  BY <1>1 DEF RowEffect, TypeOK, RowAt
<1> QED BY <1>1, <1>2

LEMMA StatusEffect ==
  ASSUME TypeOK, NEW d \in Slots, NEW s \in Subs, Found(d, s),
         NEW st \in {"skipped", "filled", "submitting"},
         st = "submitting" => RowAt(d, s).st = "queued",
         SetRow(d, s, WithStatus(RowAt(d, s), st, ""))
  PROVE  \E r \in Row : RowEffect(d, s, r)
<1> DEFINE r == WithStatus(RowAt(d, s), st, "")
<1>1. RowAt(d, s) \in Row /\ r \in Row
  BY KeyTyped, StatusTyped DEF RowStates, Codes
<1>2. r.st = st /\ r.code = "" /\ r.rc = RowAt(d, s).rc /\ r.id = RowAt(d, s).id
  BY <1>1 DEF WithStatus, Row
<1>3. RowEffect(d, s, r)
  BY <1>2 DEF RowEffect, SetRow
<1> QED BY <1>1, <1>3

LEMMA FailureEffect ==
  ASSUME TypeOK, NEW d \in Slots, NEW s \in Subs, Found(d, s), NEW code \in Retryable,
         \/ SetRow(d, s, WithFailure(RowAt(d, s), code, task[d][s].rc + 1))
         \/ SetRow(d, s, [WithStatus(RowAt(d, s), "dead", "") EXCEPT !.rc = task[d][s].rc + 1])
  PROVE  \E r \in Row : RowEffect(d, s, r)
<1>1. RowAt(d, s) \in Row /\ task[d][s].rc + 1 \in Nat
  BY KeyTyped
<1>2. CASE SetRow(d, s, WithFailure(RowAt(d, s), code, task[d][s].rc + 1))
  <2> DEFINE r == WithFailure(RowAt(d, s), code, task[d][s].rc + 1)
  <2>1. r \in Row
    BY <1>1, FailureTyped DEF Codes
  <2>2. /\ r.st = "failed" /\ r.code = code /\ r.rc = task[d][s].rc + 1
        /\ r.id = RowAt(d, s).id
    BY <1>1 DEF WithFailure, WithStatus, Row
  <2>3. RowEffect(d, s, r)
    BY <1>2, <2>2 DEF RowEffect, SetRow, Retryable
  <2> QED BY <2>1, <2>3
<1>3. CASE SetRow(d, s, [WithStatus(RowAt(d, s), "dead", "") EXCEPT !.rc = task[d][s].rc + 1])
  <2> DEFINE r == [WithStatus(RowAt(d, s), "dead", "") EXCEPT !.rc = task[d][s].rc + 1]
  <2>1. r \in Row
    BY <1>1, StatusTyped DEF RowStates, Codes
  <2>2. /\ r.st = "dead" /\ r.code = "" /\ r.rc = task[d][s].rc + 1
        /\ r.id = RowAt(d, s).id
    <3>1. WithStatus(RowAt(d, s), "dead", "") \in Row
      BY <1>1, StatusTyped DEF RowStates, Codes
    <3> QED BY <1>1, <3>1 DEF WithStatus, Row
  <2>3. RowEffect(d, s, r)
    BY <1>3, <2>2 DEF RowEffect, SetRow
  <2> QED BY <2>1, <2>3
<1> QED BY <1>2, <1>3

LEMMA AbsorbEffect ==
  ASSUME TypeOK, NEW d \in Slots, NEW s \in Subs, Absorb(d, s)
  PROVE  \E r \in Row : RowEffect(d, s, r)
<1>1. CASE Found(d, s)
  <2> DEFINE r == [NoRow EXCEPT !.id = RowAt(d, s).id]
  <2>1. r \in Row
    BY KeyTyped, NullsTyped DEF Row
  <2>2. r.st = "none" /\ r.rc = 0 /\ r.code = "" /\ r.id = RowAt(d, s).id
    BY DEF NoRow
  <2>3. RowEffect(d, s, r)
    BY <1>1, <2>2 DEF RowEffect, SetRow, Absorb
  <2> QED BY <2>1, <2>3
<1>2. CASE ~Found(d, s)
  BY <1>2, KeepEffect DEF Absorb
<1> QED BY <1>1, <1>2

LEMMA UpdateEffect ==
  ASSUME TypeOK, NEW d \in Slots, NEW s \in Subs, NEW r, UpdateThenStop(d, s, r),
         Found(d, s) /\ SetRow(d, s, r) => \E q \in Row : RowEffect(d, s, q),
         disp' = disp, task[d][s].pc \in TaskPcs \ {"idle", "done", "threw", "catch"}
  PROVE  /\ \E q \in Row : RowEffect(d, s, q)
         /\ \E x \in Task : TaskEffect(d, s, x)
<1>1. CASE Found(d, s)
  <2>1. SetRow(d, s, r) /\ Stop(d, s, "done")
    BY <1>1 DEF UpdateThenStop
  <2>2. \E x \in Task : TaskEffect(d, s, x)
    BY <2>1, GoEffect DEF TaskPcs
  <2> QED BY <1>1, <2>1, <2>2
<1>2. CASE ~Found(d, s)
  <2>1. Go(d, s, "catch") /\ row' = row
    BY <1>2 DEF UpdateThenStop
  <2>2. \E x \in Task : TaskEffect(d, s, x)
    BY <2>1, GoEffect DEF TaskPcs
  <2> QED BY <2>1, <2>2, KeepEffect
<1> QED BY <1>1, <1>2

LEMMA TaskStepEffect ==
  ASSUME TypeOK, NEW d \in Slots, NEW s \in Subs, TaskStep(d, s)
  PROVE  /\ \E r \in Row : RowEffect(d, s, r)
         /\ \E x \in Task : TaskEffect(d, s, x)
<1>0. /\ Key(d, s) \in Keys /\ RowAt(d, s) \in Row /\ task[d][s] \in Task
      /\ task \in [Slots -> [Subs -> Task]]
  BY KeyTyped DEF TypeOK
<1>1. CASE Claim(d, s)
  <2>1. CASE task[d][s].warned
    BY <1>1, <2>1, AbsorbEffect, GoEffect DEF Claim, TaskPcs
  <2>2. CASE ~task[d][s].warned /\ Found(d, s) /\ RowAt(d, s).st = "queued"
    <3>1. \E r \in Row : RowEffect(d, s, r)
      BY <1>1, <2>2, StatusEffect DEF Claim
    <3> DEFINE x == [task[d][s] EXCEPT !.pc = "live", !.own = TRUE]
    <3>2. x \in Task /\ x.pc = "live" /\ x.rc = task[d][s].rc /\ x.id = task[d][s].id
      BY <1>0 DEF Task, TaskPcs
    <3>3. task' = [task EXCEPT ![d][s] = x] /\ task[d][s].pc = "delay" /\ disp' = disp
      BY <1>0, <1>1, <2>2 DEF Claim
    <3>4. TaskEffect(d, s, x)
      BY <3>2, <3>3 DEF TaskEffect, TaskPcs
    <3> QED BY <3>1, <3>2, <3>4
  <2>3. CASE ~task[d][s].warned /\ ~(Found(d, s) /\ RowAt(d, s).st = "queued")
    <3>1. row' = row /\ disp' = disp /\ Stop(d, s, "done") /\ task[d][s].pc = "delay"
      BY <1>1, <2>3 DEF Claim
    <3> QED BY <3>1, KeepEffect, GoEffect DEF TaskPcs
  <2> QED BY <2>1, <2>2, <2>3
<1>2. CASE LiveCheck(d, s)
  <2>1. CASE s \in Eligible(disp[d].t)
    BY <1>2, <2>1, KeepEffect, GoEffect DEF LiveCheck, TaskPcs
  <2>2. CASE s \notin Eligible(disp[d].t)
    BY <1>2, <2>2, StatusEffect, UpdateEffect DEF LiveCheck, TaskPcs
  <2> QED BY <2>1, <2>2
<1>3. CASE Prepare(d, s)
  <2>1. \E x \in Task : TaskEffect(d, s, x)
    <3>1. task[d][s].pc = "prep" /\ disp' = disp
      BY <1>3 DEF Prepare
    <3>2. Stop(d, s, "done") \/ Go(d, s, "catch") \/ Go(d, s, "lock")
      BY <1>3 DEF Prepare
    <3> QED BY <3>1, <3>2, GoEffect DEF TaskPcs
  <2>2. CASE SetRow(d, s, WithStatus(RowAt(d, s), "skipped", ""))
    BY <1>3, <2>1, <2>2, StatusEffect DEF Prepare
  <2>3. CASE SetRow(d, s, WithFailure(RowAt(d, s), "ignored_no_position_sell",
                                      task[d][s].rc + 1))
    BY <1>3, <2>1, <2>3, FailureEffect DEF Prepare, Retryable
  <2>4. CASE Absorb(d, s) \/ row' = row
    BY <1>3, <2>1, <2>4, AbsorbEffect, KeepEffect
  <2>5. CASE SetRow(d, s, [RowAt(d, s) EXCEPT !.aged = FALSE])
    <3> DEFINE r == [RowAt(d, s) EXCEPT !.aged = FALSE]
    <3>1. /\ r \in Row /\ r.st = RowAt(d, s).st /\ r.code = RowAt(d, s).code
          /\ r.rc = RowAt(d, s).rc /\ r.id = RowAt(d, s).id
      BY <1>0 DEF Row
    <3>2. RowEffect(d, s, r)
      BY <1>3, <2>5, <3>1 DEF RowEffect, SetRow, Prepare
    <3> QED BY <2>1, <3>1, <3>2
  <2> QED BY <1>3, <2>2, <2>3, <2>4, <2>5 DEF Prepare
<1>4. CASE Throw(d, s) \/ TakeUserLock(d, s) \/ Return(d, s) \/ CatchThrows(d, s)
  <2>1. \E x \in Task : TaskEffect(d, s, x)
    BY <1>4, GoEffect DEF Throw, TakeUserLock, Return, CatchThrows, TaskPcs
  <2>2. row' = row
    BY <1>4 DEF Throw, TakeUserLock, Return, CatchThrows
  <2> QED BY <2>1, <2>2, KeepEffect
<1>5. CASE Post(d, s)
  <2>1. row' = row /\ disp' = disp /\ task[d][s].pc = "post"
    BY <1>5 DEF Post
  <2>2. ASSUME NEW resp \in {"ok", "partial"},
               task' = [task EXCEPT ![d][s] =
                          [@ EXCEPT !.pc = "sent", !.ex = TRUE, !.resp = resp]]
        PROVE  \E x \in Task : TaskEffect(d, s, x)
    <3> DEFINE x == [task[d][s] EXCEPT !.pc = "sent", !.ex = TRUE, !.resp = resp]
    <3>1. x \in Task /\ x.pc = "sent" /\ x.rc = task[d][s].rc /\ x.id = task[d][s].id
      BY <1>0 DEF Task, TaskPcs
    <3>2. TaskEffect(d, s, x)
      BY <1>0, <2>1, <2>2, <3>1 DEF TaskEffect, TaskPcs
    <3> QED BY <3>1, <3>2
  <2>3. ASSUME task' = [task EXCEPT ![d][s] = [@ EXCEPT !.pc = "record", !.resp = "unfilled"]]
        PROVE  \E x \in Task : TaskEffect(d, s, x)
    <3> DEFINE x == [task[d][s] EXCEPT !.pc = "record", !.resp = "unfilled"]
    <3>1. x \in Task /\ x.pc = "record" /\ x.rc = task[d][s].rc /\ x.id = task[d][s].id
      BY <1>0 DEF Task, TaskPcs
    <3>2. TaskEffect(d, s, x)
      BY <1>0, <2>1, <2>3, <3>1 DEF TaskEffect, TaskPcs
    <3> QED BY <3>1, <3>2
  <2>4. ASSUME Go(d, s, "catch") PROVE \E x \in Task : TaskEffect(d, s, x)
    BY <2>1, <2>4, GoEffect DEF TaskPcs
  <2>5. \E x \in Task : TaskEffect(d, s, x)
    <3>1. CASE \E resp \in {"ok", "partial"} :
                 task' = [task EXCEPT ![d][s] =
                            [@ EXCEPT !.pc = "sent", !.ex = TRUE, !.resp = resp]]
      BY <2>2, <3>1
    <3>2. CASE task' = [task EXCEPT ![d][s] = [@ EXCEPT !.pc = "record", !.resp = "unfilled"]]
      BY <2>3, <3>2
    <3>3. CASE Go(d, s, "catch")
      BY <2>4, <3>3
    <3> QED BY <1>5, <3>1, <3>2, <3>3 DEF Post
  <2> QED BY <2>1, <2>5, KeepEffect
<1>6. CASE Record(d, s)
  <2>1. CASE UpdateThenStop(d, s, WithStatus(RowAt(d, s), "skipped", ""))
    BY <1>6, <2>1, StatusEffect, UpdateEffect DEF Record, TaskPcs
  <2>2. CASE UpdateThenStop(d, s, WithFailure(RowAt(d, s), "clob_partial_fill",
                                              task[d][s].rc + 1))
    BY <1>6, <2>2, FailureEffect, UpdateEffect DEF Record, TaskPcs, Retryable
  <2>3. CASE /\ Found(d, s) /\ SetRow(d, s, WithStatus(RowAt(d, s), "filled", ""))
             /\ Go(d, s, "settle")
    <3>1. disp' = disp /\ task[d][s].pc = "record" /\ Go(d, s, "settle")
      BY <1>6, <2>3 DEF Record
    <3>2. \E x \in Task : TaskEffect(d, s, x)
      BY <3>1, GoEffect DEF TaskPcs
    <3> QED BY <2>3, <3>2, StatusEffect
  <2>4. CASE Go(d, s, "catch") /\ row' = row
    <3>1. disp' = disp /\ task[d][s].pc = "record" /\ Go(d, s, "catch")
      BY <1>6, <2>4 DEF Record
    <3>2. \E x \in Task : TaskEffect(d, s, x)
      BY <3>1, GoEffect DEF TaskPcs
    <3> QED BY <2>4, <3>2, KeepEffect
  <2> QED BY <1>6, <2>1, <2>2, <2>3, <2>4 DEF Record
<1>7. CASE Settle(d, s)
  BY <1>7, KeepEffect, GoEffect DEF Settle, TaskPcs
<1>8. CASE Catch(d, s)
  <2>1. \E x \in Task : TaskEffect(d, s, x)
    <3>1. task[d][s].pc = "catch" /\ disp' = disp
      BY <1>8 DEF Catch
    <3>2. Stop(d, s, "done") \/ Stop(d, s, "threw")
      BY <1>8 DEF Catch
    <3> QED BY <3>1, <3>2, GoEffect DEF TaskPcs
  <2>2. CASE Absorb(d, s) \/ row' = row
    BY <2>1, <2>2, AbsorbEffect, KeepEffect
  <2>3. CASE /\ Found(d, s)
             /\ \/ SetRow(d, s, WithFailure(RowAt(d, s), "transient", task[d][s].rc + 1))
                \/ SetRow(d, s, [WithStatus(RowAt(d, s), "dead", "")
                                    EXCEPT !.rc = task[d][s].rc + 1])
    BY <2>1, <2>3, FailureEffect DEF Retryable
  <2> QED BY <1>8, <2>2, <2>3 DEF Catch
<1> QED
  BY <1>1, <1>2, <1>3, <1>4, <1>5, <1>6, <1>7, <1>8 DEF TaskStep

-----------------------------------------------------------------------------
(* Tries *)

LEMMA RetriesInit == Init => RetriesBounded
<1> SUFFICES ASSUME Init PROVE RetriesBounded
  OBVIOUS
<1>1. \A k \in Keys : row[k].rc = 0 /\ row[k].st = "none"
  BY DEF Init, NoRow
<1>2. \A d \in Slots, s \in Subs : task[d][s].rc = 0
  BY DEF Init, NoTask
<1> QED BY <1>1, <1>2, RetriesAssumption DEF RetriesBounded

LEMMA TaskKeepsRetries ==
  ASSUME TypeOK, RetriesBounded, NEW d \in Slots, NEW s \in Subs, TaskStep(d, s)
  PROVE  RetriesBounded'
<1>1. PICK r \in Row, x \in Task : RowEffect(d, s, r) /\ TaskEffect(d, s, x)
  BY TaskStepEffect
<1>2. task[d][s] \in Task /\ task[d][s].rc \in Nat /\ Key(d, s) \in Keys /\ RowAt(d, s) \in Row
  BY KeyTyped DEF Task
<1>3. task[d][s].rc < MaxRetries /\ RowAt(d, s).rc <= MaxRetries
      /\ (RowAt(d, s).st \in {"queued", "submitting"} => RowAt(d, s).rc < MaxRetries)
  BY <1>2 DEF RetriesBounded, RowAt
<1>4. r.rc <= MaxRetries /\ (r.st \in {"queued", "submitting"} => r.rc < MaxRetries)
  BY <1>1, <1>2, <1>3, RetriesAssumption DEF RowEffect
<1>5. x.rc < MaxRetries
  BY <1>1, <1>2, <1>3, RetriesAssumption DEF TaskEffect
<1>6. \A k \in Keys : row'[k] = IF k = Key(d, s) THEN r ELSE row[k]
  BY <1>1, <1>2 DEF RowEffect, TypeOK
<1>7. \A e \in Slots, v \in Subs : task'[e][v] = IF e = d /\ v = s THEN x ELSE task[e][v]
  BY <1>1 DEF TaskEffect, TypeOK
<1> QED BY <1>4, <1>5, <1>6, <1>7 DEF RetriesBounded

LEMMA DispatchKeepsRetries ==
  ASSUME TypeOK, RetriesBounded, NEW d \in Slots, DispatchStep(d)
  PROVE  RetriesBounded'
<1>0. disp[d].t \in Trades /\ MaxRetries \in Nat /\ NoTask.rc = 0 /\ 0 < MaxRetries
  BY RetriesAssumption DEF TypeOK, Disp, NoTask
<1>1. CASE SweepRequeue(d)
  <2>1. ASSUME NEW k \in Keys
        PROVE  /\ row'[k].rc = row[k].rc
               /\ row'[k].st = row[k].st \/ row[k].rc < MaxRetries
    BY <1>1, RowTyped DEF SweepRequeue, Requeued, Row
  <2> QED BY <1>1, <2>1 DEF SweepRequeue, RetriesBounded
<1>2. CASE Begin(d)
  <2>1. ASSUME NEW k \in Keys, row[k].st = "submitting"
        PROVE  /\ StaleReset(row[k]).rc <= MaxRetries
               /\ StaleReset(row[k]).st \notin {"queued", "submitting"}
    <3>1. row[k] \in Row /\ row[k].rc \in Nat /\ row[k].rc < MaxRetries
      BY <2>1, RowTyped DEF RetriesBounded, Row
    <3> QED BY <1>0, <3>1 DEF StaleReset, Row
  <2>2. \A k \in Keys : row'[k] = row[k] \/ (row[k].st = "submitting" /\ row'[k] = StaleReset(row[k]))
    BY <1>2 DEF Begin
  <2> QED BY <1>2, <2>1, <2>2 DEF Begin, RetriesBounded
<1>3. CASE FanOut(d)
  <2>1. ASSUME NEW k \in Keys PROVE row'[k] = row[k] \/ row'[k].rc = 0
    BY <1>3 DEF FanOut, CreateRows, NoRow
  <2>2. UNCHANGED task
    BY <1>3 DEF FanOut
  <2> QED BY SMTT(30), <1>0, <2>1, <2>2 DEF RetriesBounded
<1>4. CASE ReadRows(d)
  <2>1. ASSUME NEW s \in Subs PROVE task'[d][s].rc < MaxRetries
    <3>1. <<disp[d].t, s>> \in Keys
      BY <1>0 DEF Keys
    <3>2. \/ task'[d][s].rc = row[<<disp[d].t, s>>].rc /\ row[<<disp[d].t, s>>].st = "queued"
          \/ task'[d][s].rc = 0
      BY <1>4 DEF ReadRows, NoTask, TypeOK
    <3> QED BY <1>0, <3>1, <3>2 DEF RetriesBounded
  <2>2. \A e \in Slots : e # d => task'[e] = task[e]
    BY <1>4 DEF ReadRows, TypeOK
  <2>3. UNCHANGED row
    BY <1>4 DEF ReadRows
  <2> QED BY <2>1, <2>2, <2>3 DEF RetriesBounded
<1>5. CASE Finish(d) \/ OrphanEnds(d)
  <2>1. /\ UNCHANGED row /\ task'[d] = [s \in Subs |-> NoTask]
        /\ \A e \in Slots : e # d => task'[e] = task[e]
    BY <1>5 DEF Finish, OrphanEnds, TypeOK
  <2>2. \A s \in Subs : task'[d][s].rc = 0
    BY <1>0, <2>1, Zenon
  <2> QED BY <1>0, <2>1, <2>2 DEF RetriesBounded
<1>6. CASE Resolve(d) \/ MarkProcessed(d) \/ Abort(d)
  BY <1>6 DEF Resolve, MarkProcessed, Abort, RetriesBounded
<1> QED BY <1>1, <1>2, <1>3, <1>4, <1>5, <1>6 DEF DispatchStep

LEMMA RetriesNext == TypeOK /\ RetriesBounded /\ [Next]_vars => RetriesBounded'
<1> SUFFICES ASSUME TypeOK, RetriesBounded, [Next]_vars PROVE RetriesBounded'
  OBVIOUS
<1>1. CASE UNCHANGED <<row, task>>
  BY <1>1 DEF RetriesBounded
<1>2. ASSUME NEW k \in Keys, Age(k) PROVE RetriesBounded'
  <2>1. \A j \in Keys : row'[j].rc = row[j].rc /\ row'[j].st = row[j].st
    BY <1>2, RowTyped DEF Age, TypeOK, Row
  <2> QED BY <1>2, <2>1 DEF Age, RetriesBounded
<1>3. ASSUME NEW u \in Users, PageResetsStale(u) PROVE RetriesBounded'
  <2>1. \A j \in Keys : /\ row'[j].rc = row[j].rc
                        /\ row'[j].st = row[j].st \/ row'[j].st = "failed"
    BY <1>3, RowTyped DEF PageResetsStale, WithStatus, Row
  <2> QED BY <1>3, <2>1 DEF PageResetsStale, RetriesBounded
<1>4. ASSUME NEW p \in {"api", "worker"}, Crash(p) PROVE RetriesBounded'
  BY <1>4, RetriesAssumption DEF Crash, RetriesBounded, NoTask
<1>5. (\E t \in Trades : Signal(t) \/ Lose(t) \/ Archive(t) \/ Outlives(t)) => UNCHANGED <<row, task>>
  BY DEF Signal, Lose, Archive, Outlives
<1>6. (\E t \in Trades, d \in WorkerSlots : Deliver(t, d) \/ Replay(t, d) \/ SweepRead(t, d))
        => UNCHANGED <<row, task>>
  BY DEF Deliver, Replay, SweepRead
<1>7. Change \/ UNCHANGED vars \/ (\E d \in Slots : DispatchThrows(d))
        \/ (\E u \in Users : RepairRead(u)) => UNCHANGED <<row, task>>
  BY DEF Change, vars, DispatchThrows, RepairRead
<1>8. ASSUME NEW k \in Keys, RepairWrite(k) PROVE RetriesBounded'
  <2>1. \A j \in Keys : /\ row'[j].rc = row[j].rc
                        /\ row'[j].st = row[j].st \/ row'[j].st = "filled"
    BY <1>8, RepairEffect
  <2> QED BY <1>8, <2>1 DEF RepairWrite, RetriesBounded
<1> QED
  BY <1>1, <1>2, <1>3, <1>4, <1>5, <1>6, <1>7, <1>8, TaskKeepsRetries, DispatchKeepsRetries DEF Next

\* The tries of a row stay within COPY_MAX_RETRIES, and what is queued,
\* claimed or being worked on has one left.
THEOREM RetriesCorrect == Spec => []RetriesBounded
<1>1. Init => TypeOK /\ RetriesBounded
  BY TypeInit, RetriesInit
<1>2. TypeOK /\ RetriesBounded /\ [Next]_vars => (TypeOK /\ RetriesBounded)'
  BY TypeNext, RetriesNext
<1> QED BY <1>1, <1>2, PTL DEF Spec

-----------------------------------------------------------------------------
(* Settled rows *)

Settled(k) == row[k].st \in {"filled", "dead", "skipped"}

LEMMA SettledStep ==
  ASSUME TypeOK, [Next]_vars, NEW k \in Keys, Settled(k), row'[k] # row[k]
  PROVE  \/ RepairWrite(k)
         \/ \E d \in Slots, s \in Subs : TaskStep(d, s) /\ k = Key(d, s)
<1>0. SUFFICES ASSUME ~RepairWrite(k)
               PROVE  \E d \in Slots, s \in Subs : TaskStep(d, s) /\ k = Key(d, s)
  OBVIOUS
<1>1. ~UNCHANGED row
  OBVIOUS
<1>2. ~\E t \in Trades : Signal(t) \/ Lose(t) \/ Archive(t) \/ Outlives(t)
  BY <1>1 DEF Signal, Lose, Archive, Outlives
<1>3. ~\E t \in Trades, d \in WorkerSlots : Deliver(t, d) \/ Replay(t, d) \/ SweepRead(t, d)
  BY <1>1 DEF Deliver, Replay, SweepRead
<1>4. ASSUME NEW d \in Slots, DispatchStep(d) PROVE FALSE
  <2>1. ~SweepRequeue(d)
    BY DEF SweepRequeue, Requeued, Settled
  <2>2. ~Begin(d)
    BY DEF Begin, Settled
  <2>3. ~FanOut(d)
    BY <1>1 DEF FanOut, CreateRows, Settled
  <2>4. ~(Resolve(d) \/ ReadRows(d) \/ Finish(d) \/ MarkProcessed(d) \/ Abort(d) \/ OrphanEnds(d))
    BY <1>1 DEF Resolve, ReadRows, Finish, MarkProcessed, Abort, OrphanEnds
  <2> QED BY <1>4, <2>1, <2>2, <2>3, <2>4 DEF DispatchStep
<1>5. ASSUME NEW j \in Keys, Age(j) PROVE FALSE
  BY <1>5 DEF Age, Settled, TypeOK
<1>6. ASSUME NEW u \in Users, PageResetsStale(u) \/ RepairRead(u) PROVE FALSE
  BY <1>1, <1>6 DEF PageResetsStale, RepairRead, Settled
<1>11. ASSUME NEW j \in Keys, RepairWrite(j) PROVE FALSE
  BY <1>0, <1>11, RepairEffect
<1>7. /\ ~(Change \/ UNCHANGED vars \/ \E p \in {"api", "worker"} : Crash(p))
      /\ ~\E d \in Slots : DispatchThrows(d)
  BY <1>1 DEF Change, vars, Crash, DispatchThrows
<1>8. PICK d \in Slots, s \in Subs : TaskStep(d, s)
  BY <1>2, <1>3, <1>4, <1>5, <1>6, <1>7, <1>11 DEF Next
<1>9. PICK r \in Row : RowEffect(d, s, r)
  BY <1>8, TaskStepEffect
<1>10. k = Key(d, s)
  BY <1>9, KeyTyped DEF RowEffect, TypeOK
<1> QED BY <1>8, <1>10

LEMMA SettledNext ==
  ASSUME TypeOK, [Next]_vars
  PROVE  \A k \in Keys :
           row[k].st \in {"filled", "dead", "skipped"} /\ row'[k] # row[k]
             => \/ k \in repair /\ row'[k].st = "filled"
                \/ \E d \in Slots : /\ disp[d].t = k[1] /\ task[d][k[2]].id = row[k].id
                                    /\ task[d][k[2]].pc \in TaskPcs \ {"idle", "done", "threw"}
                                    /\ task'[d] # task[d]
<1> SUFFICES ASSUME NEW k \in Keys, Settled(k), row'[k] # row[k]
             PROVE  \/ k \in repair /\ row'[k].st = "filled"
                    \/ \E d \in Slots : /\ disp[d].t = k[1] /\ task[d][k[2]].id = row[k].id
                                        /\ task[d][k[2]].pc \in TaskPcs \ {"idle", "done", "threw"}
                                        /\ task'[d] # task[d]
  BY DEF Settled
<1>0. CASE RepairWrite(k)
  BY <1>0, RepairEffect
<1> SUFFICES ASSUME ~RepairWrite(k)
             PROVE  \E d \in Slots : /\ disp[d].t = k[1] /\ task[d][k[2]].id = row[k].id
                                     /\ task[d][k[2]].pc \in TaskPcs \ {"idle", "done", "threw"}
                                     /\ task'[d] # task[d]
  BY <1>0
<1>1. PICK d \in Slots, s \in Subs : TaskStep(d, s) /\ k = Key(d, s)
  BY SettledStep
<1>2. PICK r \in Row, x \in Task : RowEffect(d, s, r) /\ TaskEffect(d, s, x)
  BY <1>1, TaskStepEffect
<1>3. k[1] = disp[d].t /\ k[2] = s /\ RowAt(d, s) = row[k]
  BY <1>1 DEF Key, RowAt
<1>4. r # row[k]
  BY <1>1, <1>2, <1>3 DEF RowEffect, TypeOK
<1>5. task[d][s].id = row[k].id
  BY <1>1, <1>2, <1>3, <1>4 DEF RowEffect, Found, Alive
<1>6. task'[d][s].pc # task[d][s].pc
  BY <1>2 DEF TaskEffect, TypeOK
<1> QED BY <1>2, <1>3, <1>5, <1>6 DEF TaskEffect

\* A settled row is taken up again by no signal, sweep, replay or other
\* dispatch: only a live task that had read this very row rewrites it, and the
\* repair of an executions page may call it filled.
THEOREM SettledCorrect == Spec => SettledRowsStay
<1>1. TypeOK /\ [Next]_vars =>
        [\A k \in Keys :
           row[k].st \in {"filled", "dead", "skipped"} /\ row'[k] # row[k]
             => \/ k \in repair /\ row'[k].st = "filled"
                \/ \E d \in Slots : /\ disp[d].t = k[1] /\ task[d][k[2]].id = row[k].id
                                    /\ task[d][k[2]].pc \in TaskPcs \ {"idle", "done", "threw"}
                                    /\ task'[d] # task[d]]_vars
  BY SettledNext
<1> QED BY <1>1, TypeCorrect, PTL DEF Spec, SettledRowsStay

-----------------------------------------------------------------------------
(* Orders: the invariant that makes OrdersAccounted inductive *)

\* Where a task stands says whether it holds a claim and whether its order
\* was executed.
InStep(x) ==
  /\ x.pc \in {"idle", "delay", "done", "threw"} => ~x.own /\ ~x.ex /\ x.resp = "none"
  /\ x.pc \in {"live", "prep", "lock", "post"} => x.own /\ ~x.ex
  /\ x.pc \in {"sent", "settle"} \/ x.resp \in {"partial", "ok"} => x.ex

TasksInStep == \A d \in Slots, s \in Subs : InStep(task[d][s])

\* Only a dispatch that is running its tasks, or left them behind, has any.
SlotsIdle ==
  \A d \in Slots : disp[d].pc \notin {"run", "orphan"} => task[d] = [s \in Subs |-> NoTask]

\* The sweep does not look at the code when it puts a row back.
FailedRetryable == \A k \in Keys : row[k].st = "failed" => row[k].code \in Retryable

OrdersInv == TypeOK /\ TasksInStep /\ SlotsIdle /\ FailedRetryable /\ OrdersAccounted

\* A task that is one of the Holders of its row.
Active(x) == x.own /\ ~x.ex /\ x.pc \in HolderPcs

Bit(p) == IF p THEN 1 ELSE 0

LEMMA SlotSets ==
  \A S \in SUBSET Slots : IsFiniteSet(S) /\ Cardinality(S) \in Nat
<1>1. IsFiniteSet(Slots)
  BY SetsAssumption, FS_Union DEF Slots
<1> QED BY <1>1, FS_Subset, FS_CardinalityType

LEMMA FewerHolders ==
  ASSUME NEW S \in SUBSET Slots, NEW T \in SUBSET S
  PROVE  Cardinality(T) <= Cardinality(S)
BY SlotSets, FS_Subset

LEMMA OneHolder ==
  ASSUME NEW S \in SUBSET Slots, NEW T \in SUBSET Slots, NEW d \in Slots, S \ {d} = T \ {d}
  PROVE  Cardinality(T) - Bit(d \in T) = Cardinality(S) - Bit(d \in S)
<1>1. Cardinality(S \ {d}) = Cardinality(S) - Bit(d \in S)
  BY SlotSets, FS_RemoveElement DEF Bit
<1>2. Cardinality(T \ {d}) = Cardinality(T) - Bit(d \in T)
  BY SlotSets, FS_RemoveElement DEF Bit
<1> QED BY <1>1, <1>2

\* A step that adds no holder and counts what it makes orderable.
LEMMA FrameOrders ==
  ASSUME TypeOK, OrdersAccounted, execs' = execs, reopened' \in [Keys -> Nat],
         \A d \in Slots : \/ disp'[d].t = disp[d].t /\ task'[d] = task[d]
                          \/ \A v \in Subs : ~Active(task'[d][v]),
         \A k \in Keys : reopened[k] - Bit(Orderable(row[k]))
                            <= reopened'[k] - Bit(Orderable(row'[k]))
  PROVE  OrdersAccounted'
<1> SUFFICES ASSUME NEW k \in Keys
             PROVE  execs'[k] + Cardinality(Holders(k)') + Bit(Orderable(row'[k]))
                      <= 1 + reopened'[k]
  BY DEF OrdersAccounted, Bit, Orderable, Sweepable
<1>1. Holders(k) \subseteq Slots /\ Holders(k)' \subseteq Slots /\ k[2] \in Subs
  BY DEF Holders, Keys
<1>2. Holders(k)' \subseteq Holders(k)
  BY <1>1 DEF Holders, Holds, Active
<1>3. Cardinality(Holders(k)') <= Cardinality(Holders(k))
      /\ Cardinality(Holders(k)) \in Nat /\ Cardinality(Holders(k)') \in Nat
  BY <1>1, <1>2, FewerHolders, SlotSets
<1>4. execs[k] + Cardinality(Holders(k)) + Bit(Orderable(row[k])) <= 1 + reopened[k]
  BY DEF OrdersAccounted, Bit
<1>5. execs[k] \in Nat /\ reopened[k] \in Nat /\ reopened'[k] \in Nat
      /\ Bit(Orderable(row[k])) \in {0, 1} /\ Bit(Orderable(row'[k])) \in {0, 1}
  BY DEF TypeOK, Bit
<1> QED BY <1>3, <1>4, <1>5

\* A step of one task that does not raise what it stands for.
LEMMA LocalOrders ==
  ASSUME TypeOK, OrdersAccounted, TypeOK', NEW d \in Slots, NEW s \in Subs, NEW x \in Task,
         task' = [task EXCEPT ![d][s] = x], disp' = disp,
         \A j \in Keys \ {Key(d, s)} :
            row'[j] = row[j] /\ reopened'[j] = reopened[j] /\ execs'[j] = execs[j],
         execs'[Key(d, s)] + Bit(Active(x)) + Bit(Orderable(row'[Key(d, s)]))
             - reopened'[Key(d, s)]
           <= execs[Key(d, s)] + Bit(Active(task[d][s])) + Bit(Orderable(row[Key(d, s)]))
                - reopened[Key(d, s)]
  PROVE  OrdersAccounted'
<1> SUFFICES ASSUME NEW k \in Keys
             PROVE  execs'[k] + Cardinality(Holders(k)') + Bit(Orderable(row'[k]))
                      <= 1 + reopened'[k]
  BY DEF OrdersAccounted, Bit, Orderable, Sweepable
<1>1. Holders(k) \subseteq Slots /\ Holders(k)' \subseteq Slots /\ k[2] \in Subs
      /\ k = <<k[1], k[2]>>
  BY DEF Holders, Keys
<1>2. execs[k] + Cardinality(Holders(k)) + Bit(Orderable(row[k])) <= 1 + reopened[k]
  BY DEF OrdersAccounted, Bit
<1>3. /\ execs[k] \in Nat /\ execs'[k] \in Nat /\ reopened[k] \in Nat /\ reopened'[k] \in Nat
      /\ Bit(Orderable(row[k])) \in {0, 1} /\ Bit(Orderable(row'[k])) \in {0, 1}
      /\ Bit(Active(x)) \in {0, 1} /\ Bit(Active(task[d][s])) \in {0, 1}
  BY DEF TypeOK, Bit
<1>4. Cardinality(Holders(k)) \in Nat /\ Cardinality(Holders(k)') \in Nat
  BY <1>1, SlotSets
<1>5. \A e \in Slots, v \in Subs : task'[e][v] = IF e = d /\ v = s THEN x ELSE task[e][v]
  BY DEF TypeOK
<1>6. CASE k = Key(d, s)
  <2>1. k[1] = disp[d].t /\ k[2] = s
    BY <1>6 DEF Key
  <2>2. Holders(k) \ {d} = Holders(k)' \ {d}
    BY <1>1, <1>5 DEF Holders, Holds
  <2>3. (d \in Holders(k) <=> Active(task[d][s])) /\ (d \in Holders(k)' <=> Active(x))
    BY <1>5, <2>1 DEF Holders, Holds, Active
  <2>4. Cardinality(Holders(k)') - Bit(Active(x))
          = Cardinality(Holders(k)) - Bit(Active(task[d][s]))
    BY <1>1, <2>2, <2>3, OneHolder DEF Bit
  <2> QED BY <1>2, <1>3, <1>4, <1>6, <2>4
<1>7. CASE k # Key(d, s)
  <2>1. disp[d].t # k[1] \/ s # k[2]
    BY <1>1, <1>7 DEF Key
  <2>2. Holders(k)' = Holders(k)
    BY <1>1, <1>5, <2>1 DEF Holders, Holds
  <2>3. row'[k] = row[k] /\ reopened'[k] = reopened[k] /\ execs'[k] = execs[k]
    BY <1>7
  <2> QED BY <1>2, <2>2, <2>3
<1> QED BY <1>6, <1>7

\* A step that leaves rows and history alone and makes no task a holder.
LEMMA KeepOrders ==
  ASSUME TypeOK, OrdersAccounted, TypeOK', NEW d \in Slots, NEW s \in Subs, NEW x \in Task,
         task' = [task EXCEPT ![d][s] = x], disp' = disp,
         row' = row, reopened' = reopened, execs' = execs,
         Active(x) => Active(task[d][s])
  PROVE  OrdersAccounted'
<1>1. Key(d, s) \in Keys /\ execs[Key(d, s)] \in Nat /\ reopened[Key(d, s)] \in Nat
  BY KeyTyped DEF TypeOK
<1>2. /\ Bit(Active(x)) \in {0, 1} /\ Bit(Active(task[d][s])) \in {0, 1}
      /\ Bit(Orderable(row[Key(d, s)])) \in {0, 1}
      /\ Bit(Active(x)) <= Bit(Active(task[d][s]))
  BY DEF Bit
<1>3. execs'[Key(d, s)] + Bit(Active(x)) + Bit(Orderable(row'[Key(d, s)])) - reopened'[Key(d, s)]
        <= execs[Key(d, s)] + Bit(Active(task[d][s])) + Bit(Orderable(row[Key(d, s)]))
             - reopened[Key(d, s)]
  BY <1>1, <1>2
<1> QED BY <1>3, LocalOrders

\* What SetRow does to the history.
LEMMA SetRowCounts ==
  ASSUME TypeOK, NEW d \in Slots, NEW s \in Subs, NEW r \in Row, SetRow(d, s, r)
  PROVE  /\ row'[Key(d, s)] = r
         /\ \A j \in Keys \ {Key(d, s)} : row'[j] = row[j] /\ reopened'[j] = reopened[j]
         /\ reopened'[Key(d, s)] =
              IF ~Holds(d, s) /\ ~Orderable(RowAt(d, s)) /\ Orderable(r)
              THEN reopened[Key(d, s)] + 1 ELSE reopened[Key(d, s)]
<1>1. Key(d, s) \in Keys /\ row' = [row EXCEPT ![Key(d, s)] = r]
  BY KeyTyped DEF SetRow
<1>2. row'[Key(d, s)] = r /\ \A j \in Keys \ {Key(d, s)} : row'[j] = row[j]
  BY <1>1 DEF TypeOK
<1>3. \A j \in Keys :
        reopened'[j] =
          IF /\ j \notin (IF Holds(d, s) THEN {Key(d, s)} ELSE {})
             /\ ~Orderable(row[j]) /\ Orderable(row'[j])
          THEN reopened[j] + 1 ELSE reopened[j]
  BY DEF SetRow, Recount
<1>4. \A j \in Keys \ {Key(d, s)} : reopened'[j] = reopened[j]
  BY <1>2, <1>3
<1> QED BY <1>1, <1>2, <1>3, <1>4 DEF RowAt

\* A write after which the task holds nothing: either it gave back what it
\* held or the history counts what it made orderable.
LEMMA WriteOrders ==
  ASSUME TypeOK, OrdersAccounted, TypeOK', NEW d \in Slots, NEW s \in Subs, NEW x \in Task,
         task' = [task EXCEPT ![d][s] = x], disp' = disp, execs' = execs,
         NEW r \in Row, SetRow(d, s, r),
         ~Active(x), Holds(d, s) => Active(task[d][s])
  PROVE  OrdersAccounted'
<1> DEFINE k == Key(d, s)
<1>1. k \in Keys /\ execs[k] \in Nat /\ reopened[k] \in Nat /\ RowAt(d, s) = row[k]
  BY KeyTyped DEF TypeOK, RowAt
<1>2. /\ row'[k] = r
      /\ \A j \in Keys \ {k} : row'[j] = row[j] /\ reopened'[j] = reopened[j]
      /\ reopened'[k] = IF ~Holds(d, s) /\ ~Orderable(row[k]) /\ Orderable(r)
                        THEN reopened[k] + 1 ELSE reopened[k]
  BY <1>1, SetRowCounts
<1>3. Active(task[d][s]) => Holds(d, s)
  BY DEF Active, Holds
<1>4. execs'[k] + Bit(Active(x)) + Bit(Orderable(row'[k])) - reopened'[k]
        <= execs[k] + Bit(Active(task[d][s])) + Bit(Orderable(row[k])) - reopened[k]
  <2>1. CASE Holds(d, s)
    <3>1. Bit(Active(x)) = 0 /\ Bit(Active(task[d][s])) = 1 /\ reopened'[k] = reopened[k]
      BY <1>2, <2>1 DEF Bit
    <3>2. Bit(Orderable(row'[k])) \in {0, 1} /\ Bit(Orderable(row[k])) \in {0, 1}
      BY DEF Bit
    <3> QED BY <1>1, <3>1, <3>2
  <2>2. CASE ~Holds(d, s)
    <3>1. Bit(Active(x)) = 0 /\ Bit(Active(task[d][s])) = 0
      BY <1>3, <2>2 DEF Bit
    <3>2. Bit(Orderable(row'[k])) - reopened'[k] <= Bit(Orderable(row[k])) - reopened[k]
      BY <1>1, <1>2, <2>2 DEF Bit
    <3>3. /\ Bit(Orderable(row'[k])) \in {0, 1} /\ Bit(Orderable(row[k])) \in {0, 1}
          /\ reopened'[k] \in Nat
      BY <1>1, <1>2 DEF Bit
    <3> QED BY <1>1, <3>1, <3>2, <3>3
  <2> QED BY <2>1, <2>2
<1>5. \A j \in Keys \ {k} :
        row'[j] = row[j] /\ reopened'[j] = reopened[j] /\ execs'[j] = execs[j]
  BY <1>2
<1> QED BY <1>4, <1>5, LocalOrders

\* What a step of a task keeps of the invariant.
KeepsOrders(d, s) ==
  /\ OrdersAccounted'
  /\ \E x \in Task : task' = [task EXCEPT ![d][s] = x] /\ disp' = disp /\ InStep(x)

LEMMA HoldsActive ==
  ASSUME TypeOK, TasksInStep, NEW d \in Slots, NEW s \in Subs, Holds(d, s)
  PROVE  Active(task[d][s])
<1>1. InStep(task[d][s]) /\ task[d][s].pc \in TaskPcs /\ task[d][s].own /\ ~task[d][s].ex
  BY KeyTyped DEF TasksInStep, Task, Holds
<1> QED BY <1>1 DEF InStep, Active, HolderPcs, TaskPcs

LEMMA StopOrders ==
  ASSUME TypeOK, TasksInStep, OrdersAccounted, TypeOK', NEW d \in Slots, NEW s \in Subs,
         NEW pc \in {"done", "threw"}, Stop(d, s, pc), disp' = disp, execs' = execs,
         \/ row' = row /\ reopened' = reopened
         \/ \E r \in Row : SetRow(d, s, r)
  PROVE  KeepsOrders(d, s)
<1> DEFINE x == [NoTask EXCEPT !.pc = pc]
<1>1. x \in Task
  BY NullsTyped DEF Task, TaskPcs
<1>2. task' = [task EXCEPT ![d][s] = x]
  BY DEF Stop
<1>3. InStep(x) /\ ~Active(x)
  BY DEF NoTask, InStep, Active
<1>4. Holds(d, s) => Active(task[d][s])
  BY HoldsActive
<1> HIDE DEF x
<1>5. OrdersAccounted'
  BY <1>1, <1>2, <1>3, <1>4, KeepOrders, WriteOrders
<1> QED BY <1>1, <1>2, <1>3, <1>5 DEF KeepsOrders

LEMMA GoForm ==
  ASSUME TypeOK, NEW d \in Slots, NEW s \in Subs, NEW pc \in TaskPcs, Go(d, s, pc)
  PROVE  \E x \in Task : /\ task' = [task EXCEPT ![d][s] = x]
                         /\ x.pc = pc /\ x.own = task[d][s].own
                         /\ x.ex = task[d][s].ex /\ x.resp = task[d][s].resp
<1>1. task[d][s] \in Task /\ task \in [Slots -> [Subs -> Task]]
  BY KeyTyped DEF TypeOK
<1> DEFINE x == [task[d][s] EXCEPT !.pc = pc]
<1>2. x \in Task
  BY <1>1 DEF Task
<1>3. task' = [task EXCEPT ![d][s] = x]
  BY <1>1 DEF Go
<1>4. /\ x.pc = pc /\ x.own = task[d][s].own /\ x.ex = task[d][s].ex
      /\ x.resp = task[d][s].resp
  BY <1>1 DEF Task
<1> QED BY <1>2, <1>3, <1>4

LEMMA GoOrders ==
  ASSUME TypeOK, TasksInStep, OrdersAccounted, TypeOK', NEW d \in Slots, NEW s \in Subs,
         NEW pc \in {"prep", "lock", "post", "record", "catch"}, Go(d, s, pc), disp' = disp,
         row' = row, reopened' = reopened, execs' = execs,
         pc \in {"prep", "lock", "post"} => task[d][s].pc \in {"live", "prep", "lock"}
  PROVE  KeepsOrders(d, s)
<1>1. PICK x \in Task : /\ task' = [task EXCEPT ![d][s] = x]
                        /\ x.pc = pc /\ x.own = task[d][s].own
                        /\ x.ex = task[d][s].ex /\ x.resp = task[d][s].resp
  BY GoForm DEF TaskPcs
<1>2. InStep(task[d][s])
  BY DEF TasksInStep
<1>3. InStep(x)
  BY <1>1, <1>2 DEF InStep
<1>4. Active(x) => Active(task[d][s])
  BY <1>1, HoldsActive DEF Active, Holds
<1>5. OrdersAccounted'
  BY <1>1, <1>4, KeepOrders
<1> QED BY <1>1, <1>3, <1>5 DEF KeepsOrders

LEMMA UpdateOrders ==
  ASSUME TypeOK, TasksInStep, OrdersAccounted, TypeOK', NEW d \in Slots, NEW s \in Subs,
         NEW r \in Row, UpdateThenStop(d, s, r), disp' = disp, execs' = execs
  PROVE  KeepsOrders(d, s)
<1>1. CASE Found(d, s)
  BY <1>1, StopOrders DEF UpdateThenStop
<1>2. CASE ~Found(d, s)
  BY <1>2, GoOrders DEF UpdateThenStop
<1> QED BY <1>1, <1>2

LEMMA AbsorbOrders ==
  ASSUME TypeOK, TasksInStep, OrdersAccounted, TypeOK', NEW d \in Slots, NEW s \in Subs,
         Absorb(d, s), Stop(d, s, "done"), disp' = disp, execs' = execs
  PROVE  KeepsOrders(d, s)
<1>1. [NoRow EXCEPT !.id = RowAt(d, s).id] \in Row
  BY KeyTyped, NullsTyped DEF Row
<1> QED BY <1>1, StopOrders DEF Absorb

LEMMA ClaimOrders ==
  ASSUME TypeOK, TasksInStep, OrdersAccounted, TypeOK', NEW d \in Slots, NEW s \in Subs,
         Claim(d, s)
  PROVE  KeepsOrders(d, s)
<1>0. /\ disp' = disp /\ execs' = execs /\ task[d][s].pc = "delay"
      /\ InStep(task[d][s])
  <2>1. disp' = disp /\ execs' = execs /\ task[d][s].pc = "delay"
    BY DEF Claim
  <2> QED BY <2>1 DEF TasksInStep
<1>1. CASE task[d][s].warned
  BY <1>0, <1>1, AbsorbOrders DEF Claim
<1>2. CASE ~task[d][s].warned /\ ~(Found(d, s) /\ RowAt(d, s).st = "queued")
  BY <1>0, <1>2, StopOrders DEF Claim
<1>3. CASE ~task[d][s].warned /\ Found(d, s) /\ RowAt(d, s).st = "queued"
  <2> DEFINE k == Key(d, s)
             r == WithStatus(RowAt(d, s), "submitting", "")
             x == [task[d][s] EXCEPT !.pc = "live", !.own = TRUE]
  <2>1. /\ k \in Keys /\ r \in Row /\ RowAt(d, s) = row[k] /\ RowAt(d, s) \in Row
        /\ task[d][s] \in Task
    BY KeyTyped, StatusTyped DEF RowStates, Codes, RowAt
  <2>2. /\ x \in Task /\ x.pc = "live" /\ x.own
        /\ x.ex = task[d][s].ex /\ x.resp = task[d][s].resp
    BY <2>1 DEF Task, TaskPcs
  <2>3. SetRow(d, s, r) /\ task' = [task EXCEPT ![d][s] = x]
    BY <1>3 DEF Claim
  <2>4. r.st = "submitting"
    BY <2>1 DEF WithStatus, Row
  <2>5. Orderable(row[k]) /\ ~Orderable(r)
    BY <1>3, <2>1, <2>4 DEF Orderable, Sweepable
  <2>6. ~Active(task[d][s])
    BY <1>0 DEF InStep, Active
  <2>7. /\ row'[k] = r /\ reopened'[k] = reopened[k]
        /\ \A j \in Keys \ {k} : row'[j] = row[j] /\ reopened'[j] = reopened[j]
    BY <2>1, <2>3, <2>5, SetRowCounts
  <2>8. execs[k] \in Nat /\ reopened[k] \in Nat
    BY <2>1 DEF TypeOK
  <2>9. /\ Bit(Active(x)) \in {0, 1} /\ Bit(Active(task[d][s])) = 0
        /\ Bit(Orderable(row[k])) = 1 /\ Bit(Orderable(row'[k])) = 0
    BY <2>5, <2>6, <2>7 DEF Bit
  <2>10. OrdersAccounted'
    <3> HIDE DEF x, r
    <3>1. execs'[k] + Bit(Active(x)) + Bit(Orderable(row'[k])) - reopened'[k]
            <= execs[k] + Bit(Active(task[d][s])) + Bit(Orderable(row[k])) - reopened[k]
      BY <1>0, <2>7, <2>8, <2>9
    <3>2. \A j \in Keys \ {k} :
            row'[j] = row[j] /\ reopened'[j] = reopened[j] /\ execs'[j] = execs[j]
      BY <1>0, <2>7
    <3>3. x \in Task /\ task' = [task EXCEPT ![d][s] = x]
      BY <2>2, <2>3
    <3> QED BY <1>0, <3>1, <3>2, <3>3, LocalOrders
  <2>11. InStep(x)
    BY <1>0, <2>2 DEF InStep
  <2> QED BY <1>0, <2>2, <2>3, <2>10, <2>11 DEF KeepsOrders
<1> QED BY <1>1, <1>2, <1>3

LEMMA PrepareOrders ==
  ASSUME TypeOK, TasksInStep, OrdersAccounted, TypeOK', NEW d \in Slots, NEW s \in Subs,
         Prepare(d, s)
  PROVE  KeepsOrders(d, s)
<1>1. disp' = disp /\ execs' = execs /\ task[d][s].pc = "prep"
  BY DEF Prepare
<1>2. /\ Key(d, s) \in Keys /\ RowAt(d, s) \in Row /\ task[d][s].rc + 1 \in Nat
      /\ RowAt(d, s) = row[Key(d, s)]
  BY KeyTyped DEF RowAt
<1>3. ASSUME SetRow(d, s, WithStatus(RowAt(d, s), "skipped", "")), Stop(d, s, "done")
      PROVE  KeepsOrders(d, s)
  <2>1. WithStatus(RowAt(d, s), "skipped", "") \in Row
    BY <1>2, StatusTyped DEF RowStates, Codes
  <2> QED BY <1>1, <1>3, <2>1, StopOrders
<1>4. ASSUME Stop(d, s, "done"),
             SetRow(d, s, WithFailure(RowAt(d, s), "ignored_no_position_sell",
                                      task[d][s].rc + 1))
      PROVE  KeepsOrders(d, s)
  <2>1. WithFailure(RowAt(d, s), "ignored_no_position_sell", task[d][s].rc + 1) \in Row
    BY <1>2, FailureTyped DEF Codes, Retryable
  <2> QED BY <1>1, <1>4, <2>1, StopOrders
<1>5. ASSUME Absorb(d, s), Stop(d, s, "done") PROVE KeepsOrders(d, s)
  BY <1>1, <1>5, AbsorbOrders
<1>6. ASSUME Go(d, s, "catch"), row' = row, reopened' = reopened PROVE KeepsOrders(d, s)
  BY <1>1, <1>6, GoOrders
<1>7. ASSUME SetRow(d, s, [RowAt(d, s) EXCEPT !.aged = FALSE]), Go(d, s, "lock")
      PROVE  KeepsOrders(d, s)
  <2> DEFINE r == [RowAt(d, s) EXCEPT !.aged = FALSE]
  <2>1. r \in Row /\ r.st = RowAt(d, s).st /\ r.code = RowAt(d, s).code /\ r.rc = RowAt(d, s).rc
    BY <1>2 DEF Row
  <2>2. Orderable(r) = Orderable(RowAt(d, s))
    BY <2>1 DEF Orderable, Sweepable
  <2>3. PICK x \in Task : /\ task' = [task EXCEPT ![d][s] = x]
                          /\ x.pc = "lock" /\ x.own = task[d][s].own
                          /\ x.ex = task[d][s].ex /\ x.resp = task[d][s].resp
    BY <1>7, GoForm DEF TaskPcs
  <2>4. InStep(task[d][s])
    BY DEF TasksInStep
  <2>5. InStep(x) /\ (Active(x) <=> Active(task[d][s]))
    BY <1>1, <2>3, <2>4 DEF InStep, Active, HolderPcs
  <2> HIDE DEF r
  <2>6. /\ row'[Key(d, s)] = r /\ reopened'[Key(d, s)] = reopened[Key(d, s)]
        /\ \A j \in Keys \ {Key(d, s)} :
             row'[j] = row[j] /\ reopened'[j] = reopened[j] /\ execs'[j] = execs[j]
    BY <1>1, <1>7, <2>1, <2>2, SetRowCounts DEF r
  <2>7. execs[Key(d, s)] \in Nat /\ reopened[Key(d, s)] \in Nat
    BY <1>2 DEF TypeOK
  <2>8. /\ Bit(Active(x)) = Bit(Active(task[d][s])) /\ Bit(Active(x)) \in {0, 1}
        /\ Bit(Orderable(row'[Key(d, s)])) = Bit(Orderable(row[Key(d, s)]))
        /\ Bit(Orderable(row[Key(d, s)])) \in {0, 1}
    BY <1>2, <2>2, <2>5, <2>6 DEF Bit
  <2>9. execs'[Key(d, s)] + Bit(Active(x)) + Bit(Orderable(row'[Key(d, s)]))
            - reopened'[Key(d, s)]
          <= execs[Key(d, s)] + Bit(Active(task[d][s])) + Bit(Orderable(row[Key(d, s)]))
               - reopened[Key(d, s)]
    BY <1>1, <2>6, <2>7, <2>8
  <2>10. OrdersAccounted'
    BY <1>1, <2>3, <2>6, <2>9, LocalOrders
  <2> QED BY <1>1, <2>3, <2>5, <2>10 DEF KeepsOrders
<1> QED BY <1>3, <1>4, <1>5, <1>6, <1>7 DEF Prepare

LEMMA PostOrders ==
  ASSUME TypeOK, TasksInStep, OrdersAccounted, TypeOK', NEW d \in Slots, NEW s \in Subs,
         Post(d, s)
  PROVE  KeepsOrders(d, s)
<1>1. disp' = disp /\ row' = row /\ reopened' = reopened /\ task[d][s].pc = "post"
  BY DEF Post
<1>2. /\ Key(d, s) \in Keys /\ task[d][s] \in Task /\ InStep(task[d][s])
      /\ execs \in [Keys -> Nat] /\ reopened[Key(d, s)] \in Nat
  BY KeyTyped DEF TasksInStep, TypeOK
<1>3. Active(task[d][s])
  BY <1>1, <1>2 DEF InStep, Active, HolderPcs
<1>4. ASSUME NEW resp \in {"ok", "partial"},
             task' = [task EXCEPT ![d][s] =
                        [@ EXCEPT !.pc = "sent", !.ex = TRUE, !.resp = resp]],
             execs' = [execs EXCEPT ![Key(d, s)] = @ + 1]
      PROVE  KeepsOrders(d, s)
  <2> DEFINE x == [task[d][s] EXCEPT !.pc = "sent", !.ex = TRUE, !.resp = resp]
  <2>1. x \in Task /\ x.pc = "sent" /\ x.ex
    BY <1>2 DEF Task, TaskPcs
  <2>2. task' = [task EXCEPT ![d][s] = x]
    BY <1>4
  <2>3. InStep(x) /\ ~Active(x)
    BY <2>1 DEF InStep, Active
  <2> HIDE DEF x
  <2>4. /\ execs'[Key(d, s)] = execs[Key(d, s)] + 1 /\ execs[Key(d, s)] \in Nat
        /\ \A j \in Keys \ {Key(d, s)} :
             row'[j] = row[j] /\ reopened'[j] = reopened[j] /\ execs'[j] = execs[j]
    BY <1>1, <1>2, <1>4
  <2>5. /\ Bit(Active(x)) = 0 /\ Bit(Active(task[d][s])) = 1
        /\ Bit(Orderable(row[Key(d, s)])) \in {0, 1}
    BY <1>3, <2>3 DEF Bit
  <2>6. execs'[Key(d, s)] + Bit(Active(x)) + Bit(Orderable(row'[Key(d, s)]))
            - reopened'[Key(d, s)]
          <= execs[Key(d, s)] + Bit(Active(task[d][s])) + Bit(Orderable(row[Key(d, s)]))
               - reopened[Key(d, s)]
    BY <1>1, <1>2, <2>4, <2>5
  <2>7. OrdersAccounted'
    BY <1>1, <2>1, <2>2, <2>4, <2>6, LocalOrders
  <2> QED BY <1>1, <2>1, <2>2, <2>3, <2>7 DEF KeepsOrders
<1>5. ASSUME execs' = execs,
             task' = [task EXCEPT ![d][s] = [@ EXCEPT !.pc = "record", !.resp = "unfilled"]]
      PROVE  KeepsOrders(d, s)
  <2> DEFINE x == [task[d][s] EXCEPT !.pc = "record", !.resp = "unfilled"]
  <2>1. x \in Task /\ x.pc = "record" /\ x.resp = "unfilled"
    BY <1>2 DEF Task, TaskPcs
  <2>2. task' = [task EXCEPT ![d][s] = x]
    BY <1>5
  <2>3. InStep(x)
    BY <2>1 DEF InStep
  <2> HIDE DEF x
  <2>4. OrdersAccounted'
    BY <1>1, <1>3, <1>5, <2>1, <2>2, KeepOrders
  <2> QED BY <1>1, <2>1, <2>2, <2>3, <2>4 DEF KeepsOrders
<1>6. ASSUME Go(d, s, "catch"), execs' = execs PROVE KeepsOrders(d, s)
  BY <1>1, <1>6, GoOrders
<1>7. \/ /\ \E resp \in {"ok", "partial"} :
              task' = [task EXCEPT ![d][s] =
                         [@ EXCEPT !.pc = "sent", !.ex = TRUE, !.resp = resp]]
         /\ execs' = [execs EXCEPT ![Key(d, s)] = @ + 1]
      \/ /\ task' = [task EXCEPT ![d][s] = [@ EXCEPT !.pc = "record", !.resp = "unfilled"]]
         /\ execs' = execs
      \/ Go(d, s, "catch") /\ execs' = execs
  BY DEF Post
<1> QED BY <1>4, <1>5, <1>6, <1>7

LEMMA RecordOrders ==
  ASSUME TypeOK, TasksInStep, OrdersAccounted, TypeOK', NEW d \in Slots, NEW s \in Subs,
         Record(d, s)
  PROVE  KeepsOrders(d, s)
<1>1. disp' = disp /\ execs' = execs /\ task[d][s].pc = "record"
  BY DEF Record
<1>2. /\ RowAt(d, s) \in Row /\ task[d][s].rc + 1 \in Nat /\ InStep(task[d][s])
      /\ task[d][s] \in Task
  BY KeyTyped DEF TasksInStep
<1>3. CASE UpdateThenStop(d, s, WithStatus(RowAt(d, s), "skipped", ""))
  <2>1. WithStatus(RowAt(d, s), "skipped", "") \in Row
    BY <1>2, StatusTyped DEF RowStates, Codes
  <2> QED BY <1>1, <1>3, <2>1, UpdateOrders
<1>4. CASE UpdateThenStop(d, s, WithFailure(RowAt(d, s), "clob_partial_fill",
                                            task[d][s].rc + 1))
  <2>1. WithFailure(RowAt(d, s), "clob_partial_fill", task[d][s].rc + 1) \in Row
    BY <1>2, FailureTyped DEF Codes, Retryable
  <2> QED BY <1>1, <1>4, <2>1, UpdateOrders
<1>5. ASSUME task[d][s].resp \in {"partial", "ok"}, Go(d, s, "settle"),
             SetRow(d, s, WithStatus(RowAt(d, s), "filled", ""))
      PROVE  KeepsOrders(d, s)
  <2>1. WithStatus(RowAt(d, s), "filled", "") \in Row
    BY <1>2, StatusTyped DEF RowStates, Codes
  <2>2. task[d][s].ex
    BY <1>2, <1>5 DEF InStep
  <2>3. PICK x \in Task : /\ task' = [task EXCEPT ![d][s] = x]
                          /\ x.pc = "settle" /\ x.own = task[d][s].own
                          /\ x.ex = task[d][s].ex /\ x.resp = task[d][s].resp
    <3>1. "settle" \in TaskPcs
      BY DEF TaskPcs
    <3>2. Go(d, s, "settle")
      BY <1>5
    <3> QED BY <3>1, <3>2, GoForm
  <2>4. InStep(x)
    <3>1. x.ex
      BY <2>2, <2>3, Zenon
    <3> QED BY <2>3, <3>1 DEF InStep
  <2>5. ~Active(x) /\ ~Holds(d, s)
    BY <2>2, <2>3 DEF Active, Holds
  <2>6. OrdersAccounted'
    BY <1>1, <1>5, <2>1, <2>3, <2>5, WriteOrders
  <2> QED BY <1>1, <2>3, <2>4, <2>6 DEF KeepsOrders
<1>6. ASSUME Go(d, s, "catch"), row' = row, reopened' = reopened PROVE KeepsOrders(d, s)
  BY <1>1, <1>6, GoOrders
<1> QED BY <1>3, <1>4, <1>5, <1>6 DEF Record

LEMMA CatchOrders ==
  ASSUME TypeOK, TasksInStep, OrdersAccounted, TypeOK', NEW d \in Slots, NEW s \in Subs,
         Catch(d, s)
  PROVE  KeepsOrders(d, s)
<1>1. disp' = disp /\ execs' = execs
  BY DEF Catch
<1>2. RowAt(d, s) \in Row /\ task[d][s].rc + 1 \in Nat
  BY KeyTyped
<1>3. ASSUME Absorb(d, s), Stop(d, s, "done") PROVE KeepsOrders(d, s)
  BY <1>1, <1>3, AbsorbOrders
<1>4. ASSUME Stop(d, s, "threw"), row' = row, reopened' = reopened PROVE KeepsOrders(d, s)
  BY <1>1, <1>4, StopOrders
<1>5. ASSUME NEW pc \in {"done", "threw"}, Stop(d, s, pc),
             SetRow(d, s, WithFailure(RowAt(d, s), "transient", task[d][s].rc + 1))
      PROVE  KeepsOrders(d, s)
  <2>1. WithFailure(RowAt(d, s), "transient", task[d][s].rc + 1) \in Row
    BY <1>2, FailureTyped DEF Codes, Retryable
  <2> QED BY <1>1, <1>5, <2>1, StopOrders
<1>6. ASSUME NEW pc \in {"done", "threw"}, Stop(d, s, pc),
             SetRow(d, s, [WithStatus(RowAt(d, s), "dead", "") EXCEPT !.rc = task[d][s].rc + 1])
      PROVE  KeepsOrders(d, s)
  <2>1. [WithStatus(RowAt(d, s), "dead", "") EXCEPT !.rc = task[d][s].rc + 1] \in Row
    BY <1>2, StatusTyped DEF RowStates, Codes
  <2> QED BY <1>1, <1>6, <2>1, StopOrders
<1> QED BY <1>3, <1>4, <1>5, <1>6 DEF Catch

LEMMA TaskOrders ==
  ASSUME TypeOK, TasksInStep, OrdersAccounted, TypeOK', NEW d \in Slots, NEW s \in Subs,
         TaskStep(d, s)
  PROVE  KeepsOrders(d, s)
<1>1. CASE LiveCheck(d, s)
  <2>1. disp' = disp /\ execs' = execs /\ task[d][s].pc = "live"
    BY <1>1 DEF LiveCheck
  <2>2. WithStatus(RowAt(d, s), "skipped", "") \in Row
    BY KeyTyped, StatusTyped DEF RowStates, Codes
  <2> QED BY <1>1, <2>1, <2>2, GoOrders, UpdateOrders DEF LiveCheck
<1>2. CASE Throw(d, s)
  BY <1>2, GoOrders DEF Throw
<1>3. CASE TakeUserLock(d, s)
  BY <1>3, GoOrders DEF TakeUserLock
<1>4. CASE Return(d, s)
  BY <1>4, GoOrders DEF Return
<1>5. CASE Settle(d, s)
  BY <1>5, GoOrders, StopOrders DEF Settle
<1>6. CASE CatchThrows(d, s)
  BY <1>6, StopOrders DEF CatchThrows
<1> QED
  BY <1>1, <1>2, <1>3, <1>4, <1>5, <1>6, ClaimOrders, PrepareOrders, PostOrders,
     RecordOrders, CatchOrders DEF TaskStep

\* Everywhere but in the step of a task: no task becomes a holder, ...
QuietTasks ==
  /\ \A e \in Slots : \/ disp'[e].t = disp[e].t /\ task'[e] = task[e]
                      \/ \A v \in Subs : ~Active(task'[e][v])
  /\ TasksInStep' /\ SlotsIdle'

\* ... and what becomes orderable is counted.
QuietRows ==
  /\ execs' = execs
  /\ \A k \in Keys : reopened[k] - Bit(Orderable(row[k]))
                       <= reopened'[k] - Bit(Orderable(row'[k]))
  /\ FailedRetryable'

LEMMA QuietOrders ==
  ASSUME OrdersInv, TypeOK', QuietTasks, QuietRows PROVE OrdersInv'
<1>1. reopened' \in [Keys -> Nat]
  BY DEF TypeOK
<1>2. OrdersAccounted'
  BY <1>1, FrameOrders DEF OrdersInv, QuietTasks, QuietRows
<1> QED BY <1>2 DEF OrdersInv, QuietTasks, QuietRows

LEMMA NoTaskQuiet == InStep(NoTask) /\ ~Active(NoTask)
BY DEF NoTask, InStep, Active

LEMMA SameTasks ==
  ASSUME OrdersInv, task' = task, disp' = disp PROVE QuietTasks
<1>1. TasksInStep' /\ SlotsIdle'
  BY DEF OrdersInv, TasksInStep, SlotsIdle
<1> QED BY <1>1 DEF QuietTasks

\* A slot without tasks may go to any other trade.
LEMMA IdleSlot ==
  ASSUME OrdersInv, NEW d \in Slots, disp[d].pc \notin {"run", "orphan"}, task' = task,
         NEW y, disp' = [disp EXCEPT ![d] = y]
  PROVE  QuietTasks
<1>1. task[d] = [s \in Subs |-> NoTask]
  BY DEF OrdersInv, SlotsIdle
<1>2. \A e \in Slots \ {d} : disp'[e] = disp[e]
  BY DEF OrdersInv, TypeOK
<1>3. TasksInStep'
  BY DEF OrdersInv, TasksInStep
<1>4. SlotsIdle'
  BY <1>1, <1>2 DEF OrdersInv, SlotsIdle
<1>5. \A v \in Subs : ~Active(task'[d][v])
  BY <1>1, NoTaskQuiet
<1> QED BY <1>2, <1>3, <1>4, <1>5 DEF QuietTasks

LEMMA SameRows ==
  ASSUME OrdersInv, row' = row, reopened' = reopened, execs' = execs PROVE QuietRows
<1>1. \A k \in Keys : reopened[k] \in Nat /\ Bit(Orderable(row[k])) \in {0, 1}
  BY DEF OrdersInv, TypeOK, Bit
<1>2. FailedRetryable'
  BY DEF OrdersInv, FailedRetryable
<1> QED BY <1>1, <1>2 DEF QuietRows

\* Rows change; the history counts it, or what changes was orderable.
LEMMA ChangedRows ==
  ASSUME OrdersInv, execs' = execs, FailedRetryable',
         \/ Recount({})
         \/ /\ reopened' = reopened
            /\ \A k \in Keys : Orderable(row'[k]) => Orderable(row[k])
  PROVE  QuietRows
<1> SUFFICES ASSUME NEW k \in Keys
             PROVE  reopened[k] - Bit(Orderable(row[k]))
                      <= reopened'[k] - Bit(Orderable(row'[k]))
  BY DEF QuietRows
<1>1. reopened[k] \in Nat
  BY DEF OrdersInv, TypeOK
<1>2. \/ /\ ~Orderable(row[k]) /\ Orderable(row'[k]) /\ reopened'[k] = reopened[k] + 1
      \/ /\ Orderable(row'[k]) => Orderable(row[k])
         /\ reopened'[k] = reopened[k]
  BY DEF Recount
<1> QED BY <1>1, <1>2 DEF Bit

LEMMA DispatchOrders ==
  ASSUME OrdersInv, TypeOK', NEW d \in Slots, DispatchStep(d)
  PROVE  QuietTasks /\ QuietRows
<1>0. TypeOK /\ FailedRetryable /\ SlotsIdle /\ TasksInStep
      /\ disp \in [Slots -> Disp] /\ task \in [Slots -> [Subs -> Task]]
  BY DEF OrdersInv, TypeOK
<1>1. CASE SweepRequeue(d)
  <2>1. disp[d].pc = "sweep" /\ task' = task /\ execs' = execs /\ reopened' = reopened
    BY <1>1 DEF SweepRequeue
  <2>2. \E y : disp' = [disp EXCEPT ![d] = y]
    BY <1>1 DEF SweepRequeue
  <2>3. ASSUME NEW k \in Keys
        PROVE  \/ row'[k] = row[k]
               \/ Sweepable(row[k]) /\ row'[k].st = "queued"
    BY <1>0, <1>1, RowTyped DEF SweepRequeue, Requeued, FailedRetryable, Sweepable, Row
  <2>4. FailedRetryable'
    BY <1>0, <2>3 DEF FailedRetryable
  <2>5. \A k \in Keys : Orderable(row'[k]) => Orderable(row[k])
    BY <2>3 DEF Orderable
  <2> QED BY <2>1, <2>2, <2>4, <2>5, IdleSlot, ChangedRows
<1>2. CASE Begin(d)
  <2>1. disp[d].pc = "wait" /\ task' = task /\ execs' = execs /\ Recount({})
    BY <1>2 DEF Begin
  <2>2. \E y : disp' = [disp EXCEPT ![d] = y]
    BY <1>2 DEF Begin
  <2>3. ASSUME NEW k \in Keys
        PROVE  row'[k] = row[k] \/ row'[k].code = "stale_submitting"
    BY <1>2, RowTyped, <1>0 DEF Begin, StaleReset, Row
  <2>4. FailedRetryable'
    BY <1>0, <2>3 DEF FailedRetryable, Retryable
  <2> QED BY <2>1, <2>2, <2>4, IdleSlot, ChangedRows
<1>3. CASE Resolve(d)
  <2>1. /\ disp[d].pc = "resolve" /\ task' = task /\ execs' = execs
        /\ row' = row /\ reopened' = reopened
    BY <1>3 DEF Resolve
  <2>2. \E y : disp' = [disp EXCEPT ![d] = y]
    BY <1>3 DEF Resolve
  <2> QED BY <2>1, <2>2, IdleSlot, SameRows
<1>4. CASE FanOut(d)
  <2>1. disp[d].pc = "fanout" /\ task' = task /\ execs' = execs /\ reopened' = reopened
    BY <1>4 DEF FanOut
  <2>2. \E y : disp' = [disp EXCEPT ![d] = y]
    BY <1>4 DEF FanOut
  <2>3. ASSUME NEW k \in Keys
        PROVE  \/ row'[k] = row[k]
               \/ row[k].st = "none" /\ row'[k].st \in {"queued", "skipped"}
    <3>1. ASSUME NEW S, NEW st \in {"queued", "skipped"}, NEW code,
                 CreateRows(disp[d].t, S, st, code)
          PROVE  \/ row'[k] = row[k]
                 \/ row[k].st = "none" /\ row'[k].st = st
      BY <3>1 DEF CreateRows, NoRow
    <3> QED BY <1>4, <3>1 DEF FanOut
  <2>4. FailedRetryable'
    BY <1>0, <2>3 DEF FailedRetryable
  <2>5. \A k \in Keys : Orderable(row'[k]) => Orderable(row[k])
    BY <2>3 DEF Orderable
  <2> QED BY <2>1, <2>2, <2>4, <2>5, IdleSlot, ChangedRows
<1>5. CASE MarkProcessed(d)
  <2>1. /\ disp[d].pc = "close" /\ task' = task /\ execs' = execs
        /\ row' = row /\ reopened' = reopened
    BY <1>5 DEF MarkProcessed
  <2>2. \E y : disp' = [disp EXCEPT ![d] = y]
    BY <1>5 DEF MarkProcessed
  <2> QED BY <2>1, <2>2, IdleSlot, SameRows
<1>6. CASE ReadRows(d) \/ Finish(d) \/ OrphanEnds(d)
  <2>1. /\ \A e \in Slots \ {d} : task'[e] = task[e] /\ disp'[e] = disp[e]
        /\ row' = row /\ reopened' = reopened /\ execs' = execs
    BY <1>0, <1>6 DEF ReadRows, Finish, OrphanEnds
  <2>2. CASE ReadRows(d)
    <3>1. disp'[d].pc = "run"
      BY <1>0, <2>2 DEF ReadRows, Disp
    <3>2. \A v \in Subs : /\ ~task'[d][v].own /\ ~task'[d][v].ex
                          /\ task'[d][v].resp = "none" /\ task'[d][v].pc \in {"idle", "delay"}
      BY <1>0, <2>2 DEF ReadRows, NoTask
    <3>3. \A v \in Subs : InStep(task'[d][v]) /\ ~Active(task'[d][v])
      BY <3>2 DEF InStep, Active
    <3>4. TasksInStep' /\ SlotsIdle'
      BY <1>0, <2>1, <3>1, <3>3 DEF TasksInStep, SlotsIdle
    <3> QED BY <2>1, <3>3, <3>4, SameRows DEF QuietTasks
  <2>3. CASE Finish(d) \/ OrphanEnds(d)
    <3>1. task'[d] = [s \in Subs |-> NoTask]
      BY <1>0, <2>3 DEF Finish, OrphanEnds
    <3>2. \A v \in Subs : InStep(task'[d][v]) /\ ~Active(task'[d][v])
      BY <3>1, NoTaskQuiet
    <3>3. TasksInStep' /\ SlotsIdle'
      BY <1>0, <2>1, <3>1, <3>2 DEF TasksInStep, SlotsIdle
    <3> QED BY <2>1, <3>2, <3>3, SameRows DEF QuietTasks
  <2> QED BY <1>6, <2>2, <2>3
<1>7. CASE Abort(d)
  <2>1. /\ task' = task /\ row' = row /\ reopened' = reopened /\ execs' = execs
        /\ disp[d].pc = "run" /\ disp'[d].pc = "orphan"
        /\ \A e \in Slots : disp'[e].t = disp[e].t
        /\ \A e \in Slots \ {d} : disp'[e] = disp[e]
    BY <1>0, <1>7 DEF Abort, Disp
  <2>2. TasksInStep' /\ SlotsIdle'
    BY <1>0, <2>1 DEF TasksInStep, SlotsIdle
  <2> QED BY <2>1, <2>2, SameRows DEF QuietTasks
<1> QED BY <1>1, <1>2, <1>3, <1>4, <1>5, <1>6, <1>7 DEF DispatchStep

LEMMA TaskStepOrders ==
  ASSUME OrdersInv, TypeOK', NEW d \in Slots, NEW s \in Subs, TaskStep(d, s)
  PROVE  OrdersInv'
<1>0. /\ TypeOK /\ FailedRetryable /\ SlotsIdle /\ TasksInStep /\ OrdersAccounted
      /\ task \in [Slots -> [Subs -> Task]] /\ row \in [Keys -> Row]
  BY DEF OrdersInv, TypeOK
<1>1. KeepsOrders(d, s)
  BY <1>0, TaskOrders
<1>2. PICK x \in Task : task' = [task EXCEPT ![d][s] = x] /\ disp' = disp /\ InStep(x)
  BY <1>1 DEF KeepsOrders
<1>3. \A e \in Slots, v \in Subs : task'[e][v] = IF e = d /\ v = s THEN x ELSE task[e][v]
  BY <1>0, <1>2
<1>4. TasksInStep'
  BY <1>0, <1>2, <1>3 DEF TasksInStep
<1>5. PICK r \in Row, y \in Task : RowEffect(d, s, r) /\ TaskEffect(d, s, y)
  BY <1>0, TaskStepEffect
<1>6. SlotsIdle'
  <2>1. task[d][s].pc # "idle"
    BY <1>5 DEF TaskEffect
  <2>2. disp[d].pc \in {"run", "orphan"}
    BY <1>0, <2>1 DEF SlotsIdle, NoTask
  <2>3. \A e \in Slots \ {d} : task'[e] = task[e]
    BY <1>0, <1>2
  <2> QED BY <1>0, <1>2, <2>2, <2>3 DEF SlotsIdle
<1>7. FailedRetryable'
  <2>1. r.st = "failed" => r.code \in Retryable
    BY <1>0, <1>5, KeyTyped DEF RowEffect, FailedRetryable, RowAt
  <2>2. \A k \in Keys : row'[k] = row[k] \/ row'[k] = r
    BY <1>0, <1>5 DEF RowEffect
  <2> QED BY <1>0, <2>1, <2>2 DEF FailedRetryable
<1> QED BY <1>1, <1>4, <1>6, <1>7 DEF OrdersInv, KeepsOrders

LEMMA WorldOrders ==
  ASSUME OrdersInv, TypeOK',
         \/ \E t \in Trades : Signal(t) \/ Lose(t) \/ Archive(t) \/ Outlives(t)
         \/ \E t \in Trades, d \in WorkerSlots : Deliver(t, d) \/ Replay(t, d) \/ SweepRead(t, d)
         \/ \E k \in Keys : Age(k) \/ RepairWrite(k)
         \/ \E u \in Users : PageResetsStale(u) \/ RepairRead(u)
         \/ \E d \in Slots : DispatchThrows(d)
         \/ \E p \in {"api", "worker"} : Crash(p)
         \/ Change \/ UNCHANGED vars
  PROVE  QuietTasks /\ QuietRows
<1>0. /\ TypeOK /\ FailedRetryable /\ SlotsIdle /\ TasksInStep
      /\ disp \in [Slots -> Disp] /\ task \in [Slots -> [Subs -> Task]]
  BY DEF OrdersInv, TypeOK
<1>1. ASSUME NEW d \in Slots, NEW t \in Trades, Enter(d, t), task' = task PROVE QuietTasks
  BY <1>1, IdleSlot DEF Enter
<1>2. ASSUME NEW t \in Trades, Signal(t) PROVE QuietTasks /\ QuietRows
  BY <1>1, <1>2, SameTasks, SameRows, NullsTyped DEF Signal, Announce
<1>3. ASSUME NEW t \in Trades, Lose(t) \/ Archive(t) \/ Outlives(t) PROVE QuietTasks /\ QuietRows
  BY <1>3, SameTasks, SameRows DEF Lose, Archive, Outlives
<1>4. ASSUME NEW t \in Trades, NEW d \in WorkerSlots, Deliver(t, d) \/ Replay(t, d)
      PROVE  QuietTasks /\ QuietRows
  BY <1>1, <1>4, SameRows, NullsTyped DEF Deliver, Replay
<1>5. ASSUME NEW t \in Trades, NEW d \in WorkerSlots, SweepRead(t, d)
      PROVE  QuietTasks /\ QuietRows
  <2>1. \E y : disp' = [disp EXCEPT ![d] = y]
    BY <1>5 DEF SweepRead
  <2>2. disp[d].pc = "idle" /\ task' = task /\ row' = row /\ reopened' = reopened
        /\ execs' = execs /\ d \in Slots
    BY <1>5, NullsTyped DEF SweepRead
  <2> QED BY <2>1, <2>2, IdleSlot, SameRows
<1>6. ASSUME NEW k \in Keys, Age(k) PROVE QuietTasks /\ QuietRows
  <2>1. \A j \in Keys : /\ row'[j].st = row[j].st /\ row'[j].code = row[j].code
                        /\ row'[j].rc = row[j].rc
    BY <1>0, <1>6, RowTyped DEF Age, TypeOK, Row
  <2>2. FailedRetryable' /\ \A j \in Keys : Orderable(row'[j]) => Orderable(row[j])
    BY <1>0, <2>1 DEF FailedRetryable, Orderable, Sweepable
  <2> QED BY <1>6, <2>2, SameTasks, ChangedRows DEF Age
<1>7. ASSUME NEW u \in Users, PageResetsStale(u) PROVE QuietTasks /\ QuietRows
  <2>1. \A k \in Keys : row'[k] = row[k] \/ row'[k].code = "stale_submitting"
    BY <1>0, <1>7, RowTyped DEF PageResetsStale, WithStatus, Row
  <2>2. FailedRetryable'
    <3> SUFFICES ASSUME NEW k \in Keys, row'[k].st = "failed"
                 PROVE  row'[k].code \in Retryable
      BY DEF FailedRetryable
    <3>1. CASE row'[k] = row[k]
      BY <1>0, <3>1 DEF FailedRetryable
    <3>2. CASE row'[k].code = "stale_submitting"
      BY <3>2 DEF Retryable
    <3> QED BY <2>1, <3>1, <3>2
  <2> QED BY SMTT(30), <1>7, <2>2, SameTasks, ChangedRows DEF PageResetsStale
<1>8. ASSUME NEW p \in {"api", "worker"}, Crash(p) PROVE QuietTasks /\ QuietRows
  <2>1. \A e \in Slots : \/ disp'[e] = disp[e] /\ task'[e] = task[e]
                         \/ task'[e] = [s \in Subs |-> NoTask]
    BY <1>8 DEF Crash
  <2>2. TasksInStep'
    BY <1>0, <2>1, NoTaskQuiet DEF TasksInStep
  <2>3. SlotsIdle'
    BY <1>0, <2>1 DEF SlotsIdle
  <2>4. \A e \in Slots : \/ disp'[e].t = disp[e].t /\ task'[e] = task[e]
                         \/ \A v \in Subs : ~Active(task'[e][v])
    BY <2>1, NoTaskQuiet
  <2> QED BY <1>8, <2>2, <2>3, <2>4, SameRows DEF Crash, QuietTasks
<1>9. ASSUME Change \/ UNCHANGED vars PROVE QuietTasks /\ QuietRows
  BY <1>9, SameTasks, SameRows DEF Change, vars
<1>10. ASSUME NEW d \in Slots, DispatchThrows(d) PROVE QuietTasks /\ QuietRows
  BY <1>10, IdleSlot, SameRows DEF DispatchThrows
<1>11. ASSUME NEW k \in Keys, RepairWrite(k) PROVE QuietTasks /\ QuietRows
  <2>1. \A j \in Keys : row'[j] = row[j] \/ row'[j].st = "filled"
    BY <1>0, <1>11, RepairEffect
  <2>2. FailedRetryable' /\ \A j \in Keys : Orderable(row'[j]) => Orderable(row[j])
    BY <1>0, <2>1 DEF FailedRetryable, Orderable, Sweepable
  <2> QED BY <1>11, <2>2, SameTasks, ChangedRows DEF RepairWrite
<1>12. ASSUME NEW u \in Users, RepairRead(u) PROVE QuietTasks /\ QuietRows
  BY <1>12, SameTasks, SameRows DEF RepairRead
<1> QED
  BY <1>2, <1>3, <1>4, <1>5, <1>6, <1>7, <1>8, <1>9, <1>10, <1>11, <1>12

LEMMA OrdersInit == Init => OrdersInv
<1> SUFFICES ASSUME Init PROVE OrdersInv
  OBVIOUS
<1>1. \A d \in Slots : task[d] = [s \in Subs |-> NoTask]
  BY DEF Init
<1>2. TasksInStep /\ SlotsIdle
  BY <1>1, NoTaskQuiet DEF TasksInStep, SlotsIdle
<1>3. FailedRetryable
  BY DEF Init, FailedRetryable, NoRow
<1>4. ASSUME NEW k \in Keys
      PROVE  execs[k] + Cardinality(Holders(k)) + (IF Orderable(row[k]) THEN 1 ELSE 0)
               <= 1 + reopened[k]
  <2>1. k[2] \in Subs /\ ~NoTask.own
    BY DEF Keys, NoTask
  <2>2. Holders(k) = {}
    BY <1>1, <2>1 DEF Holders, Holds
  <2>3. Cardinality(Holders(k)) = 0
    BY <2>2, FS_EmptySet
  <2>4. execs[k] = 0 /\ reopened[k] = 0
    BY DEF Init
  <2> QED BY <2>3, <2>4
<1> QED BY <1>2, <1>3, <1>4, TypeInit DEF OrdersInv, OrdersAccounted

LEMMA OrdersNext == OrdersInv /\ [Next]_vars => OrdersInv'
<1> SUFFICES ASSUME OrdersInv, [Next]_vars PROVE OrdersInv'
  OBVIOUS
<1>1. TypeOK'
  BY TypeNext DEF OrdersInv
<1>2. ASSUME NEW d \in Slots, NEW s \in Subs, TaskStep(d, s) PROVE OrdersInv'
  BY <1>1, <1>2, TaskStepOrders
<1>3. ASSUME NEW d \in Slots, DispatchStep(d) PROVE OrdersInv'
  BY <1>1, <1>3, DispatchOrders, QuietOrders
<1> QED BY <1>1, <1>2, <1>3, WorldOrders, QuietOrders DEF Next

\* Copying is exactly-once up to what reopened counts.
THEOREM OrdersCorrect == Spec => []OrdersAccounted
<1>1. OrdersInv => OrdersAccounted
  BY DEF OrdersInv
<1> QED BY <1>1, OrdersInit, OrdersNext, PTL DEF Spec

-----------------------------------------------------------------------------
(* Rows skipped for funding *)

Blocked(r) == r.code = "buy_funding"

\* No task knows a row that was skipped for funding: such a row is new, and
\* a task reads queued rows only.
FundingInv ==
  /\ \A k \in Keys : Blocked(row[k]) => row[k].st = "skipped" /\ row[k].id > 0
  /\ \A d \in Slots, s \in Subs :
       /\ task[d][s].id <= RowAt(d, s).id
       /\ task[d][s].id = RowAt(d, s).id => ~Blocked(RowAt(d, s))

LEMMA FundingInit == Init => FundingInv
<1> SUFFICES ASSUME Init PROVE FundingInv
  OBVIOUS
<1>1. \A k \in Keys : row[k] = NoRow
  BY DEF Init
<1>2. \A d \in Slots, s \in Subs : task[d][s].id = 0 /\ RowAt(d, s) = NoRow
  <2>1. \A d \in Slots, s \in Subs : Key(d, s) \in Keys
    BY TypeInit, KeyTyped
  <2> QED BY <1>1, <2>1 DEF Init, RowAt, NoTask
<1>3. ~Blocked(NoRow) /\ NoRow.id = 0
  BY DEF NoRow, Blocked
<1> QED BY <1>1, <1>2, <1>3 DEF FundingInv

LEMMA TaskFunding ==
  ASSUME OrdersInv, FundingInv, NEW d \in Slots, NEW s \in Subs, TaskStep(d, s)
  PROVE  FundingInv'
<1>0. TypeOK
  BY DEF OrdersInv
<1>1. PICK r \in Row, x \in Task : RowEffect(d, s, r) /\ TaskEffect(d, s, x)
  BY <1>0, TaskStepEffect
<1>2. /\ \A e \in Slots, v \in Subs : task'[e][v] = IF e = d /\ v = s THEN x ELSE task[e][v]
      /\ disp' = disp /\ x.id \in {0, task[d][s].id}
  BY <1>0, <1>1 DEF TaskEffect, TypeOK
<1>3. ASSUME NEW k \in Keys
      PROVE  /\ row'[k].id = row[k].id /\ row'[k].id \in Nat
             /\ Blocked(row'[k]) => row'[k] = row[k]
  <2>1. CASE row'[k] = row[k]
    BY <1>0, <2>1, RowTyped DEF Row
  <2>2. CASE row'[k] # row[k]
    <3>1. k = Key(d, s) /\ row'[k] = r /\ r # RowAt(d, s)
      BY <1>0, <1>1, <2>2, KeyTyped DEF RowEffect, TypeOK, RowAt
    <3>2. task[d][s].id = RowAt(d, s).id /\ r.id = RowAt(d, s).id
      BY <1>1, <3>1 DEF RowEffect, Found, Alive, RowAt
    <3>3. ~Blocked(RowAt(d, s)) /\ ~Blocked(r)
      BY <1>1, <3>1, <3>2 DEF FundingInv, RowEffect, Blocked
    <3> QED BY <3>1, <3>2, <3>3 DEF RowAt, Row
  <2> QED BY <2>1, <2>2
<1>4. ASSUME NEW e \in Slots, NEW v \in Subs
      PROVE  /\ task'[e][v].id <= RowAt(e, v)'.id
             /\ task'[e][v].id = RowAt(e, v)'.id => ~Blocked(RowAt(e, v)')
  <2>1. Key(e, v) \in Keys /\ Key(e, v)' = Key(e, v)
    BY <1>0, <1>2, KeyTyped DEF Key
  <2>2. /\ RowAt(e, v)'.id = RowAt(e, v).id /\ RowAt(e, v)'.id \in Nat
        /\ Blocked(RowAt(e, v)') => RowAt(e, v)' = RowAt(e, v)
    BY <1>3, <2>1 DEF RowAt
  <2>3. task'[e][v].id \in {0, task[e][v].id}
    BY <1>2
  <2>4. Blocked(RowAt(e, v)) => RowAt(e, v).id > 0
    BY <2>1 DEF FundingInv, RowAt
  <2> QED BY <2>2, <2>3, <2>4 DEF FundingInv
<1>5. \A k \in Keys : Blocked(row'[k]) => row'[k].st = "skipped" /\ row'[k].id > 0
  BY <1>3 DEF FundingInv
<1> QED BY <1>4, <1>5 DEF FundingInv

\* The row is still skipped for funding.
Still(k) == Blocked(row[k]) /\ row'[k].st = row[k].st

\* A dispatch of the trade found blocked subscriptions.
FoundBlocked(k) == \E d \in Slots : disp[d].t = k[1] /\ disp[d].blocked # {}

\* What the other steps do to the ids of rows and tasks.
FundingQuiet ==
  /\ \A k \in Keys :
       \/ row'[k].id = row[k].id /\ (Blocked(row'[k]) => Still(k))
       \/ /\ row'[k].id = row[k].id + 1
          /\ Blocked(row'[k]) => row'[k].st = "skipped" /\ FoundBlocked(k)
  /\ \A e \in Slots :
       \/ disp'[e].t = disp[e].t /\ task'[e] = task[e]
       \/ task'[e] = [v \in Subs |-> NoTask]
       \/ ReadRows(e)

LEMMA QuietFunding ==
  ASSUME OrdersInv, TypeOK', FundingInv, FundingQuiet PROVE FundingInv'
<1>0. TypeOK
  BY DEF OrdersInv
<1>1. \A k \in Keys : row[k].id \in Nat /\ row'[k].id \in Nat
  BY <1>0 DEF TypeOK, Row
<1>2. \A k \in Keys : Blocked(row'[k]) => row'[k].st = "skipped" /\ row'[k].id > 0
  BY <1>1 DEF FundingInv, FundingQuiet, Still
<1>3. ASSUME NEW e \in Slots, NEW v \in Subs
      PROVE  /\ task'[e][v].id <= RowAt(e, v)'.id
             /\ task'[e][v].id = RowAt(e, v)'.id => ~Blocked(RowAt(e, v)')
  <2>1. Key(e, v) \in Keys /\ Key(e, v)' \in Keys /\ task[e][v].id \in Nat
    BY <1>0, KeyTyped DEF Key, Keys, TypeOK, Disp, Task
  <2>2. CASE disp'[e].t = disp[e].t /\ task'[e] = task[e]
    <3>1. Key(e, v)' = Key(e, v)
      BY <2>2 DEF Key
    <3> DEFINE k == Key(e, v)
    <3>2. /\ task'[e][v].id = task[e][v].id
          /\ task[e][v].id <= row[k].id /\ (task[e][v].id = row[k].id => ~Blocked(row[k]))
      BY <2>2 DEF FundingInv, RowAt
    <3>3. \/ row'[k].id = row[k].id /\ (Blocked(row'[k]) => Still(k))
          \/ row'[k].id = row[k].id + 1
      BY <2>1 DEF FundingQuiet
    <3>4. row[k].id \in Nat /\ row'[k].id \in Nat
      BY <1>1, <2>1
    <3>5. task'[e][v].id <= row'[k].id /\ (task'[e][v].id = row'[k].id => ~Blocked(row'[k]))
      <4> HIDE DEF k
      <4> QED BY <2>1, <3>2, <3>3, <3>4 DEF Still
    <3> QED BY <3>1, <3>5 DEF RowAt
  <2>3. CASE task'[e] = [u \in Subs |-> NoTask]
    <3>1. task'[e][v].id = 0
      BY <2>3 DEF NoTask
    <3>2. row'[Key(e, v)'].id \in Nat
          /\ (Blocked(row'[Key(e, v)']) => row'[Key(e, v)'].id > 0)
      BY <1>1, <1>2, <2>1
    <3> QED BY <3>1, <3>2 DEF RowAt
  <2>4. CASE ReadRows(e)
    <3>1. Key(e, v)' = Key(e, v) /\ row' = row
      <4>1. disp'[e].t = disp[e].t /\ row' = row
        <5>1. disp \in [Slots -> Disp] /\ disp[e] \in Disp
          BY <1>0 DEF TypeOK
        <5> QED BY <2>4, <5>1 DEF ReadRows, Disp
      <4> QED BY <4>1 DEF Key
    <3> DEFINE k == Key(e, v)
    <3>2. \/ task'[e][v].id = 0
          \/ task'[e][v].id = row[k].id /\ row[k].st = "queued"
      BY <1>0, <2>4 DEF ReadRows, Key, NoTask, TypeOK
    <3>3. row[k].id \in Nat /\ (Blocked(row[k]) => row[k].st = "skipped" /\ row[k].id > 0)
      BY <1>1, <2>1 DEF FundingInv
    <3>4. task'[e][v].id <= row[k].id /\ (task'[e][v].id = row[k].id => ~Blocked(row[k]))
      <4> HIDE DEF k
      <4> QED BY <3>2, <3>3
    <3> QED BY <3>1, <3>4 DEF RowAt
  <2> QED BY <2>2, <2>3, <2>4 DEF FundingQuiet
<1> QED BY <1>2, <1>3 DEF FundingInv

LEMMA IdleSlotFunding ==
  ASSUME OrdersInv, NEW d \in Slots, disp[d].pc \notin {"run", "orphan"}, task' = task,
         NEW y, disp' = [disp EXCEPT ![d] = y]
  PROVE  \A e \in Slots : \/ disp'[e].t = disp[e].t /\ task'[e] = task[e]
                          \/ task'[e] = [v \in Subs |-> NoTask]
<1>1. task'[d] = [v \in Subs |-> NoTask]
  BY DEF OrdersInv, SlotsIdle
<1>2. \A e \in Slots \ {d} : disp'[e] = disp[e]
  BY DEF OrdersInv, TypeOK
<1> QED BY <1>1, <1>2

LEMMA DispatchFunding ==
  ASSUME OrdersInv, NEW d \in Slots, DispatchStep(d) PROVE FundingQuiet
<1>0. TypeOK /\ \A k \in Keys : row[k].id \in Nat
  BY RowTyped DEF OrdersInv, Row
<1>1. ASSUME NEW k \in Keys
      PROVE  \/ row'[k].id = row[k].id /\ (Blocked(row'[k]) => Still(k))
             \/ /\ row'[k].id = row[k].id + 1
                /\ Blocked(row'[k]) => row'[k].st = "skipped" /\ FoundBlocked(k)
  <2>1. CASE SweepRequeue(d)
    <3>1. \/ row'[k] = row[k]
          \/ row'[k] = [row[k] EXCEPT !.st = "queued", !.code = "", !.aged = FALSE]
      BY <2>1 DEF SweepRequeue
    <3> QED BY <1>0, <3>1, RowTyped DEF Row, Blocked, Still
  <2>2. CASE Begin(d)
    <3>1. row'[k] = row[k] \/ row'[k] = StaleReset(row[k])
      BY <2>2 DEF Begin
    <3> QED BY <1>0, <3>1, RowTyped DEF StaleReset, Row, Blocked, Still
  <2>3. CASE FanOut(d)
    <3>1. ASSUME NEW S, CreateRows(disp[d].t, S, "queued", "")
          PROVE  row'[k] = row[k] \/ (row'[k].id = row[k].id + 1 /\ ~Blocked(row'[k]))
      BY <3>1 DEF CreateRows, NoRow, Blocked
    <3>2. ASSUME NEW S, CreateRows(disp[d].t, S, "skipped", "buy_funding")
          PROVE  \/ row'[k] = row[k]
                 \/ row'[k].id = row[k].id + 1 /\ row'[k].st = "skipped" /\ k[1] = disp[d].t
      BY <3>2 DEF CreateRows, NoRow
    <3>3. \/ row'[k] = row[k]
          \/ CreateRows(disp[d].t, disp[d].open, "queued", "")
          \/ /\ disp[d].blocked # {}
             /\ CreateRows(disp[d].t, disp[d].blocked, "skipped", "buy_funding")
      BY <2>3 DEF FanOut
    <3>4. CASE row'[k] = row[k]
      BY <3>4 DEF Still
    <3>5. CASE CreateRows(disp[d].t, disp[d].open, "queued", "")
      BY <3>1, <3>4, <3>5
    <3>6. CASE /\ disp[d].blocked # {}
               /\ CreateRows(disp[d].t, disp[d].blocked, "skipped", "buy_funding")
      <4>1. \/ row'[k] = row[k]
            \/ row'[k].id = row[k].id + 1 /\ row'[k].st = "skipped" /\ k[1] = disp[d].t
        BY <3>2, <3>6
      <4>2. k[1] = disp[d].t => FoundBlocked(k)
        BY SMTT(30), <3>6 DEF FoundBlocked
      <4> QED BY <3>4, <4>1, <4>2
    <3> QED BY <3>3, <3>4, <3>5, <3>6
  <2>4. CASE Resolve(d) \/ ReadRows(d) \/ Finish(d) \/ MarkProcessed(d) \/ Abort(d)
             \/ OrphanEnds(d)
    BY <2>4 DEF Resolve, ReadRows, Finish, MarkProcessed, Abort, OrphanEnds, Still
  <2> QED BY <2>1, <2>2, <2>3, <2>4 DEF DispatchStep
<1>2. \A e \in Slots : \/ disp'[e].t = disp[e].t /\ task'[e] = task[e]
                       \/ task'[e] = [v \in Subs |-> NoTask]
                       \/ ReadRows(e)
  <2>1. CASE SweepRequeue(d) \/ Begin(d) \/ Resolve(d) \/ FanOut(d) \/ MarkProcessed(d)
    <3>1. disp[d].pc \notin {"run", "orphan"} /\ task' = task
      BY <2>1 DEF SweepRequeue, Begin, Resolve, FanOut, MarkProcessed
    <3>2. \E y : disp' = [disp EXCEPT ![d] = y]
      BY <2>1 DEF SweepRequeue, Begin, Resolve, FanOut, MarkProcessed
    <3>3. PICK y : disp' = [disp EXCEPT ![d] = y]
      BY <3>2
    <3> QED BY <3>1, <3>3, IdleSlotFunding
  <2>2. CASE ReadRows(d)
    <3>1. \A e \in Slots \ {d} : disp'[e].t = disp[e].t /\ task'[e] = task[e]
      BY <1>0, <2>2 DEF ReadRows, TypeOK
    <3> QED BY <2>2, <3>1
  <2>3. CASE Finish(d) \/ OrphanEnds(d)
    BY <1>0, <2>3 DEF Finish, OrphanEnds, TypeOK
  <2>4. CASE Abort(d)
    BY <1>0, <2>4 DEF Abort, TypeOK, Disp
  <2> QED BY <2>1, <2>2, <2>3, <2>4 DEF DispatchStep
<1> QED BY <1>1, <1>2 DEF FundingQuiet

LEMMA WorldFunding ==
  ASSUME OrdersInv,
         \/ \E t \in Trades : Signal(t) \/ Lose(t) \/ Archive(t) \/ Outlives(t)
         \/ \E t \in Trades, d \in WorkerSlots : Deliver(t, d) \/ Replay(t, d) \/ SweepRead(t, d)
         \/ \E k \in Keys : Age(k) \/ RepairWrite(k)
         \/ \E u \in Users : PageResetsStale(u) \/ RepairRead(u)
         \/ \E d \in Slots : DispatchThrows(d)
         \/ \E p \in {"api", "worker"} : Crash(p)
         \/ Change \/ UNCHANGED vars
  PROVE  FundingQuiet
<1>0. TypeOK /\ \A k \in Keys : row[k].id \in Nat
  BY RowTyped DEF OrdersInv, Row
<1>1. ASSUME NEW k \in Keys
      PROVE  row'[k].id = row[k].id /\ (Blocked(row'[k]) => Still(k))
  <2>1. ASSUME NEW j \in Keys, Age(j)
        PROVE  row'[k].id = row[k].id /\ (Blocked(row'[k]) => Still(k))
    <3>1. row'[k] = row[k] \/ row'[k] = [row[k] EXCEPT !.aged = TRUE]
      BY <1>0, <2>1 DEF Age, TypeOK
    <3> QED BY <1>0, <3>1, RowTyped DEF Row, Blocked, Still
  <2>2. ASSUME NEW u \in Users, PageResetsStale(u)
        PROVE  row'[k].id = row[k].id /\ (Blocked(row'[k]) => Still(k))
    <3>1. row'[k] = row[k] \/ row'[k] = WithStatus(row[k], "failed", "stale_submitting")
      BY <2>2 DEF PageResetsStale
    <3> QED BY <1>0, <3>1, RowTyped DEF WithStatus, Row, Blocked, Still
  <2>3. (\E t \in Trades : Signal(t) \/ Lose(t) \/ Archive(t) \/ Outlives(t)) => row' = row
    BY DEF Signal, Lose, Archive, Outlives
  <2>4. (\E t \in Trades, d \in WorkerSlots : Deliver(t, d) \/ Replay(t, d) \/ SweepRead(t, d))
          => row' = row
    BY DEF Deliver, Replay, SweepRead
  <2>5. (\E d \in Slots : DispatchThrows(d)) \/ (\E p \in {"api", "worker"} : Crash(p))
          \/ (\E u \in Users : RepairRead(u)) \/ Change \/ UNCHANGED vars => row' = row
    BY DEF DispatchThrows, Crash, RepairRead, Change, vars
  <2>7. ASSUME NEW j \in Keys, RepairWrite(j)
        PROVE  row'[k].id = row[k].id /\ (Blocked(row'[k]) => Still(k))
    BY <1>0, <2>7, RepairEffect DEF Blocked, Still
  <2>6. row' = row => row'[k].id = row[k].id /\ (Blocked(row'[k]) => Still(k))
    BY DEF Still
  <2> QED BY <2>1, <2>2, <2>3, <2>4, <2>5, <2>6, <2>7
<1>2. ASSUME NEW d \in Slots, NEW t \in Trades, Enter(d, t), task' = task
      PROVE  \A e \in Slots : \/ disp'[e].t = disp[e].t /\ task'[e] = task[e]
                              \/ task'[e] = [v \in Subs |-> NoTask]
  BY <1>2, IdleSlotFunding DEF Enter
<1>3. ASSUME NEW t \in Trades, NEW d \in WorkerSlots, SweepRead(t, d)
      PROVE  \A e \in Slots : \/ disp'[e].t = disp[e].t /\ task'[e] = task[e]
                              \/ task'[e] = [v \in Subs |-> NoTask]
  <2>1. \E y : disp' = [disp EXCEPT ![d] = y]
    BY <1>3 DEF SweepRead
  <2>2. disp[d].pc = "idle" /\ task' = task /\ d \in Slots
    BY <1>3, NullsTyped DEF SweepRead
  <2> QED BY <2>1, <2>2, IdleSlotFunding
<1>4. ASSUME NEW d \in Slots, DispatchThrows(d)
      PROVE  \A e \in Slots : \/ disp'[e].t = disp[e].t /\ task'[e] = task[e]
                              \/ task'[e] = [v \in Subs |-> NoTask]
  BY <1>4, IdleSlotFunding DEF DispatchThrows
<1>5. ASSUME NEW p \in {"api", "worker"}, Crash(p)
      PROVE  \A e \in Slots : \/ disp'[e].t = disp[e].t /\ task'[e] = task[e]
                              \/ task'[e] = [v \in Subs |-> NoTask]
  BY <1>5 DEF Crash
<1>6. \/ disp' = disp /\ task' = task
      \/ \E t \in Trades, d \in Slots : Enter(d, t) /\ task' = task
      \/ \E t \in Trades, d \in WorkerSlots : SweepRead(t, d)
      \/ \E d \in Slots : DispatchThrows(d)
      \/ \E p \in {"api", "worker"} : Crash(p)
  <2>1. ASSUME NEW t \in Trades, Signal(t)
        PROVE  \/ disp' = disp /\ task' = task
               \/ \E d \in Slots : Enter(d, t) /\ task' = task
    BY <2>1, NullsTyped DEF Signal, Announce
  <2>2. (\E t \in Trades : Lose(t) \/ Archive(t) \/ Outlives(t)) => disp' = disp /\ task' = task
    BY DEF Lose, Archive, Outlives
  <2>3. ASSUME NEW t \in Trades, NEW d \in WorkerSlots, Deliver(t, d) \/ Replay(t, d)
        PROVE  d \in Slots /\ Enter(d, t) /\ task' = task
    BY <2>3, NullsTyped DEF Deliver, Replay
  <2>4. \/ \E k \in Keys : Age(k) \/ RepairWrite(k)
        \/ \E u \in Users : PageResetsStale(u) \/ RepairRead(u)
        \/ Change
        \/ UNCHANGED vars
        => disp' = disp /\ task' = task
    BY DEF Age, RepairWrite, PageResetsStale, RepairRead, Change, vars
  <2> QED BY <2>1, <2>2, <2>3, <2>4
<1>7. \A e \in Slots : \/ disp'[e].t = disp[e].t /\ task'[e] = task[e]
                       \/ task'[e] = [v \in Subs |-> NoTask]
  BY <1>2, <1>3, <1>4, <1>5, <1>6
<1> QED BY <1>1, <1>7 DEF FundingQuiet

LEMMA FundingNext ==
  ASSUME OrdersInv, FundingInv, [Next]_vars PROVE FundingInv'
<1>1. TypeOK'
  BY TypeNext DEF OrdersInv
<1>2. ASSUME NEW d \in Slots, NEW s \in Subs, TaskStep(d, s) PROVE FundingInv'
  BY <1>2, TaskFunding
<1>3. ASSUME NEW d \in Slots, DispatchStep(d) PROVE FundingInv'
  BY <1>1, <1>3, DispatchFunding, QuietFunding
<1> QED BY <1>1, <1>2, <1>3, WorldFunding, QuietFunding DEF Next

\* Only buys are skipped for funding, so no page repairs such a row.
BlockedBuys ==
  /\ \A k \in Keys : Blocked(row[k]) => Side[k[1]] = "BUY"
  /\ \A d \in Slots : disp[d].blocked # {} => Side[disp[d].t] = "BUY"

LEMMA BlockedBuysInit == Init => BlockedBuys
<1> SUFFICES ASSUME Init PROVE BlockedBuys
  OBVIOUS
<1>1. ~Blocked(NoRow) /\ NoDisp.blocked = {}
  BY DEF Blocked, NoRow, NoDisp
<1> QED BY <1>1 DEF Init, BlockedBuys

\* The rows a step skips for funding are those of a fan-out.
LEMMA BlockedRows ==
  ASSUME OrdersInv, [Next]_vars, NEW k \in Keys, Blocked(row'[k])
  PROVE  Blocked(row[k]) \/ FoundBlocked(k)
<1>0. TypeOK
  BY DEF OrdersInv
<1>1. ASSUME NEW d \in Slots, NEW s \in Subs, TaskStep(d, s) PROVE Blocked(row[k])
  <2>1. PICK r \in Row : RowEffect(d, s, r)
    BY <1>0, <1>1, TaskStepEffect
  <2>2. CASE row'[k] # row[k]
    <3>1. k = Key(d, s) /\ row'[k] = r /\ r # RowAt(d, s)
      BY <1>0, <2>1, <2>2, KeyTyped DEF RowEffect, TypeOK, RowAt
    <3> QED BY <2>1, <3>1 DEF RowEffect, Blocked, RowAt
  <2> QED BY <2>2
<1>2. FundingQuiet => Blocked(row[k]) \/ FoundBlocked(k)
  BY DEF FundingQuiet, Still
<1>3. ASSUME NEW d \in Slots, DispatchStep(d) PROVE FundingQuiet
  BY <1>3, DispatchFunding
<1> QED BY <1>1, <1>2, <1>3, WorldFunding DEF Next

\* The blocked subscriptions of a dispatch are found when it resolves them.
LEMMA BlockedSlots ==
  ASSUME OrdersInv, [Next]_vars, NEW e \in Slots, disp'[e].blocked # {}
  PROVE  \/ disp'[e].blocked = disp[e].blocked /\ disp'[e].t = disp[e].t
         \/ Side[disp'[e].t] = "BUY"
<1>0. TypeOK /\ disp \in [Slots -> Disp] /\ NoDisp.blocked = {}
  BY DEF OrdersInv, TypeOK, NoDisp
<1>1. ASSUME NEW d \in Slots, NEW s \in Subs, TaskStep(d, s) PROVE disp' = disp
  BY <1>0, <1>1, TaskStepEffect DEF TaskEffect
<1>2. ASSUME NEW d \in Slots, Resolve(d)
      PROVE  disp'[e] = disp[e] \/ (disp'[e].blocked # {} => Side[disp'[e].t] = "BUY")
  <2>1. CASE e = d
    <3>1. PICK warned, found, open :
            /\ warned = {s \in found : Side[disp[d].t] = "BUY" /\ sub[s].warn # "none"}
            /\ disp' = [disp EXCEPT ![d] =
                 [@ EXCEPT !.pc = "fanout", !.open = open, !.blocked = warned]]
      BY <1>2 DEF Resolve
    <3>2. disp'[e].blocked = warned /\ disp'[e].t = disp[d].t
      BY <1>0, <2>1, <3>1 DEF Disp
    <3>3. warned # {} => Side[disp[d].t] = "BUY"
      BY <3>1
    <3> QED BY <3>2, <3>3, Zenon
  <2>2. CASE e # d
    BY <1>0, <1>2, <2>2 DEF Resolve
  <2> QED BY <2>1, <2>2
<1>3. ASSUME NEW d \in Slots, DispatchStep(d), ~Resolve(d)
      PROVE  \/ disp'[e].blocked = {}
             \/ disp'[e].blocked = disp[e].blocked /\ disp'[e].t = disp[e].t
  <2>1. CASE SweepRequeue(d) \/ FanOut(d) \/ MarkProcessed(d) \/ OrphanEnds(d)
    <3>1. \A pc, t : [NoDisp EXCEPT !.pc = pc, !.t = t].blocked = {}
      BY DEF NoDisp
    <3>2. ASSUME NEW x, x.blocked = {}, disp' = [disp EXCEPT ![d] = x]
          PROVE  disp'[e].blocked = {} \/ disp'[e] = disp[e]
      BY <1>0, <3>2
    <3>3. CASE SweepRequeue(d)
      BY <1>0, <3>1, <3>2, <3>3 DEF SweepRequeue
    <3>4. CASE FanOut(d)
      BY <3>1, <3>2, <3>4 DEF FanOut
    <3>5. CASE MarkProcessed(d) \/ OrphanEnds(d)
      BY <1>0, <3>2, <3>5 DEF MarkProcessed, OrphanEnds
    <3> QED BY <2>1, <3>3, <3>4, <3>5
  <2>2. CASE Begin(d) \/ ReadRows(d) \/ Finish(d) \/ Abort(d)
    <3>1. \A pc : /\ [disp[d] EXCEPT !.pc = pc].blocked = disp[d].blocked
                  /\ [disp[d] EXCEPT !.pc = pc].t = disp[d].t
      BY <1>0 DEF Disp
    <3>2. \/ \E pc : disp' = [disp EXCEPT ![d] = [disp[d] EXCEPT !.pc = pc]]
          \/ disp' = [disp EXCEPT ![d] = NoDisp]
      BY <2>2 DEF Begin, ReadRows, Finish, Abort
    <3>3. CASE e # d
      BY <1>0, <3>2, <3>3
    <3>4. CASE e = d /\ disp' = [disp EXCEPT ![d] = NoDisp]
      BY <1>0, <3>4
    <3>5. ASSUME e = d, NEW pc, disp' = [disp EXCEPT ![d] = [disp[d] EXCEPT !.pc = pc]]
          PROVE  disp'[e].blocked = disp[e].blocked /\ disp'[e].t = disp[e].t
      <4>1. disp'[e] = [disp[d] EXCEPT !.pc = pc]
        BY <1>0, <3>5
      <4> QED BY <3>1, <3>5, <4>1
    <3> QED BY <3>2, <3>3, <3>4, <3>5
  <2> QED BY <1>3, <2>1, <2>2 DEF DispatchStep
<1>4. ASSUME NEW d \in Slots, NEW t \in Trades, Enter(d, t)
      PROVE  disp'[e] = disp[e] \/ disp'[e].blocked = {}
  BY <1>0, <1>4 DEF Enter, NoDisp
<1>5. ASSUME NEW t \in Trades, Signal(t) \/ Lose(t) \/ Archive(t) \/ Outlives(t)
      PROVE  disp'[e] = disp[e] \/ disp'[e].blocked = {}
  BY <1>4, <1>5, NullsTyped DEF Signal, Announce, Lose, Archive, Outlives
<1>6. ASSUME NEW t \in Trades, NEW d \in WorkerSlots,
             Deliver(t, d) \/ Replay(t, d) \/ SweepRead(t, d)
      PROVE  disp'[e] = disp[e] \/ disp'[e].blocked = {}
  <2>1. d \in Slots
    BY NullsTyped
  <2>2. CASE Deliver(t, d) \/ Replay(t, d)
    BY <1>4, <2>1, <2>2 DEF Deliver, Replay
  <2>3. CASE SweepRead(t, d)
    BY <1>0, <2>1, <2>3 DEF SweepRead, NoDisp
  <2> QED BY <1>6, <2>2, <2>3
<1>7. ASSUME \/ \E d \in Slots : DispatchThrows(d)
             \/ \E p \in {"api", "worker"} : Crash(p)
      PROVE  disp'[e] = disp[e] \/ disp'[e].blocked = {}
  BY <1>0, <1>7 DEF DispatchThrows, Crash
<1>8. \/ \E k \in Keys : Age(k) \/ RepairWrite(k)
      \/ \E u \in Users : PageResetsStale(u) \/ RepairRead(u)
      \/ Change
      \/ UNCHANGED vars
      => disp' = disp
  BY DEF Age, RepairWrite, PageResetsStale, RepairRead, Change, vars
<1> QED BY <1>1, <1>2, <1>3, <1>5, <1>6, <1>7, <1>8 DEF Next

LEMMA BlockedBuysNext ==
  ASSUME OrdersInv, BlockedBuys, [Next]_vars PROVE BlockedBuys'
BY BlockedRows, BlockedSlots DEF BlockedBuys, FoundBlocked

LEMMA FundingFinal ==
  ASSUME OrdersInv, FundingInv, BlockedBuys, [Next]_vars
  PROVE  \A k \in Keys :
           row[k].st = "skipped" /\ row[k].code = "buy_funding" => row'[k] = row[k]
<1> SUFFICES ASSUME NEW k \in Keys, row[k].st = "skipped", Blocked(row[k]), row'[k] # row[k]
             PROVE  FALSE
  BY DEF Blocked
<1>1. TypeOK
  BY DEF OrdersInv
<1>0. ~RepairWrite(k)
  BY <1>1 DEF RepairWrite, BlockedBuys, TypeOK
<1>2. PICK d \in Slots, s \in Subs : TaskStep(d, s) /\ k = Key(d, s)
  BY <1>0, <1>1, SettledStep DEF Settled
<1>3. PICK r \in Row : RowEffect(d, s, r)
  BY <1>1, <1>2, TaskStepEffect
<1>4. row'[k] = r /\ RowAt(d, s) = row[k]
  BY <1>1, <1>2, <1>3 DEF RowEffect, TypeOK, RowAt
<1>5. task[d][s].id = RowAt(d, s).id
  BY <1>2, <1>3, <1>4 DEF RowEffect, Found, Alive
<1> QED BY <1>4, <1>5 DEF FundingInv

\* A BUY skipped at the fan-out because of funding warnings is never filled,
\* requeued, rewritten or deleted later.
THEOREM FundingSkipCorrect == Spec => FundingSkipFinal
<1>1. Init => OrdersInv /\ FundingInv /\ BlockedBuys
  BY OrdersInit, FundingInit, BlockedBuysInit
<1>2. OrdersInv /\ FundingInv /\ BlockedBuys /\ [Next]_vars
        => (OrdersInv /\ FundingInv /\ BlockedBuys)'
  BY OrdersNext, FundingNext, BlockedBuysNext
<1>3. OrdersInv /\ FundingInv /\ BlockedBuys /\ [Next]_vars =>
        [\A k \in Keys :
           row[k].st = "skipped" /\ row[k].code = "buy_funding" => row'[k] = row[k]]_vars
  BY FundingFinal
<1> QED BY <1>1, <1>2, <1>3, PTL DEF Spec, FundingSkipFinal
=============================================================================

---------------------------- MODULE CustodyProofs ----------------------------
(***************************************************************************)
(* Money in custody.  Payments out of a deposit wallet, for every set of   *)
(* calls and keys, every number of batches, credentials and stops: what is *)
(* credited was paid, and when a key can be paid twice or two requests be  *)
(* open together.  Then the forwards of deposits: what is sent is debited  *)
(* and what is debited was sent.  Last the balance, the package orders,    *)
(* the tiers and the commissions of one user.                              *)
(***************************************************************************)
EXTENDS DepositPayout, EoaForward, GasShop, FiniteSetTheorems, SequenceTheorems, TLAPS

PayPcs == {"idle", "stale", "expire", "inflight", "resolve", "acquire", "count",
           "create", "submit", "mark", "wait", "confirm", "fail", "credit"}
PayCall == [pc : PayPcs, key : PayKeys \cup {NoKey}, round : 1 .. 2, ok : SUBSET PayKeys,
            bad : SUBSET PayKeys, tx : 0 .. MaxBatches, slot : 1 .. BuilderSlots,
            raced : BOOLEAN, limited : BOOLEAN]
Calls == [PayCalls -> PayCall]
Requests == [st : {"none", "PENDING", "RELAYER_SUBMITTED", "CONFIRMED", "FAILED"},
             tx : 0 .. MaxBatches, old : BOOLEAN]
Batches == [key : PayKeys, st : {"queued", "mined", "failed"}]

\* The calls that own a row they created, and those that know a key.
Owning == {"submit", "mark", "wait", "confirm", "fail"}
Paying == Owning \cup {"credit"}
Keyed == Paying \cup {"acquire", "count", "create"}

Owns(c, k) == pcall[c].pc \in Owning /\ pcall[c].key = k
HasBatch(k) == \E i \in DOMAIN batch : batch[i].key = k
Twice(k) == \E i, j \in DOMAIN batch : i # j /\ batch[i].key = k /\ batch[j].key = k
Excused(k) == k \in broken \/ Twice(k)

(***************************************************************************)
(* The inductive invariant, in named parts.                                *)
(***************************************************************************)

\* Batches are counted, a call that pays knows its key, and one that was refused for its
\* rate submits again or fails.
Counted ==
  /\ Len(batch) <= MaxBatches
  /\ \A c \in PayCalls : pcall[c].pc \in Keyed => pcall[c].key \in PayKeys
  /\ \A c \in PayCalls : pcall[c].limited => pcall[c].pc \in {"submit", "fail"}

\* A submitted row, and a call that marks or waits, has a batch of its key.
TxKnown ==
  /\ \A k \in PayKeys : request[k].st = "RELAYER_SUBMITTED" =>
       request[k].tx \in DOMAIN batch /\ batch[request[k].tx].key = k
  /\ \A c \in PayCalls : pcall[c].pc \in {"mark", "wait"} =>
       pcall[c].tx \in DOMAIN batch /\ batch[pcall[c].tx].key = pcall[c].key

\* What is credited, confirmed or about to be was paid.
PaidIsMined ==
  /\ \A k \in PayKeys : k \in credited \/ request[k].st = "CONFIRMED" => Mined(k)
  /\ \A c \in PayCalls : pcall[c].pc \in {"confirm", "credit"} => Mined(pcall[c].key)
  /\ \A c \in PayCalls : pcall[c].pc = "resolve" => \A k \in pcall[c].ok : Mined(k)

\* A row has at most one owner, and without a row there is neither an owner nor a batch.
OneOwner ==
  /\ \A k \in PayKeys, c, d \in PayCalls : Owns(c, k) /\ Owns(d, k) => c = d
  /\ \A k \in PayKeys : request[k].st = "none" => ~HasBatch(k) /\ \A c \in PayCalls : ~Owns(c, k)

\* A call that submits without having been refused for its rate has no batch yet.
FirstBatch ==
  \A c \in PayCalls : pcall[c].pc = "submit" => (HasBatch(pcall[c].key) <=> pcall[c].limited)

\* A key with a batch is credited, broken, or a call is still at it.
BatchFollowed ==
  \A k \in PayKeys : HasBatch(k) /\ k \notin broken =>
    k \in credited \/ \E c \in PayCalls : pcall[c].key = k /\ pcall[c].pc \in Paying

\* The row of a call that has not marked its batch is pending, unless it is excused; so is
\* one that another call is about to confirm.
MarksPending ==
  /\ \A c \in PayCalls :
       pcall[c].pc = "mark" \/ (pcall[c].pc = "submit" /\ ~pcall[c].limited) =>
         Excused(pcall[c].key) \/ request[pcall[c].key].st = "PENDING"
  /\ \A c, d \in PayCalls :
       pcall[c].pc = "mark" /\ pcall[d].pc = "resolve" /\ pcall[c].key \in pcall[d].ok => Excused(pcall[c].key)

\* A call about to create its row, not raced, saw all open rows but excused ones.
CreatesAlone ==
  \A c \in PayCalls : pcall[c].pc = "create" /\ ~pcall[c].raced => \A k \in Open : Excused(k)

PayInv ==
  /\ PayTypeOK /\ Counted /\ TxKnown /\ PaidIsMined /\ OneOwner
  /\ FirstBatch /\ BatchFollowed /\ MarksPending /\ CreatesAlone

-----------------------------------------------------------------------------
(* What a step does to the calls.                                          *)

\* What a step leaves of a call it is not a step of.
Kept(d) ==
  /\ pcall'[d].pc = pcall[d].pc /\ pcall'[d].key = pcall[d].key /\ pcall'[d].ok = pcall[d].ok
  /\ pcall'[d].tx = pcall[d].tx /\ pcall'[d].limited = pcall[d].limited
  /\ pcall[d].raced => pcall'[d].raced

OthersKept(c) == \A d \in PayCalls \ {c} : Kept(d)

LEMMA TypesNamed ==
  PayTypeOK <=> /\ request \in [PayKeys -> Requests] /\ batch \in Seq(Batches) /\ pcall \in Calls
                /\ units \in 0 .. Deposit /\ stops \in 0 .. MaxStops
                /\ credited \subseteq PayKeys /\ ordered \subseteq Purchases /\ broken \subseteq PayKeys
BY DEF PayTypeOK, Requests, Batches, Calls, PayCall, PayPcs

LEMMA MoveKeeps ==
  ASSUME pcall \in Calls, NEW c \in PayCalls, NEW r \in PayCall, pcall' = [pcall EXCEPT ![c] = r]
  PROVE  pcall' \in Calls /\ OthersKept(c) /\ pcall'[c] = r
BY DEF Calls, OthersKept, Kept

LEMMA IdleTyped == Idle \in PayCall /\ Idle.pc = "idle" /\ ~Idle.limited
BY PayAssumption DEF PayAssumption, Idle, PayCall, PayPcs

LEMMA GoesKeeps ==
  ASSUME pcall \in Calls, NEW c \in PayCalls, NEW pc \in PayPcs, Goes(c, pc)
  PROVE  /\ pcall' \in Calls /\ OthersKept(c) /\ pcall'[c].pc = pc
         /\ pcall'[c].key = pcall[c].key /\ pcall'[c].ok = pcall[c].ok /\ pcall'[c].tx = pcall[c].tx
         /\ pcall'[c].limited = pcall[c].limited /\ pcall'[c].raced = pcall[c].raced
<1>1. pcall' = [pcall EXCEPT ![c] = [pcall[c] EXCEPT !.pc = pc]]
  BY DEF Goes
<1>2. pcall[c] \in PayCall /\ [pcall[c] EXCEPT !.pc = pc] \in PayCall
  BY DEF Calls, PayCall
<1>3. pcall' \in Calls /\ OthersKept(c) /\ pcall'[c] = [pcall[c] EXCEPT !.pc = pc]
  BY <1>1, <1>2, MoveKeeps
<1> QED BY <1>2, <1>3 DEF PayCall

LEMMA EndsKeeps ==
  ASSUME pcall \in Calls, NEW c \in PayCalls, Ends(c)
  PROVE  pcall' \in Calls /\ OthersKept(c) /\ pcall'[c].pc = "idle" /\ ~pcall'[c].limited
BY IdleTyped, MoveKeeps DEF Ends

LEMMA CreditsKeeps ==
  ASSUME pcall \in Calls, NEW c \in PayCalls, Credits(c)
  PROVE  /\ pcall' \in Calls /\ OthersKept(c) /\ pcall'[c].pc = "credit"
         /\ pcall'[c].key = pcall[c].key /\ ~pcall'[c].limited
<1> DEFINE r == [Idle EXCEPT !.pc = "credit", !.key = pcall[c].key]
<1>1. pcall[c] \in PayCall
  BY DEF Calls
<1>2. r \in PayCall /\ r.pc = "credit" /\ r.key = pcall[c].key /\ ~r.limited
  BY <1>1, IdleTyped DEF PayCall, PayPcs, Idle
<1>3. pcall' = [pcall EXCEPT ![c] = r]
  BY DEF Credits
<1> HIDE DEF r
<1>4. pcall' \in Calls /\ OthersKept(c) /\ pcall'[c] = r
  BY <1>2, <1>3, MoveKeeps
<1> QED BY <1>2, <1>4

LEMMA StartsKeeps ==
  ASSUME pcall \in Calls, NEW c \in PayCalls, NEW k \in PayKeys, NEW round \in 1 .. 2, Starts(c, k, round)
  PROVE  pcall' \in Calls /\ OthersKept(c) /\ pcall'[c].pc = "stale" /\ ~pcall'[c].limited
<1> DEFINE r == [Idle EXCEPT !.pc = "stale", !.key = k, !.round = round]
<1>1. r \in PayCall /\ r.pc = "stale" /\ ~r.limited
  BY IdleTyped DEF PayCall, PayPcs, Idle
<1>2. pcall' = [pcall EXCEPT ![c] = r]
  BY DEF Starts
<1> HIDE DEF r
<1> QED BY <1>1, <1>2, MoveKeeps

-----------------------------------------------------------------------------
(* Steps that move a call and leave the rows and the batches alone.        *)

\* A call that does not pay moves to where it does not pay either.
LEMMA LightMoves ==
  ASSUME PayInv, PayTypeOK', UNCHANGED <<request, batch, credited, broken>>,
         NEW c \in PayCalls, OthersKept(c), pcall[c].pc \notin Paying,
         pcall'[c].pc \notin Paying \cup {"create", "resolve"}, ~pcall'[c].limited,
         pcall'[c].pc \in {"acquire", "count"} => pcall'[c].key \in PayKeys
  PROVE  PayInv'
<1> USE DEF PayInv, OthersKept, Kept, Paying, Owning
<1>1. Counted' /\ TxKnown'
  BY DEF Counted, TxKnown, Keyed
<1>2. PaidIsMined'
  BY DEF PaidIsMined, Mined, BatchesOf
<1>3. OneOwner'
  BY DEF OneOwner, Owns, HasBatch
<1>4. FirstBatch'
  BY DEF FirstBatch, HasBatch
<1>5. BatchFollowed'
  BY DEF BatchFollowed, HasBatch
<1>6. MarksPending'
  BY DEF MarksPending, Excused, Twice
<1>7. CreatesAlone'
  BY DEF CreatesAlone, Excused, Twice, Open
<1> QED BY <1>1, <1>2, <1>3, <1>4, <1>5, <1>6, <1>7

\* A call that does not pay goes on to credit what is confirmed.
LEMMA CreditMoves ==
  ASSUME PayInv, PayTypeOK', UNCHANGED <<request, batch, credited, broken>>,
         NEW c \in PayCalls, OthersKept(c), pcall[c].pc \notin Paying,
         pcall'[c].pc = "credit", pcall'[c].key \in PayKeys, ~pcall'[c].limited,
         request[pcall'[c].key].st = "CONFIRMED"
  PROVE  PayInv'
<1> USE DEF PayInv, OthersKept, Kept, Paying, Owning
<1>1. Counted' /\ TxKnown'
  BY DEF Counted, TxKnown, Keyed
<1>2. PaidIsMined'
  BY DEF PaidIsMined, Mined, BatchesOf
<1>3. OneOwner'
  BY DEF OneOwner, Owns, HasBatch
<1>4. FirstBatch'
  BY DEF FirstBatch, HasBatch
<1>5. BatchFollowed'
  BY DEF BatchFollowed, HasBatch
<1>6. MarksPending'
  BY DEF MarksPending, Excused, Twice
<1>7. CreatesAlone'
  BY DEF CreatesAlone, Excused, Twice, Open
<1> QED BY <1>1, <1>2, <1>3, <1>4, <1>5, <1>6, <1>7

\* The owner of a row moves, short of marking its batch.
LEMMA OwnerMoves ==
  ASSUME PayInv, PayTypeOK', UNCHANGED <<request, batch, credited, broken>>,
         NEW c \in PayCalls, OthersKept(c), pcall[c].pc \in Owning, pcall'[c].key = pcall[c].key,
         pcall'[c].pc \in {"submit", "confirm", "fail"},
         pcall'[c].limited => pcall'[c].pc \in {"submit", "fail"},
         pcall'[c].pc = "confirm" => Mined(pcall[c].key),
         pcall'[c].pc = "submit" => (HasBatch(pcall[c].key) <=> pcall'[c].limited),
         pcall'[c].pc = "submit" /\ ~pcall'[c].limited => pcall[c].pc = "submit" /\ ~pcall[c].limited
  PROVE  PayInv'
<1> USE DEF PayInv, OthersKept, Kept, Paying, Owning
<1>1. Counted' /\ TxKnown'
  BY DEF Counted, TxKnown, Keyed
<1>2. PaidIsMined'
  BY DEF PaidIsMined, Mined, BatchesOf
<1>3. OneOwner'
  BY DEF OneOwner, Owns, HasBatch
<1>4. FirstBatch'
  BY DEF FirstBatch, HasBatch
<1>5. BatchFollowed'
  BY DEF BatchFollowed, HasBatch
<1>6. MarksPending'
  BY DEF MarksPending, Excused, Twice
<1>7. CreatesAlone'
  BY DEF CreatesAlone, Excused, Twice, Open
<1> QED BY <1>1, <1>2, <1>3, <1>4, <1>5, <1>6, <1>7

\* A call ends; if it paid, its key is credited or broken.
LEMMA EndMoves ==
  ASSUME PayInv, PayTypeOK', UNCHANGED <<request, batch>>,
         NEW c \in PayCalls, OthersKept(c), pcall'[c].pc = "idle", ~pcall'[c].limited,
         credited \subseteq credited', broken \subseteq broken',
         \A k \in credited' \ credited : Mined(k),
         pcall[c].pc \in Paying => pcall[c].key \in credited' \cup broken'
  PROVE  PayInv'
<1> USE DEF PayInv, OthersKept, Kept, Paying, Owning
<1>1. Counted' /\ TxKnown'
  BY DEF Counted, TxKnown, Keyed
<1>2. PaidIsMined'
  BY DEF PaidIsMined, Mined, BatchesOf
<1>3. OneOwner'
  BY DEF OneOwner, Owns, HasBatch
<1>4. FirstBatch'
  BY DEF FirstBatch, HasBatch
<1>5. BatchFollowed'
  BY DEF BatchFollowed, HasBatch
<1>6. MarksPending'
  BY DEF MarksPending, Excused, Twice
<1>7. CreatesAlone'
  BY DEF CreatesAlone, Excused, Twice, Open
<1> QED BY <1>1, <1>2, <1>3, <1>4, <1>5, <1>6, <1>7

-----------------------------------------------------------------------------
(* The call up to its row.                                                 *)

LEMMA RowTyped ==
  ASSUME NEW st \in {"none", "PENDING", "RELAYER_SUBMITTED", "CONFIRMED", "FAILED"}
  PROVE  [NoRow EXCEPT !.st = st] \in Requests /\ [NoRow EXCEPT !.st = st].st = st
<1>1. NoRow \in Requests
  BY PayAssumption DEF PayAssumption, NoRow, Requests
<1> QED BY <1>1 DEF Requests

LEMMA SetsRows ==
  ASSUME request \in [PayKeys -> Requests], NEW keys, NEW st \in {"CONFIRMED", "FAILED"}, Sets(keys, st)
  PROVE  request' \in [PayKeys -> Requests]
         /\ \A k \in PayKeys : IF k \in keys THEN request'[k].st = st ELSE request'[k] = request[k]
BY RowTyped DEF Sets

LEMMA PayInitInv == PayInit => PayInv
<1> SUFFICES ASSUME PayInit PROVE PayInv
  OBVIOUS
<1> USE DEF PayInit, Idle, NoRow
<1>1. PayTypeOK
  <2>1. request \in [PayKeys -> Requests] /\ pcall \in Calls
    BY IdleTyped, PayAssumption DEF PayAssumption, Requests, Calls
  <2>2. batch \in Seq(Batches)
    OBVIOUS
  <2> QED BY <2>1, <2>2, PayAssumption, TypesNamed DEF PayAssumption
<1>2. Counted /\ TxKnown /\ FirstBatch /\ MarksPending /\ CreatesAlone
  BY PayAssumption DEF PayAssumption, Counted, Keyed, Paying, Owning, TxKnown, FirstBatch, MarksPending, CreatesAlone
<1>3. PaidIsMined /\ OneOwner /\ BatchFollowed
  BY DEF PaidIsMined, OneOwner, Owns, Owning, HasBatch, BatchFollowed
<1> QED BY <1>1, <1>2, <1>3 DEF PayInv

LEMMA StartStep ==
  ASSUME PayInv, NEW c \in PayCalls, NEW k \in PayKeys, Withdraws(c, k) \/ (k \in Purchases /\ BuysFromDeposit(c, k))
  PROVE  PayInv'
<1>1. pcall \in Calls /\ 1 \in 1 .. 2 /\ 2 \in 1 .. 2
  BY TypesNamed DEF PayInv
<1>2. pcall' \in Calls /\ OthersKept(c) /\ pcall'[c].pc = "stale" /\ ~pcall'[c].limited
  BY <1>1, StartsKeeps DEF Withdraws, BuysFromDeposit
<1>3. pcall[c].pc = "idle" /\ UNCHANGED <<request, batch, units, credited, stops, broken>>
      /\ ordered' \subseteq ordered \cup ({k} \cap Purchases)
  BY DEF Withdraws, BuysFromDeposit, Starts
<1>4. PayTypeOK'
  BY <1>2, <1>3, TypesNamed DEF PayInv, PayTypeOK, Calls, PayCall, PayPcs
<1> QED BY <1>2, <1>3, <1>4, LightMoves DEF Paying, Owning

LEMMA TypeFrame ==
  ASSUME PayTypeOK, pcall' \in Calls, UNCHANGED <<request, batch, units, credited, ordered, stops, broken>>
  PROVE  PayTypeOK'
BY DEF PayTypeOK, Calls, PayCall, PayPcs

LEMMA LooksStep ==
  ASSUME PayInv, NEW c \in PayCalls, PayLooks(c) \/ RecoverReadStale(c)
  PROVE  PayInv'
<1>1. pcall \in Calls /\ pcall[c].pc \in {"idle", "stale"} /\ ~pcall[c].limited
      /\ UNCHANGED <<request, batch, units, credited, ordered, stops, broken>>
  BY TypesNamed DEF PayInv, Counted, PayLooks, RecoverReadStale
<1>2. pcall' \in Calls /\ OthersKept(c) /\ pcall'[c].pc \in {"stale", "inflight", "expire"} /\ ~pcall'[c].limited
  <2>1. CASE PayLooks(c)
    <3>1. Goes(c, "stale")
      BY <2>1 DEF PayLooks, Goes
    <3> QED BY <1>1, <3>1, GoesKeeps DEF PayPcs
  <2>2. CASE RecoverReadStale(c)
    <3>1. PICK stale \in SUBSET PayKeys, pc \in {"inflight", "expire"} :
            pcall' = [pcall EXCEPT ![c] = [pcall[c] EXCEPT !.pc = pc, !.bad = stale]]
      BY <2>2 DEF RecoverReadStale, Open
    <3>2. [pcall[c] EXCEPT !.pc = pc, !.bad = stale] \in PayCall
      BY <1>1 DEF Calls, PayCall, PayPcs
    <3>3. pcall' \in Calls /\ OthersKept(c) /\ pcall'[c] = [pcall[c] EXCEPT !.pc = pc, !.bad = stale]
      BY <1>1, <3>1, <3>2, MoveKeeps
    <3> QED BY <1>1, <3>3 DEF Calls, PayCall
  <2> QED BY <2>1, <2>2
<1>3. PayTypeOK'
  BY <1>1, <1>2, TypeFrame DEF PayInv
<1> QED BY <1>1, <1>2, <1>3, LightMoves DEF Paying, Owning

\* Old requests expire.
LEMMA ExpireStep ==
  ASSUME PayInv, NEW c \in PayCalls, RecoverExpire(c)
  PROVE  PayInv'
<1> DEFINE gone == pcall[c].bad
<1>1. pcall \in Calls /\ pcall[c].pc = "expire" /\ ~pcall[c].limited /\ gone \subseteq PayKeys
      /\ request \in [PayKeys -> Requests] /\ PayTypeOK
      /\ UNCHANGED <<batch, units, credited, ordered, stops>> /\ broken' = broken \cup gone
  BY TypesNamed DEF PayInv, Counted, RecoverExpire, Calls, PayCall
<1>2. pcall' \in Calls /\ OthersKept(c) /\ pcall'[c].pc = "inflight" /\ ~pcall'[c].limited
  <2>1. pcall' = [pcall EXCEPT ![c] = [pcall[c] EXCEPT !.pc = "inflight", !.bad = {}]]
    BY DEF RecoverExpire
  <2>2. [pcall[c] EXCEPT !.pc = "inflight", !.bad = {}] \in PayCall
    BY <1>1 DEF Calls, PayCall, PayPcs
  <2>3. pcall' \in Calls /\ OthersKept(c) /\ pcall'[c] = [pcall[c] EXCEPT !.pc = "inflight", !.bad = {}]
    BY <1>1, <2>1, <2>2, MoveKeeps
  <2> QED BY <1>1, <2>3 DEF Calls, PayCall
<1>3. request' \in [PayKeys -> Requests]
      /\ \A k \in PayKeys : IF k \in gone THEN request'[k].st = "FAILED" ELSE request'[k] = request[k]
  BY <1>1, SetsRows DEF RecoverExpire
<1> HIDE DEF gone
<1> USE DEF PayInv, OthersKept, Kept, Paying, Owning
<1>4. PayTypeOK'
  BY <1>1, <1>2, <1>3 DEF PayTypeOK, Requests, Calls, PayCall, PayPcs
<1>5. Counted' /\ TxKnown'
  BY <1>1, <1>2, <1>3 DEF Counted, TxKnown, Keyed
<1>6. PaidIsMined'
  BY <1>1, <1>2, <1>3 DEF PaidIsMined, Mined, BatchesOf
<1>7. OneOwner' /\ FirstBatch'
  BY <1>1, <1>2, <1>3 DEF OneOwner, FirstBatch, Owns, HasBatch
<1>8. BatchFollowed'
  BY <1>1, <1>2, <1>3 DEF BatchFollowed, HasBatch
<1>9. MarksPending'
  BY <1>1, <1>2, <1>3 DEF MarksPending, Excused, Twice, Counted, Keyed
<1>10. CreatesAlone'
  BY <1>1, <1>2, <1>3 DEF CreatesAlone, Excused, Twice, Open
<1> QED BY <1>4, <1>5, <1>6, <1>7, <1>8, <1>9, <1>10

\* Submitted requests are polled: what is reported mined is.
LEMMA PollStep ==
  ASSUME PayInv, NEW c \in PayCalls, RecoverPoll(c)
  PROVE  PayInv'
<1>1. pcall \in Calls /\ pcall[c].pc = "inflight" /\ ~pcall[c].limited /\ PayTypeOK
      /\ request \in [PayKeys -> Requests]
      /\ UNCHANGED <<request, batch, units, credited, ordered, stops, broken>>
  BY TypesNamed DEF PayInv, Counted, RecoverPoll
<1>2. PICK polled \in SUBSET {k \in PayKeys : request[k].st = "RELAYER_SUBMITTED"} :
        LET is(st) == {k \in polled : batch[request[k].tx].st = st}
        IN pcall' = [pcall EXCEPT ![c].pc = "resolve", ![c].ok = is("mined"), ![c].bad = is("failed")]
  BY DEF RecoverPoll
<1> DEFINE ok == {k \in polled : batch[request[k].tx].st = "mined"}
           bad == {k \in polled : batch[request[k].tx].st = "failed"}
           r == [pcall[c] EXCEPT !.pc = "resolve", !.ok = ok, !.bad = bad]
<1>3. r \in PayCall /\ r.pc = "resolve" /\ r.ok = ok /\ ~r.limited
  BY <1>1 DEF Calls, PayCall, PayPcs
<1>4. pcall' = [pcall EXCEPT ![c] = r]
  BY <1>2
<1>5. \A k \in ok : k \in PayKeys /\ request[k].st = "RELAYER_SUBMITTED" /\ batch[request[k].tx].st = "mined"
  OBVIOUS
<1> HIDE DEF r, ok
<1>6. pcall' \in Calls /\ OthersKept(c) /\ pcall'[c].pc = "resolve" /\ pcall'[c].ok = ok /\ ~pcall'[c].limited
  BY <1>1, <1>3, <1>4, MoveKeeps
<1>7. \A k \in ok : Mined(k)
  BY <1>5 DEF PayInv, TxKnown, Mined, BatchesOf
<1> USE DEF PayInv, OthersKept, Kept, Paying, Owning
<1>8. PayTypeOK'
  BY <1>1, <1>6, TypeFrame
<1>9. Counted' /\ TxKnown'
  BY <1>1, <1>6 DEF Counted, TxKnown, Keyed
<1>10. PaidIsMined'
  BY <1>1, <1>6, <1>7 DEF PaidIsMined, Mined, BatchesOf
<1>11. OneOwner' /\ FirstBatch'
  BY <1>1, <1>6 DEF OneOwner, FirstBatch, Owns, HasBatch
<1>12. BatchFollowed'
  BY <1>1, <1>6 DEF BatchFollowed, HasBatch
<1>13. MarksPending'
  BY <1>1, <1>5, <1>6 DEF MarksPending, Excused, Twice
<1>14. CreatesAlone'
  BY <1>1, <1>6 DEF CreatesAlone, Excused, Twice, Open
<1> QED BY <1>8, <1>9, <1>10, <1>11, <1>12, <1>13, <1>14

\* What was polled is written to the rows, whatever they are by then.
LEMMA ResolveStep ==
  ASSUME PayInv, NEW c \in PayCalls, RecoverResolve(c)
  PROVE  PayInv'
<1> DEFINE ok == pcall[c].ok
           gone == pcall[c].bad
<1>1. pcall \in Calls /\ pcall[c].pc = "resolve" /\ ~pcall[c].limited /\ gone \subseteq PayKeys /\ PayTypeOK
      /\ ok \subseteq PayKeys /\ request \in [PayKeys -> Requests]
      /\ UNCHANGED <<batch, units, credited, ordered, stops>> /\ broken' = broken \cup gone
  BY TypesNamed DEF PayInv, Counted, RecoverResolve, Calls, PayCall
<1>2. pcall' \in Calls /\ OthersKept(c) /\ pcall'[c].pc \in {"idle", "stale", "acquire"} /\ ~pcall'[c].limited
      /\ (pcall'[c].pc = "acquire" => pcall'[c].key \in PayKeys)
  <2>1. CASE pcall' = [pcall EXCEPT ![c] = Idle]
    BY <1>1, <2>1, IdleTyped, MoveKeeps
  <2>2. CASE \E pc \in {"stale", "acquire"} : (pc = "acquire" => pcall[c].key # NoKey)
               /\ pcall' = [pcall EXCEPT ![c] = [pcall[c] EXCEPT !.pc = pc, !.round = 2, !.ok = {}, !.bad = {}]]
    <3>1. PICK pc \in {"stale", "acquire"} : (pc = "acquire" => pcall[c].key # NoKey)
               /\ pcall' = [pcall EXCEPT ![c] = [pcall[c] EXCEPT !.pc = pc, !.round = 2, !.ok = {}, !.bad = {}]]
      BY <2>2
    <3> DEFINE r == [pcall[c] EXCEPT !.pc = pc, !.round = 2, !.ok = {}, !.bad = {}]
    <3>0. pcall[c] \in PayCall /\ pc \in PayPcs /\ 2 \in 1 .. 2
      BY <1>1 DEF Calls, PayPcs
    <3>2. r \in PayCall /\ r.pc = pc /\ ~r.limited /\ r.key = pcall[c].key /\ pcall[c].key \in PayKeys \cup {NoKey}
      BY <1>1, <3>0 DEF PayCall
    <3> HIDE DEF r
    <3>3. pcall' \in Calls /\ OthersKept(c) /\ pcall'[c] = r
      BY <1>1, <3>1, <3>2, MoveKeeps DEF r
    <3> QED BY <3>1, <3>2, <3>3
  <2>3. AfterRecover(c) \in {"idle", "stale", "acquire"} /\ (pcall[c].key = NoKey => AfterRecover(c) = "idle")
    <3>1. \/ AfterRecover(c) = "idle"
          \/ pcall[c].key # NoKey /\ AfterRecover(c) \in {"idle", "stale", "acquire"}
      BY DEF AfterRecover
    <3>2. pcall[c].key = NoKey => AfterRecover(c) = "idle"
      BY DEF AfterRecover
    <3> QED BY <3>1, <3>2
  <2>4. \/ pcall' = [pcall EXCEPT ![c] = Idle]
        \/ /\ AfterRecover(c) \in {"stale", "acquire"}
           /\ pcall' = [pcall EXCEPT ![c] = [pcall[c] EXCEPT !.pc = AfterRecover(c), !.round = 2, !.ok = {}, !.bad = {}]]
    <3> DEFINE to == IF AfterRecover(c) = "acquire" /\ units = 0 THEN "idle" ELSE AfterRecover(c)
    <3> DEFINE r == IF to = "idle" THEN Idle ELSE [pcall[c] EXCEPT !.pc = to, !.round = 2, !.ok = {}, !.bad = {}]
    <3>1. pcall' = [pcall EXCEPT ![c] = r]
      BY DEF RecoverResolve
    <3>2. CASE to = "idle"
      <4>1. r = Idle
        BY <3>2
      <4> HIDE DEF r
      <4> QED BY <3>1, <4>1
    <3>3. CASE to # "idle"
      <4>1. r = [pcall[c] EXCEPT !.pc = to, !.round = 2, !.ok = {}, !.bad = {}]
        BY <3>3
      <4>2. to = AfterRecover(c)
        BY <3>3
      <4> HIDE DEF r, to
      <4> QED BY <2>3, <3>1, <3>3, <4>1, <4>2
    <3> QED BY <3>2, <3>3
  <2> QED BY <2>1, <2>2, <2>3, <2>4
<1>3. request' \in [PayKeys -> Requests] /\ \A k \in PayKeys :
        IF k \in ok THEN request'[k].st = "CONFIRMED"
        ELSE IF k \in gone THEN request'[k].st = "FAILED" ELSE request'[k] = request[k]
  <2>1. request' = [k \in PayKeys |->
                     IF k \in pcall[c].ok THEN [NoRow EXCEPT !.st = "CONFIRMED"]
                     ELSE IF k \in pcall[c].bad THEN [NoRow EXCEPT !.st = "FAILED"]
                     ELSE request[k]]
    BY DEF RecoverResolve
  <2>2. ASSUME NEW k \in PayKeys
        PROVE  request'[k] \in Requests /\ IF k \in ok THEN request'[k].st = "CONFIRMED"
               ELSE IF k \in gone THEN request'[k].st = "FAILED" ELSE request'[k] = request[k]
    <3>1. CASE k \in ok
      BY <2>1, <3>1, RowTyped
    <3>2. CASE k \notin ok /\ k \in gone
      BY <2>1, <3>2, RowTyped
    <3>3. CASE k \notin ok /\ k \notin gone
      BY <1>1, <2>1, <3>3
    <3> QED BY <3>1, <3>2, <3>3
  <2>3. request' \in [PayKeys -> Requests]
    BY <2>1, <2>2
  <2> QED BY <2>2, <2>3
<1>4. \A k \in ok : Mined(k)
  BY <1>1 DEF PayInv, PaidIsMined
<1> HIDE DEF gone
<1> USE DEF PayInv, OthersKept, Kept, Paying, Owning
<1>5. PayTypeOK'
  BY <1>1, <1>2, <1>3 DEF PayTypeOK, Requests, Calls, PayCall, PayPcs
<1>6. Counted' /\ TxKnown'
  BY <1>1, <1>2, <1>3 DEF Counted, TxKnown, Keyed
<1>7. PaidIsMined'
  BY <1>1, <1>2, <1>3, <1>4 DEF PaidIsMined, Mined, BatchesOf
<1>8. OneOwner' /\ FirstBatch'
  BY <1>1, <1>2, <1>3 DEF OneOwner, FirstBatch, Owns, HasBatch
<1>9. BatchFollowed'
  BY <1>1, <1>2, <1>3 DEF BatchFollowed, HasBatch
<1>10. MarksPending'
  <2>1. ASSUME NEW d \in PayCalls, pcall'[d].pc = "mark" \/ (pcall'[d].pc = "submit" /\ ~pcall'[d].limited)
        PROVE  Excused(pcall[d].key)' \/ request'[pcall'[d].key].st = "PENDING"
    <3>0. pcall[d].key \in PayKeys
      BY <1>2, <2>1 DEF Counted, Keyed
    <3> PICK k \in PayKeys : k = pcall[d].key
      BY <3>0
    <3>1. d # c /\ pcall[d].key = k /\ pcall'[d].key = k
          /\ (pcall[d].pc = "mark" \/ (pcall[d].pc = "submit" /\ ~pcall[d].limited))
      BY <1>2, <2>1 DEF Counted, Keyed
    <3>2. Excused(k) => Excused(k)'
      BY <1>1 DEF Excused, Twice
    <3>3. CASE k \in ok /\ pcall[d].pc = "mark"
      BY <1>1, <3>1, <3>2, <3>3 DEF MarksPending
    <3>4. CASE k \in ok /\ pcall[d].pc = "submit"
      <4>1. HasBatch(k)
        BY <1>4, <3>4 DEF Mined, BatchesOf, HasBatch
      <4> QED BY <3>1, <3>4, <4>1 DEF FirstBatch
    <3>5. CASE k \notin ok /\ k \in gone
      BY <1>1, <3>1, <3>5 DEF Excused
    <3>6. CASE k \notin ok /\ k \notin gone
      BY <1>3, <3>1, <3>2, <3>6 DEF MarksPending
    <3> QED BY <3>1, <3>3, <3>4, <3>5, <3>6
  <2>2. ASSUME NEW d \in PayCalls, NEW e \in PayCalls, pcall'[d].pc = "mark", pcall'[e].pc = "resolve",
               pcall'[d].key \in pcall'[e].ok
        PROVE  Excused(pcall[d].key)'
    <3>1. d # c /\ e # c
      BY <1>2, <2>2
    <3>2. Excused(pcall[d].key) /\ pcall'[d].key = pcall[d].key
      BY <1>2, <2>2, <3>1 DEF MarksPending
    <3> QED BY <1>1, <3>2 DEF Excused, Twice
  <2> QED BY <2>1, <2>2 DEF MarksPending
<1>11. CreatesAlone'
  BY <1>1, <1>2, <1>3 DEF CreatesAlone, Excused, Twice, Open
<1> QED BY <1>5, <1>6, <1>7, <1>8, <1>9, <1>10, <1>11

\* A request that exists is replayed when it is confirmed, and else refused.
LEMMA ReplayStep ==
  ASSUME PayInv, NEW c \in PayCalls, pcall[c].pc \in {"acquire", "create"}, ResolveIdempotency(c),
         UNCHANGED <<request, batch, units, credited, ordered, stops, broken>>
  PROVE  PayInv'
<1>1. pcall \in Calls /\ pcall[c].key \in PayKeys
  BY TypesNamed DEF PayInv, Counted, Keyed
<1>2. CASE request[pcall[c].key].st = "CONFIRMED" /\ Credits(c)
  <2>1. pcall' \in Calls /\ OthersKept(c) /\ pcall'[c].pc = "credit" /\ pcall'[c].key = pcall[c].key
        /\ ~pcall'[c].limited
    BY <1>1, <1>2, CreditsKeeps
  <2>2. PayTypeOK'
    BY <2>1, TypeFrame DEF PayInv
  <2> QED BY <1>1, <1>2, <2>1, <2>2, CreditMoves DEF Paying, Owning
<1>3. CASE Ends(c)
  <2>1. pcall' \in Calls /\ OthersKept(c) /\ pcall'[c].pc = "idle" /\ ~pcall'[c].limited
    BY <1>1, <1>3, EndsKeeps
  <2>2. PayTypeOK'
    BY <2>1, TypeFrame DEF PayInv
  <2> QED BY <2>1, <2>2, LightMoves DEF Paying, Owning
<1> QED BY <1>2, <1>3 DEF ResolveIdempotency

LEMMA AcquireStep ==
  ASSUME PayInv, NEW c \in PayCalls, Acquire(c)
  PROVE  PayInv'
<1>1. pcall \in Calls /\ pcall[c].pc = "acquire" /\ pcall[c].key \in PayKeys /\ ~pcall[c].limited
      /\ UNCHANGED <<request, batch, units, credited, ordered, stops, broken>>
  BY TypesNamed DEF PayInv, Counted, Keyed, Acquire
<1>2. CASE ResolveIdempotency(c)
  BY <1>1, <1>2, ReplayStep
<1>3. CASE Goes(c, "count")
  <2>1. pcall' \in Calls /\ OthersKept(c) /\ pcall'[c].pc = "count" /\ ~pcall'[c].limited
        /\ pcall'[c].key = pcall[c].key
    BY <1>1, <1>3, GoesKeeps DEF PayPcs
  <2>2. PayTypeOK'
    BY <1>1, <2>1, TypeFrame DEF PayInv
  <2> QED BY <1>1, <2>1, <2>2, LightMoves DEF Paying, Owning
<1> QED BY <1>2, <1>3 DEF Acquire

\* The count saw no open request.
LEMMA CountStep ==
  ASSUME PayInv, NEW c \in PayCalls, CountOpen(c)
  PROVE  PayInv'
<1>1. pcall \in Calls /\ pcall[c].pc = "count" /\ pcall[c].key \in PayKeys /\ ~pcall[c].limited
      /\ UNCHANGED <<request, batch, units, credited, ordered, stops, broken>>
  BY TypesNamed DEF PayInv, Counted, Keyed, CountOpen
<1>2. CASE Ends(c)
  <2>1. pcall' \in Calls /\ OthersKept(c) /\ pcall'[c].pc = "idle" /\ ~pcall'[c].limited
    BY <1>1, <1>2, EndsKeeps
  <2>2. PayTypeOK'
    BY <1>1, <2>1, TypeFrame DEF PayInv
  <2> QED BY <1>1, <2>1, <2>2, LightMoves DEF Paying, Owning
<1>3. CASE Open = {} /\ Goes(c, "create")
  <2>1. pcall' \in Calls /\ OthersKept(c) /\ pcall'[c].pc = "create" /\ ~pcall'[c].limited
        /\ pcall'[c].key = pcall[c].key
    BY <1>1, <1>3, GoesKeeps DEF PayPcs
  <2> USE DEF PayInv, OthersKept, Kept, Paying, Owning
  <2>2. PayTypeOK'
    BY <1>1, <2>1, TypeFrame
  <2>3. Counted' /\ TxKnown'
    BY <1>1, <2>1 DEF Counted, TxKnown, Keyed
  <2>4. PaidIsMined'
    BY <1>1, <2>1 DEF PaidIsMined, Mined, BatchesOf
  <2>5. OneOwner' /\ FirstBatch'
    BY <1>1, <2>1 DEF OneOwner, FirstBatch, Owns, HasBatch
  <2>6. BatchFollowed'
    BY <1>1, <2>1 DEF BatchFollowed, HasBatch
  <2>7. MarksPending'
    BY <1>1, <2>1 DEF MarksPending, Excused, Twice
  <2>8. CreatesAlone'
    BY <1>1, <1>3 DEF CreatesAlone, Open
  <2> QED BY <2>2, <2>3, <2>4, <2>5, <2>6, <2>7, <2>8
<1> QED BY <1>2, <1>3 DEF CountOpen

\* A row is created: its call owns it alone, and races the other calls about to create one.
LEMMA CreateStep ==
  ASSUME PayInv, NEW c \in PayCalls, CreateRow(c)
  PROVE  PayInv'
<1> DEFINE k == pcall[c].key
<1>1. pcall \in Calls /\ pcall[c].pc = "create" /\ k \in PayKeys /\ ~pcall[c].limited /\ PayTypeOK
      /\ request \in [PayKeys -> Requests]
      /\ UNCHANGED <<batch, units, credited, ordered, stops, broken>>
  BY TypesNamed DEF PayInv, Counted, Keyed, CreateRow
<1>2. CASE request[k].st # "none"
  BY <1>1, <1>2, ReplayStep DEF CreateRow
<1>3. CASE request[k].st = "none"
  <2>1. request' \in [PayKeys -> Requests] /\ request'[k].st = "PENDING"
        /\ \A o \in PayKeys \ {k} : request'[o] = request[o]
    <3>1. request' = [request EXCEPT ![k] = [request[k] EXCEPT !.st = "PENDING"]]
      BY <1>3 DEF CreateRow
    <3>2. [request[k] EXCEPT !.st = "PENDING"] \in Requests /\ [request[k] EXCEPT !.st = "PENDING"].st = "PENDING"
      BY <1>1 DEF Requests
    <3> QED BY <1>1, <3>1, <3>2
  <2>2. pcall' = [d \in PayCalls |->
                   CASE d = c -> [pcall[c] EXCEPT !.pc = "submit", !.raced = FALSE]
                     [] d /= c /\ pcall[d].pc = "create" -> [pcall[d] EXCEPT !.raced = TRUE]
                     [] OTHER -> pcall[d]]
    BY <1>3 DEF CreateRow
  <2>3. pcall'[c] \in PayCall /\ pcall'[c].pc = "submit" /\ pcall'[c].key = pcall[c].key /\ ~pcall'[c].limited
    <3>1. pcall'[c] = [pcall[c] EXCEPT !.pc = "submit", !.raced = FALSE]
      BY <2>2
    <3> QED BY <1>1, <3>1 DEF Calls, PayCall, PayPcs
  <2>4. ASSUME NEW d \in PayCalls, d # c
        PROVE  pcall'[d] \in PayCall /\ Kept(d) /\ (pcall[d].pc = "create" => pcall'[d].raced)
    <3>1. pcall[d] \in PayCall
      BY <1>1 DEF Calls
    <3>2. CASE pcall[d].pc = "create"
      <4>1. pcall'[d] = [pcall[d] EXCEPT !.raced = TRUE]
        BY <2>2, <2>4, <3>2
      <4> QED BY <3>1, <4>1 DEF PayCall, Kept
    <3>3. CASE pcall[d].pc # "create"
      <4>1. pcall'[d] = pcall[d]
        BY <2>2, <2>4, <3>3
      <4> QED BY <3>1, <3>3, <4>1 DEF Kept
    <3> QED BY <3>2, <3>3
  <2>5. pcall' \in Calls
    BY <2>2, <2>3, <2>4 DEF Calls
  <2> HIDE DEF k
  <2>6. \A d \in PayCalls : ~Owns(d, k)
    BY <1>1, <1>3 DEF PayInv, OneOwner
  <2>7. ~HasBatch(k)
    BY <1>1, <1>3 DEF PayInv, OneOwner
  <2>8. pcall[c].key = k /\ pcall'[c].key = k
    BY <2>3 DEF k
  <2> USE DEF PayInv, OthersKept, Kept, Paying, Owning
  <2>9. PayTypeOK'
    BY <1>1, <2>1, <2>5 DEF PayTypeOK, Requests, Calls, PayCall, PayPcs
  <2>10. Counted' /\ TxKnown'
    BY <1>1, <1>3, <2>1, <2>3, <2>4, <2>8 DEF Counted, TxKnown, Keyed
  <2>11. PaidIsMined'
    BY <1>1, <2>1, <2>3, <2>4 DEF PaidIsMined, Mined, BatchesOf
  <2>12. OneOwner'
    BY <1>1, <2>1, <2>3, <2>4, <2>6, <2>8 DEF OneOwner, Owns, HasBatch
  <2>13. FirstBatch'
    BY <1>1, <2>3, <2>4, <2>7, <2>8 DEF FirstBatch, HasBatch
  <2>14. BatchFollowed'
    BY <1>1, <2>3, <2>4 DEF BatchFollowed, HasBatch
  <2>15. MarksPending'
    BY <1>1, <2>1, <2>3, <2>4, <2>6, <2>8 DEF MarksPending, Excused, Twice, Owns, Counted, Keyed
  <2>16. CreatesAlone'
    BY <2>3, <2>4 DEF CreatesAlone
  <2> QED BY <2>9, <2>10, <2>11, <2>12, <2>13, <2>14, <2>15, <2>16
<1> QED BY <1>2, <1>3

-----------------------------------------------------------------------------
(* The payment.                                                            *)

\* Another credential is tried, or the call fails.
LEMMA RefusedStep ==
  ASSUME PayInv, NEW c \in PayCalls, SubmitRefused(c)
  PROVE  PayInv'
<1>1. pcall \in Calls /\ pcall[c] \in PayCall /\ pcall[c].pc = "submit"
      /\ (HasBatch(pcall[c].key) <=> pcall[c].limited)
      /\ UNCHANGED <<request, batch, units, credited, ordered, stops, broken>>
  BY TypesNamed DEF PayInv, FirstBatch, SubmitRefused, Calls
<1>2. ASSUME NEW pc \in {"submit", "fail"}, NEW s \in 1 .. BuilderSlots,
             pcall' = [pcall EXCEPT ![c] = [pcall[c] EXCEPT !.pc = pc, !.slot = s]]
      PROVE  PayInv'
  <2>1. [pcall[c] EXCEPT !.pc = pc, !.slot = s] \in PayCall
    BY <1>1 DEF PayCall, PayPcs
  <2>2. pcall' \in Calls /\ OthersKept(c) /\ pcall'[c] = [pcall[c] EXCEPT !.pc = pc, !.slot = s]
    BY <1>1, <1>2, <2>1, MoveKeeps
  <2>3. pcall'[c].pc = pc /\ pcall'[c].key = pcall[c].key /\ pcall'[c].limited = pcall[c].limited
    BY <1>1, <2>2 DEF PayCall
  <2>4. PayTypeOK'
    BY <1>1, <2>2, TypeFrame DEF PayInv
  <2> QED BY <1>1, <2>2, <2>3, <2>4, OwnerMoves DEF Owning
<1>3. pcall[c].slot \in 1 .. BuilderSlots /\ BuilderSlots \in Nat /\ pcall[c] = [pcall[c] EXCEPT !.slot = pcall[c].slot]
  BY <1>1, PayAssumption DEF PayCall, PayAssumption
<1>4. CASE Goes(c, "fail")
  <2>1. pcall' = [pcall EXCEPT ![c] = [pcall[c] EXCEPT !.pc = "fail", !.slot = pcall[c].slot]]
    BY <1>1, <1>4 DEF Goes, PayCall
  <2> QED BY <1>2, <1>3, <2>1
<1>5. CASE NextSlot(c)
  <2>1. CASE pcall[c].slot < BuilderSlots
    <3>1. pcall[c].slot + 1 \in 1 .. BuilderSlots
      BY <1>3, <2>1
    <3>2. pcall' = [pcall EXCEPT ![c] = [pcall[c] EXCEPT !.pc = "submit", !.slot = pcall[c].slot + 1]]
      BY <1>5, <2>1 DEF NextSlot
    <3> QED BY <1>2, <3>1, <3>2
  <2>2. CASE ~(pcall[c].slot < BuilderSlots)
    <3>1. Goes(c, "fail")
      BY <1>5, <2>2 DEF NextSlot
    <3>2. pcall' = [pcall EXCEPT ![c] = [pcall[c] EXCEPT !.pc = "fail", !.slot = pcall[c].slot]]
      BY <1>1, <3>1 DEF Goes, PayCall
    <3> QED BY <1>2, <1>3, <3>2
  <2> QED BY <2>1, <2>2
<1> QED BY <1>4, <1>5 DEF SubmitRefused

\* A batch joins the others.
LEMMA BatchJoins ==
  ASSUME PayInv, NEW k \in PayKeys, batch' = Append(batch, [key |-> k, st |-> "queued"]), Len(batch) < MaxBatches
  PROVE  /\ batch' \in Seq(Batches) /\ Len(batch') = Len(batch) + 1 /\ Len(batch') \in 1 .. MaxBatches
         /\ Len(batch') \in DOMAIN batch' /\ Len(batch') \notin DOMAIN batch
         /\ DOMAIN batch \subseteq DOMAIN batch' /\ batch'[Len(batch')].key = k
         /\ \A i \in DOMAIN batch : batch'[i] = batch[i]
         /\ \A i \in DOMAIN batch' : i \notin DOMAIN batch => i = Len(batch')
<1>1. batch \in Seq(Batches) /\ [key |-> k, st |-> "queued"] \in Batches /\ MaxBatches \in Nat /\ Len(batch) \in Nat
  BY TypesNamed, PayAssumption DEF PayInv, Batches, PayAssumption
<1>2. batch' \in Seq(Batches) /\ Len(batch') = Len(batch) + 1
  BY <1>1
<1>3. DOMAIN batch = 1 .. Len(batch) /\ DOMAIN batch' = 1 .. Len(batch')
  BY <1>1, <1>2
<1>4. batch'[Len(batch) + 1] = [key |-> k, st |-> "queued"] /\ \A i \in 1 .. Len(batch) : batch'[i] = batch[i]
  BY <1>1
<1> QED BY <1>1, <1>2, <1>3, <1>4

\* The relayer takes the batch of a call: the first of its key, or the call was refused for its rate.
LEMMA TakenStep ==
  ASSUME PayInv, NEW c \in PayCalls, SubmitTaken(c)
  PROVE  PayInv'
<1>0. PICK k \in PayKeys : k = pcall[c].key
  BY DEF PayInv, Counted, Keyed, Paying, Owning, SubmitTaken
<1>1. pcall \in Calls /\ pcall[c] \in PayCall /\ pcall[c].pc = "submit" /\ pcall[c].key = k
      /\ (HasBatch(k) <=> pcall[c].limited) /\ PayTypeOK
      /\ UNCHANGED <<request, units, credited, ordered, stops, broken>>
  BY <1>0, TypesNamed DEF PayInv, FirstBatch, SubmitTaken, Calls
<1>2. /\ batch' \in Seq(Batches) /\ Len(batch') = Len(batch) + 1 /\ Len(batch') \in 1 .. MaxBatches
      /\ Len(batch') \in DOMAIN batch' /\ Len(batch') \notin DOMAIN batch
      /\ DOMAIN batch \subseteq DOMAIN batch' /\ batch'[Len(batch')].key = k
      /\ \A i \in DOMAIN batch : batch'[i] = batch[i]
      /\ \A i \in DOMAIN batch' : i \notin DOMAIN batch => i = Len(batch')
  BY <1>0, BatchJoins DEF SubmitTaken
<1>3. PICK pc \in {"mark", "fail"}, tx \in {0, Len(batch')} :
        /\ pcall' = [pcall EXCEPT ![c] = [pcall[c] EXCEPT !.pc = pc, !.tx = tx, !.limited = FALSE]]
        /\ pc = "mark" => tx = Len(batch')
  <2>1. PICK answered \in BOOLEAN :
          pcall' = [pcall EXCEPT ![c].pc = IF answered THEN "mark" ELSE "fail",
                                 ![c].tx = IF answered THEN Len(batch) + 1 ELSE 0,
                                 ![c].limited = FALSE]
    BY DEF SubmitTaken
  <2>2. CASE answered
    <3>1. pcall' = [pcall EXCEPT ![c] = [pcall[c] EXCEPT !.pc = "mark", !.tx = Len(batch'), !.limited = FALSE]]
      BY <1>2, <2>1, <2>2
    <3> QED BY <3>1
  <2>3. CASE ~answered
    <3>1. pcall' = [pcall EXCEPT ![c] = [pcall[c] EXCEPT !.pc = "fail", !.tx = 0, !.limited = FALSE]]
      BY <2>1, <2>3
    <3> QED BY <3>1
  <2> QED BY <2>2, <2>3
<1>4. pcall' \in Calls /\ OthersKept(c) /\ pcall'[c].pc = pc /\ pcall'[c].key = k /\ ~pcall'[c].limited
      /\ (pc = "mark" => pcall'[c].tx = Len(batch'))
  <2>1. tx \in 0 .. MaxBatches
    BY <1>2, PayAssumption DEF PayAssumption
  <2>2. [pcall[c] EXCEPT !.pc = pc, !.tx = tx, !.limited = FALSE] \in PayCall
    BY <1>1, <2>1 DEF PayCall, PayPcs
  <2>3. pcall' \in Calls /\ OthersKept(c)
        /\ pcall'[c] = [pcall[c] EXCEPT !.pc = pc, !.tx = tx, !.limited = FALSE]
    BY <1>1, <1>3, <2>2, MoveKeeps
  <2> DEFINE r == [pcall[c] EXCEPT !.pc = pc, !.tx = tx, !.limited = FALSE]
  <2>4. r.pc = pc /\ r.key = pcall[c].key /\ r.tx = tx /\ ~r.limited
    BY <1>1 DEF PayCall
  <2> HIDE DEF r
  <2>5. pcall'[c] = r
    BY <2>3 DEF r
  <2> QED BY <1>1, <1>3, <2>3, <2>4, <2>5
<1>5. request[k].st # "none" /\ \A d \in PayCalls \ {c} : pcall[d].pc \in Owning => pcall[d].key # k
  BY <1>1 DEF PayInv, OneOwner, Owns, Owning
<1>6. HasBatch(k)' /\ \A o \in PayKeys : (HasBatch(o) => HasBatch(o)') /\ (o # k => (HasBatch(o)' => HasBatch(o)))
  BY <1>2 DEF HasBatch
<1>7. \A o \in PayKeys : (Excused(o) => Excused(o)') /\ (Mined(o) => Mined(o)')
  <2>1. \A o \in PayKeys : Twice(o) => Twice(o)'
    BY <1>2 DEF Twice
  <2>2. \A o \in PayKeys : Mined(o) => Mined(o)'
    BY <1>2 DEF Mined, BatchesOf
  <2> QED BY <1>1, <2>1, <2>2 DEF Excused
<1>8. HasBatch(k) => Excused(k)'
  <2>1. HasBatch(k) => Twice(k)'
    BY <1>2 DEF HasBatch, Twice
  <2> QED BY <2>1 DEF Excused
<1>9. Mined(k) => HasBatch(k)
  BY DEF Mined, BatchesOf, HasBatch
<1> USE DEF PayInv, OthersKept, Kept, Paying, Owning
<1>10. PayTypeOK'
  BY <1>1, <1>2, <1>4 DEF PayTypeOK, Batches, Calls, PayCall, PayPcs
<1>11. Counted'
  BY <1>1, <1>2, <1>4 DEF Counted, Keyed
<1>12. TxKnown'
  BY <1>1, <1>2, <1>3, <1>4 DEF TxKnown
<1>13. PaidIsMined'
  <2>1. ASSUME NEW d \in PayCalls, pcall'[d].pc = "resolve" PROVE \A o \in pcall'[d].ok : Mined(o)'
    <3>1. pcall'[d].ok \subseteq PayKeys /\ d # c
      BY <1>4, <2>1 DEF Calls, PayCall
    <3> QED BY <1>4, <1>7, <2>1, <3>1 DEF PaidIsMined
  <2>2. ASSUME NEW d \in PayCalls, pcall'[d].pc \in {"confirm", "credit"} PROVE Mined(pcall[d].key)' /\ pcall'[d].key = pcall[d].key
    <3>1. d # c /\ pcall[d].key \in PayKeys
      BY <1>4, <2>2 DEF Counted, Keyed
    <3> QED BY <1>4, <1>7, <2>2, <3>1 DEF PaidIsMined
  <2>3. ASSUME NEW d \in PayCalls, pcall'[d].pc \in {"confirm", "credit"} PROVE Mined(pcall[d].key)'
    BY <2>2, <2>3
  <2>4. ASSUME NEW o \in PayKeys, o \in credited' \/ request'[o].st = "CONFIRMED" PROVE Mined(o)'
    BY <1>1, <1>7, <2>4 DEF PaidIsMined
  <2> QED BY <2>1, <2>2, <2>4 DEF PaidIsMined, Mined, BatchesOf
<1>14. OneOwner'
  BY <1>1, <1>4, <1>5, <1>6 DEF OneOwner, Owns
<1>15. FirstBatch'
  <2>1. ASSUME NEW d \in PayCalls, pcall'[d].pc = "submit"
        PROVE  pcall'[d].key = pcall[d].key /\ (HasBatch(pcall[d].key)' <=> pcall'[d].limited)
    <3>1. d # c /\ pcall[d].pc = "submit" /\ pcall[d].key \in PayKeys \ {k}
      BY <1>4, <1>5, <2>1 DEF Counted, Keyed
    <3> QED BY <1>4, <1>6, <2>1, <3>1 DEF FirstBatch
  <2> QED BY <2>1 DEF FirstBatch, HasBatch
<1>16. BatchFollowed'
  BY <1>1, <1>4, <1>6 DEF BatchFollowed
<1>17. MarksPending'
  <2>1. ASSUME NEW d \in PayCalls, pcall'[d].pc = "mark" \/ (pcall'[d].pc = "submit" /\ ~pcall'[d].limited)
        PROVE  pcall'[d].key = pcall[d].key /\ (Excused(pcall[d].key)' \/ request'[pcall[d].key].st = "PENDING")
    <3>1. CASE d = c
      BY <1>1, <1>4, <1>7, <1>8, <3>1 DEF MarksPending
    <3>2. CASE d # c
      <4>1. pcall[d].key \in PayKeys
        BY <1>4, <2>1, <3>2 DEF Counted, Keyed
      <4> QED BY <1>1, <1>4, <1>7, <2>1, <3>2, <4>1 DEF MarksPending
    <3> QED BY <3>1, <3>2
  <2>2. ASSUME NEW d \in PayCalls, NEW e \in PayCalls, pcall'[d].pc = "mark", pcall'[e].pc = "resolve",
               pcall'[d].key \in pcall'[e].ok
        PROVE  pcall'[d].key = pcall[d].key /\ Excused(pcall[d].key)'
    <3>1. e # c /\ pcall'[e].ok = pcall[e].ok /\ pcall[e].pc = "resolve"
      BY <1>4, <2>2
    <3>2. CASE d = c
      BY <1>1, <1>4, <1>8, <1>9, <2>2, <3>1, <3>2 DEF PaidIsMined
    <3>3. CASE d # c
      <4>1. pcall[d].key \in PayKeys
        BY <1>4, <2>2, <3>3 DEF Counted, Keyed
      <4> QED BY <1>4, <1>7, <2>2, <3>1, <3>3, <4>1 DEF MarksPending
    <3> QED BY <3>2, <3>3
  <2> QED BY <2>1, <2>2 DEF MarksPending, Excused, Twice
<1>18. CreatesAlone'
  <2>1. Open' = Open /\ Open \subseteq PayKeys
    BY <1>1 DEF Open
  <2> QED BY <1>4, <1>7, <2>1 DEF CreatesAlone
<1> QED BY <1>10, <1>11, <1>12, <1>13, <1>14, <1>15, <1>16, <1>17, <1>18

\* The batch of a call is written to its row, which is open again if it was not.
LEMMA MarkStep ==
  ASSUME PayInv, NEW c \in PayCalls, MarkSubmitted(c)
  PROVE  PayInv'
<1>0. PICK k \in PayKeys : k = pcall[c].key
  BY DEF PayInv, Counted, Keyed, Paying, Owning, MarkSubmitted
<1>1. pcall \in Calls /\ pcall[c] \in PayCall /\ pcall[c].pc = "mark" /\ pcall[c].key = k /\ PayTypeOK
      /\ ~pcall[c].limited /\ request \in [PayKeys -> Requests]
      /\ UNCHANGED <<batch, units, credited, ordered, stops, broken>>
  BY <1>0, TypesNamed DEF PayInv, Counted, MarkSubmitted, Calls
<1>2. pcall' \in Calls /\ OthersKept(c) /\ pcall'[c].pc = "wait" /\ pcall'[c].key = k
      /\ pcall'[c].tx = pcall[c].tx /\ ~pcall'[c].limited
  BY <1>1, GoesKeeps DEF MarkSubmitted, PayPcs
<1>3. pcall[c].tx \in DOMAIN batch /\ batch[pcall[c].tx].key = k
  BY <1>1 DEF PayInv, TxKnown
<1>4. request' \in [PayKeys -> Requests] /\ request'[k].st = "RELAYER_SUBMITTED" /\ request'[k].tx = pcall[c].tx
      /\ \A o \in PayKeys \ {k} : request'[o] = request[o]
  <2> DEFINE r == [NoRow EXCEPT !.st = "RELAYER_SUBMITTED", !.tx = pcall[c].tx]
  <2>1. r \in Requests /\ r.st = "RELAYER_SUBMITTED" /\ r.tx = pcall[c].tx
    BY <1>1 DEF NoRow, Requests, PayCall
  <2>2. request' = [request EXCEPT ![k] = r]
    BY <1>1 DEF MarkSubmitted
  <2> HIDE DEF r
  <2> QED BY <1>1, <2>1, <2>2
<1>5. \A d \in PayCalls \ {c} : pcall[d].pc \in Owning => pcall[d].key # k
  BY <1>1 DEF PayInv, OneOwner, Owns, Owning
<1>6. Excused(k) \/ request[k].st = "PENDING"
  BY <1>1 DEF PayInv, MarksPending
<1> USE DEF PayInv, OthersKept, Kept, Paying, Owning
<1>7. PayTypeOK'
  BY <1>1, <1>2, <1>4 DEF PayTypeOK, Requests, Calls, PayCall, PayPcs
<1>8. Counted' /\ TxKnown'
  BY <1>1, <1>2, <1>3, <1>4 DEF Counted, TxKnown, Keyed
<1>9. PaidIsMined'
  BY <1>1, <1>2, <1>4 DEF PaidIsMined, Mined, BatchesOf
<1>10. OneOwner' /\ FirstBatch'
  BY <1>1, <1>2, <1>4 DEF OneOwner, FirstBatch, Owns, HasBatch
<1>11. BatchFollowed'
  BY <1>1, <1>2 DEF BatchFollowed, HasBatch
<1>12. MarksPending'
  BY <1>1, <1>2, <1>4, <1>5 DEF MarksPending, Excused, Twice, Counted, Keyed
<1>13. CreatesAlone'
  BY <1>1, <1>2, <1>4, <1>6 DEF CreatesAlone, Excused, Twice, Open
<1> QED BY <1>7, <1>8, <1>9, <1>10, <1>11, <1>12, <1>13

LEMMA WaitStep ==
  ASSUME PayInv, NEW c \in PayCalls, WaitMined(c) \/ WaitFails(c) \/ WaitLimited(c)
  PROVE  PayInv'
<1>0. PICK k \in PayKeys : k = pcall[c].key
  BY DEF PayInv, Counted, Keyed, Paying, Owning, WaitMined, WaitFails, WaitLimited
<1>1. pcall \in Calls /\ pcall[c] \in PayCall /\ pcall[c].pc = "wait" /\ pcall[c].key = k
      /\ ~pcall[c].limited /\ UNCHANGED <<request, batch, units, credited, ordered, stops, broken>>
  BY <1>0, TypesNamed DEF PayInv, Counted, WaitMined, WaitFails, WaitLimited, Calls
<1>2. pcall[c].tx \in DOMAIN batch /\ batch[pcall[c].tx].key = k /\ HasBatch(k)
  BY <1>1 DEF PayInv, TxKnown, HasBatch
<1>3. CASE WaitMined(c)
  <2>1. pcall' \in Calls /\ OthersKept(c) /\ pcall'[c].pc = "confirm" /\ pcall'[c].key = k /\ ~pcall'[c].limited
    BY <1>1, <1>3, GoesKeeps DEF WaitMined, PayPcs
  <2>2. Mined(k)
    BY <1>2, <1>3 DEF WaitMined, Mined, BatchesOf
  <2>3. PayTypeOK'
    BY <1>1, <2>1, TypeFrame DEF PayInv
  <2> QED BY <1>1, <2>1, <2>2, <2>3, OwnerMoves DEF Owning
<1>4. ASSUME Goes(c, "fail") PROVE PayInv'
  <2>1. pcall' \in Calls /\ OthersKept(c) /\ pcall'[c].pc = "fail" /\ pcall'[c].key = k /\ ~pcall'[c].limited
    BY <1>1, <1>4, GoesKeeps DEF PayPcs
  <2>2. PayTypeOK'
    BY <1>1, <2>1, TypeFrame DEF PayInv
  <2> QED BY <1>1, <2>1, <2>2, OwnerMoves DEF Owning
<1>5. CASE WaitLimited(c)
  <2> DEFINE s == [pcall[c] EXCEPT !.pc = "submit", !.slot = pcall[c].slot + 1, !.tx = 0, !.limited = TRUE]
  <2>2. CASE pcall[c].slot < BuilderSlots
    <3>1. pcall[c].slot + 1 \in 1 .. BuilderSlots /\ 0 \in 0 .. MaxBatches
      BY <1>1, <2>2, PayAssumption DEF PayAssumption, PayCall
    <3>2. s \in PayCall /\ s.pc = "submit" /\ s.key = k /\ s.limited
      BY <1>1, <3>1 DEF PayCall, PayPcs
    <3>3. pcall' = [pcall EXCEPT ![c] = s]
      BY <1>5, <2>2 DEF WaitLimited
    <3> HIDE DEF s
    <3>4. pcall' \in Calls /\ OthersKept(c) /\ pcall'[c] = s
      BY <1>1, <3>2, <3>3, MoveKeeps
    <3>5. PayTypeOK'
      BY <1>1, <3>4, TypeFrame DEF PayInv
    <3> QED BY <1>1, <1>2, <3>2, <3>4, <3>5, OwnerMoves DEF Owning
  <2>3. CASE ~(pcall[c].slot < BuilderSlots)
    <3>1. Goes(c, "fail")
      BY <1>5, <2>3 DEF WaitLimited
    <3> QED BY <1>4, <3>1
  <2> QED BY <2>2, <2>3
<1> QED BY <1>3, <1>4, <1>5 DEF WaitFails

\* The row of a call that ends is confirmed or failed: no other call owns it.
LEMMA SettleStep ==
  ASSUME PayInv, NEW c \in PayCalls, Confirm(c) \/ PayFails(c)
  PROVE  PayInv'
<1>0. PICK k \in PayKeys : k = pcall[c].key
  BY DEF PayInv, Counted, Keyed, Paying, Owning, Confirm, PayFails
<1>1. pcall \in Calls /\ pcall[c].pc \in Owning /\ pcall[c].key = k /\ PayTypeOK
      /\ request \in [PayKeys -> Requests] /\ broken \subseteq broken' /\ broken' \subseteq broken \cup {k}
      /\ UNCHANGED <<batch, units, credited, ordered, stops>>
  BY <1>0, TypesNamed DEF PayInv, Confirm, PayFails, Owning
<1>2. PICK st \in {"CONFIRMED", "FAILED"} :
        /\ Sets({k}, st)
        /\ st = "CONFIRMED" => Mined(k) /\ Credits(c)
        /\ st = "FAILED" => k \in broken' /\ Ends(c)
  BY <1>1 DEF Confirm, PayFails, PayInv, PaidIsMined
<1>3. request' \in [PayKeys -> Requests] /\ request'[k].st = st /\ \A o \in PayKeys \ {k} : request'[o] = request[o]
  BY <1>1, <1>2, SetsRows
<1>4. /\ pcall' \in Calls /\ OthersKept(c) /\ ~pcall'[c].limited /\ pcall'[c].pc \in {"credit", "idle"}
      /\ pcall'[c].pc = "credit" => pcall'[c].key = k /\ Mined(k)
      /\ pcall'[c].pc = "idle" => k \in broken'
  BY <1>1, <1>2, CreditsKeeps, EndsKeeps
<1>5. st = "CONFIRMED" => Mined(k)
  BY <1>2
<1>6. \A d \in PayCalls \ {c} : pcall[d].pc \in Owning => pcall[d].key # k
  BY <1>1 DEF PayInv, OneOwner, Owns, Owning
<1> USE DEF PayInv, OthersKept, Kept, Paying, Owning
<1>7. PayTypeOK'
  BY <1>1, <1>3, <1>4 DEF PayTypeOK, Requests, Calls, PayCall, PayPcs
<1>8. Counted' /\ TxKnown'
  BY <1>1, <1>3, <1>4 DEF Counted, TxKnown, Keyed
<1>9. PaidIsMined'
  BY <1>1, <1>3, <1>4, <1>5 DEF PaidIsMined, Mined, BatchesOf
<1>10. OneOwner' /\ FirstBatch'
  BY <1>1, <1>3, <1>4 DEF OneOwner, FirstBatch, Owns, HasBatch
<1>11. BatchFollowed'
  BY <1>1, <1>4 DEF BatchFollowed, HasBatch
<1>12. MarksPending'
  BY <1>1, <1>3, <1>4, <1>6 DEF MarksPending, Excused, Twice, Counted, Keyed
<1>13. CreatesAlone'
  BY <1>1, <1>3, <1>4 DEF CreatesAlone, Excused, Twice, Open
<1> QED BY <1>7, <1>8, <1>9, <1>10, <1>11, <1>12, <1>13

LEMMA CreditStep ==
  ASSUME PayInv, NEW c \in PayCalls, LedgerWithdrawal(c) \/ FulfilPurchase(c)
  PROVE  PayInv'
<1>1. pcall \in Calls /\ pcall[c].pc = "credit" /\ pcall[c].key \in PayKeys /\ Mined(pcall[c].key)
      /\ UNCHANGED <<request, batch, units, ordered, stops, broken>> /\ Ends(c)
      /\ credited' = credited \cup {pcall[c].key}
  BY TypesNamed DEF PayInv, LedgerWithdrawal, FulfilPurchase, CreditedNow, PaidIsMined, PayKeys
<1>2. pcall' \in Calls /\ OthersKept(c) /\ pcall'[c].pc = "idle" /\ ~pcall'[c].limited
  BY <1>1, EndsKeeps
<1>3. PayTypeOK'
  BY <1>1, <1>2 DEF PayInv, PayTypeOK, Calls, PayCall, PayPcs
<1> QED BY <1>1, <1>2, <1>3, EndMoves

LEMMA StopStep ==
  ASSUME PayInv, NEW c \in PayCalls, PayStops(c)
  PROVE  PayInv'
<1>1. pcall \in Calls /\ stops < MaxStops /\ stops' = stops + 1 /\ stops \in Nat
      /\ UNCHANGED <<request, batch, units, credited, ordered>> /\ Ends(c)
      /\ broken' = broken \cup ({pcall[c].key} \cap PayKeys)
  BY TypesNamed DEF PayInv, PayStops
<1>2. pcall' \in Calls /\ OthersKept(c) /\ pcall'[c].pc = "idle" /\ ~pcall'[c].limited
  BY <1>1, EndsKeeps
<1>3. PayTypeOK'
  BY <1>1, <1>2, PayAssumption DEF PayAssumption, PayInv, PayTypeOK, Calls, PayCall, PayPcs
<1>4. pcall[c].pc \in Paying => pcall[c].key \in PayKeys
  BY DEF PayInv, Counted, Keyed
<1> QED BY <1>1, <1>2, <1>3, <1>4, EndMoves

LEMMA AgeStep ==
  ASSUME PayInv, NEW k \in PayKeys, Ages(k)
  PROVE  PayInv'
<1>1. request \in [PayKeys -> Requests] /\ PayTypeOK
      /\ UNCHANGED <<batch, units, pcall, credited, ordered, stops, broken>>
  BY TypesNamed DEF PayInv, Ages
<1>2. request' \in [PayKeys -> Requests]
      /\ \A o \in PayKeys : request'[o].st = request[o].st /\ request'[o].tx = request[o].tx
  <2>1. request' = [request EXCEPT ![k] = [request[k] EXCEPT !.old = TRUE]]
    BY DEF Ages
  <2>2. [request[k] EXCEPT !.old = TRUE] \in Requests
    BY <1>1 DEF Requests
  <2> QED BY <1>1, <2>1, <2>2 DEF Requests
<1> USE DEF PayInv
<1>3. PayTypeOK' /\ Counted' /\ FirstBatch' /\ BatchFollowed'
  BY <1>1, <1>2 DEF PayTypeOK, Requests, Counted, FirstBatch, BatchFollowed, HasBatch
<1>4. TxKnown' /\ OneOwner'
  BY <1>1, <1>2 DEF TxKnown, OneOwner, Owns, HasBatch
<1>5. PaidIsMined'
  BY <1>1, <1>2 DEF PaidIsMined, Mined, BatchesOf
<1>6. MarksPending'
  BY <1>1, <1>2 DEF MarksPending, Excused, Twice, Counted, Keyed, Paying, Owning
<1>7. CreatesAlone'
  BY <1>1, <1>2 DEF CreatesAlone, Excused, Twice, Open
<1> QED BY <1>3, <1>4, <1>5, <1>6, <1>7

\* The relayer ends a batch: the keys stay, and what was mined is.
LEMMA RelayerStep ==
  ASSUME PayInv, NEW i \in DOMAIN batch, RelayerEnds(i)
  PROVE  PayInv'
<1>1. batch \in Seq(Batches) /\ PayTypeOK /\ DOMAIN batch = 1 .. Len(batch)
      /\ UNCHANGED <<request, pcall, credited, ordered, stops, broken>>
  BY TypesNamed DEF PayInv, RelayerEnds
<1>2. PICK st \in {"mined", "failed"} : batch' = [batch EXCEPT ![i] = [batch[i] EXCEPT !.st = st]]
  BY DEF RelayerEnds
<1>3. batch[i] \in Batches /\ [batch[i] EXCEPT !.st = st] \in Batches /\ batch[i].st = "queued"
      /\ [batch[i] EXCEPT !.st = st].key = batch[i].key
  <2>1. batch[i] \in Batches
    BY <1>1
  <2> QED BY <2>1 DEF Batches, RelayerEnds
<1>4. batch' \in Seq(Batches) /\ Len(batch') = Len(batch) /\ DOMAIN batch' = DOMAIN batch
  BY <1>1, <1>2, <1>3
<1>5. \A j \in DOMAIN batch : batch'[j].key = batch[j].key /\ (batch[j].st = "mined" => batch'[j].st = "mined")
  BY <1>2, <1>3
<1>6. units' \in 0 .. Deposit
  BY PayAssumption DEF PayAssumption, PayInv, PayTypeOK, RelayerEnds
<1> USE DEF PayInv
<1>7. PayTypeOK'
  BY <1>1, <1>4, <1>6 DEF PayTypeOK, Batches
<1>8. Counted' /\ FirstBatch' /\ BatchFollowed' /\ OneOwner'
  BY <1>1, <1>4, <1>5 DEF Counted, FirstBatch, BatchFollowed, OneOwner, Owns, HasBatch
<1>9. TxKnown'
  BY <1>1, <1>4, <1>5 DEF TxKnown
<1>10. PaidIsMined'
  <2>1. \A k : Mined(k) => Mined(k)'
    BY <1>4, <1>5 DEF Mined, BatchesOf
  <2> QED BY <1>1, <2>1 DEF PaidIsMined
<1>11. \A k : Excused(k) => Excused(k)'
  BY <1>1, <1>4, <1>5 DEF Excused, Twice
<1>12. MarksPending' /\ CreatesAlone'
  BY <1>1, <1>11 DEF MarksPending, CreatesAlone, Open
<1> QED BY <1>7, <1>8, <1>9, <1>10, <1>12

LEMMA PayNextInv == PayInv /\ [PayNext]_payVars => PayInv'
<1> SUFFICES ASSUME PayInv, [PayNext]_payVars PROVE PayInv'
  OBVIOUS
<1>1. CASE UNCHANGED payVars
  <2> USE <1>1 DEF payVars, PayInv
  <2>1. PayTypeOK' /\ Counted' /\ TxKnown' /\ OneOwner' /\ FirstBatch' /\ BatchFollowed'
    BY DEF PayTypeOK, Counted, TxKnown, OneOwner, Owns, FirstBatch, BatchFollowed, HasBatch
  <2>2. PaidIsMined' /\ MarksPending' /\ CreatesAlone'
    BY DEF PaidIsMined, Mined, BatchesOf, MarksPending, CreatesAlone, Excused, Twice, Open
  <2> QED BY <2>1, <2>2
<1>2. ASSUME NEW c \in PayCalls, PayStep(c) PROVE PayInv'
  BY <1>2, LooksStep, ExpireStep, PollStep, ResolveStep, AcquireStep, CountStep, CreateStep, RefusedStep,
     TakenStep, MarkStep, WaitStep, SettleStep, CreditStep DEF PayStep
<1>3. ASSUME NEW c \in PayCalls, PayLooks(c) \/ PayStops(c) PROVE PayInv'
  BY <1>3, LooksStep, StopStep
<1>4. ASSUME NEW c \in PayCalls, NEW k \in Withdrawals, Withdraws(c, k) PROVE PayInv'
  BY <1>4, StartStep DEF PayKeys
<1>5. ASSUME NEW c \in PayCalls, NEW k \in Purchases, BuysFromDeposit(c, k) PROVE PayInv'
  BY <1>5, StartStep DEF PayKeys
<1> QED BY <1>1, <1>2, <1>3, <1>4, <1>5, AgeStep, RelayerStep DEF PayNext, PayNextOf

-----------------------------------------------------------------------------
(* The theorems.                                                           *)

LEMMA PayAlways == PaySpec => []PayInv
BY PayInitInv, PayNextInv, PTL DEF PaySpec

LEMMA PayTypes == PayInv => PayTypeOK
BY DEF PayInv

\* The rows, the batches and the calls keep their types.
THEOREM PayTyped == PaySpec => []PayTypeOK
BY PayTypes, PayAlways, PTL

LEMMA PayPromise == PayInv => PaidIffCredited
<1>1. ASSUME PayInv, NEW k \in PayKeys, Mined(k), k \notin broken, \A c \in PayCalls : pcall[c].key # k
      PROVE  k \in credited
  <2>1. HasBatch(k)
    BY <1>1 DEF Mined, BatchesOf, HasBatch
  <2> QED BY <1>1, <2>1 DEF PayInv, BatchFollowed
<1> QED BY <1>1 DEF PaidIffCredited, PayInv, PaidIsMined

\* For every number of calls, keys, credentials and stops: what is confirmed or credited was
\* mined, and what was mined is credited, unless its request was failed or its call was stopped
\* (polymarketRelayerDeposit.ts, the recovery and the replay by key).
THEOREM PaidCorrect == PaySpec => []PaidIffCredited
BY PayPromise, PayAlways, PTL

-----------------------------------------------------------------------------
(* What a step may not do.                                                 *)

\* Only a submission that is taken adds a batch.
LEMMA BatchAdded ==
  ASSUME PayInv, PayNext, NEW k \in PayKeys, BatchesOf(k)' # BatchesOf(k)
  PROVE  \E c \in PayCalls : SubmitTaken(c) /\ pcall[c].key = k
<1>0. ~(UNCHANGED batch)
  BY DEF BatchesOf
<1>1. ASSUME NEW i \in DOMAIN batch, RelayerEnds(i) PROVE FALSE
  <2>1. batch \in Seq(Batches)
    BY TypesNamed DEF PayInv
  <2>2. PICK st \in {"mined", "failed"} : batch' = [batch EXCEPT ![i] = [batch[i] EXCEPT !.st = st]]
    BY <1>1 DEF RelayerEnds
  <2>3. batch[i] \in Batches
    BY <2>1
  <2>4. DOMAIN batch' = DOMAIN batch /\ \A j \in DOMAIN batch : batch'[j].key = batch[j].key
    BY <2>2, <2>3 DEF Batches
  <2> QED BY <2>4 DEF BatchesOf
<1>2. ASSUME NEW c \in PayCalls, PayStep(c), ~SubmitTaken(c) PROVE FALSE
  BY <1>0, <1>2 DEF PayStep, RecoverReadStale, RecoverExpire, RecoverPoll, RecoverResolve, Acquire, CountOpen,
     CreateRow, SubmitRefused, MarkSubmitted, WaitMined, WaitFails, WaitLimited, Confirm, PayFails,
     LedgerWithdrawal, FulfilPurchase, CreditedNow
<1>3. ASSUME NEW c \in PayCalls, NEW o, PayLooks(c) \/ PayStops(c) \/ Withdraws(c, o) \/ BuysFromDeposit(c, o)
      PROVE  FALSE
  BY <1>0, <1>3 DEF PayLooks, PayStops, Withdraws, BuysFromDeposit
<1>4. ASSUME NEW o \in PayKeys, Ages(o) PROVE FALSE
  BY <1>0, <1>4 DEF Ages
<1>5. PICK c \in PayCalls : SubmitTaken(c)
  BY <1>1, <1>2, <1>3, <1>4 DEF PayNext, PayNextOf
<1>6. pcall[c].key \in PayKeys
  BY <1>5 DEF PayInv, Counted, Keyed, Paying, Owning, SubmitTaken
<1>7. pcall[c].key = k
  BY <1>5, <1>6, BatchJoins DEF SubmitTaken, BatchesOf
<1> QED BY <1>5, <1>7

\* For every number of calls: a second batch of a key is submitted only by a call that was
\* refused for its rate while it waited for the first (polymarketBuilderPool.ts, the callback
\* repeated with the next credential).
THEOREM BatchesCorrect == PaySpec => SecondBatchNeedsRateLimit
<1>1. ASSUME PayInv, [PayNext]_payVars
      PROVE  [\A k \in PayKeys : BatchesOf(k) /= {} /\ BatchesOf(k)' /= BatchesOf(k)
                => \E c \in PayCalls : pcall[c].key = k /\ pcall[c].limited]_payVars
  <2> SUFFICES ASSUME PayNext, NEW k \in PayKeys, BatchesOf(k) /= {}, BatchesOf(k)' /= BatchesOf(k)
               PROVE  \E c \in PayCalls : pcall[c].key = k /\ pcall[c].limited
    BY <1>1
  <2>1. PICK c \in PayCalls : SubmitTaken(c) /\ pcall[c].key = k
    BY <1>1, BatchAdded
  <2>2. HasBatch(k)
    BY DEF BatchesOf, HasBatch
  <2>3. pcall[c].limited
    BY <1>1, <2>1, <2>2 DEF PayInv, FirstBatch, SubmitTaken
  <2> QED BY <2>1, <2>3
<1> QED BY <1>1, PayAlways, PTL DEF PaySpec, SecondBatchNeedsRateLimit

LEMMA TwiceCounts ==
  ASSUME PayInv, NEW k, Twice(k)
  PROVE  Cardinality(BatchesOf(k)) > 1
<1>1. PICK i, j \in DOMAIN batch : i # j /\ batch[i].key = k /\ batch[j].key = k
  BY DEF Twice
<1>2. batch \in Seq(Batches) /\ Len(batch) \in Nat /\ DOMAIN batch = 1 .. Len(batch)
  BY TypesNamed DEF PayInv
<1>3. IsFiniteSet(BatchesOf(k))
  <2>1. IsFiniteSet(1 .. Len(batch))
    BY <1>2, FS_Interval
  <2> QED BY <1>2, <2>1, FS_Subset DEF BatchesOf
<1>4. IsFiniteSet({i}) /\ Cardinality({i}) = 1
  BY FS_Singleton
<1>5. IsFiniteSet({i} \cup {j}) /\ Cardinality({i} \cup {j}) = 2
  <2>1. j \notin {i}
    BY <1>1
  <2>2. Cardinality({i} \cup {j}) = Cardinality({i}) + 1 /\ IsFiniteSet({i} \cup {j})
    BY <1>4, <2>1, FS_AddElement
  <2> QED BY <1>4, <2>2
<1>6. {i} \cup {j} \subseteq BatchesOf(k)
  BY <1>1 DEF BatchesOf
<1>7. Cardinality({i} \cup {j}) <= Cardinality(BatchesOf(k)) /\ Cardinality(BatchesOf(k)) \in Nat
  BY <1>3, <1>6, FS_Subset, FS_CardinalityType
<1> QED BY <1>5, <1>7

\* Only a row that is created, or a batch that is marked, opens a request.
LEMMA RequestOpens ==
  ASSUME PayInv, PayNext, NEW k \in PayKeys, k \in Open', k \notin Open
  PROVE  \E c \in PayCalls :
           pcall[c].key = k /\ (pcall[c].pc = "mark" \/ (pcall[c].pc = "create" /\ CreateRow(c)))
<1>0. request \in [PayKeys -> Requests] /\ ~(UNCHANGED request)
      /\ request'[k].st \in {"PENDING", "RELAYER_SUBMITTED"} /\ request'[k].st # request[k].st
  BY TypesNamed DEF PayInv, Open
<1>1. ASSUME NEW c \in PayCalls, RecoverExpire(c) \/ Confirm(c) \/ PayFails(c) PROVE FALSE
  <2>1. Sets(pcall[c].bad, "FAILED") \/ Sets({pcall[c].key}, "CONFIRMED") \/ Sets({pcall[c].key}, "FAILED")
    BY <1>1 DEF RecoverExpire, Confirm, PayFails
  <2>2. \A keys, st : st \in {"CONFIRMED", "FAILED"} /\ Sets(keys, st) => request'[k] = request[k] \/ request'[k].st = st
    BY <1>0, SetsRows
  <2> QED BY <1>0, <2>1, <2>2
<1>2. ASSUME NEW c \in PayCalls, RecoverResolve(c) PROVE FALSE
  <2>1. request'[k] \in {[NoRow EXCEPT !.st = "CONFIRMED"], [NoRow EXCEPT !.st = "FAILED"], request[k]}
    BY <1>2 DEF RecoverResolve
  <2> QED BY <1>0, <2>1, RowTyped
<1>3. ASSUME NEW o \in PayKeys, Ages(o) PROVE FALSE
  <2>1. request' = [request EXCEPT ![o] = [request[o] EXCEPT !.old = TRUE]]
    BY <1>3 DEF Ages
  <2>2. [request[o] EXCEPT !.old = TRUE].st = request[o].st
    BY <1>0 DEF Requests
  <2> QED BY <1>0, <2>1, <2>2
<1>4. ASSUME NEW i \in DOMAIN batch, RelayerEnds(i) PROVE FALSE
  BY <1>0, <1>4 DEF RelayerEnds
<1>5. ASSUME NEW c \in PayCalls, NEW o, PayLooks(c) \/ PayStops(c) \/ Withdraws(c, o) \/ BuysFromDeposit(c, o)
      PROVE  FALSE
  BY <1>0, <1>5 DEF PayLooks, PayStops, Withdraws, BuysFromDeposit
<1>6. PICK c \in PayCalls : PayStep(c)
  BY <1>3, <1>4, <1>5 DEF PayNext, PayNextOf
<1>7. MarkSubmitted(c) \/ CreateRow(c)
  BY <1>0, <1>1, <1>2, <1>6 DEF PayStep, RecoverReadStale, RecoverPoll, Acquire, CountOpen, SubmitRefused,
     SubmitTaken, WaitMined, WaitFails, WaitLimited, LedgerWithdrawal, FulfilPurchase, CreditedNow
<1>8. ASSUME MarkSubmitted(c) PROVE pcall[c].key = k /\ pcall[c].pc = "mark"
  BY <1>0, <1>8 DEF MarkSubmitted
<1>9. ASSUME CreateRow(c) PROVE pcall[c].key = k /\ pcall[c].pc = "create"
  BY <1>0, <1>9 DEF CreateRow
<1> QED BY <1>7, <1>8, <1>9

\* For every number of calls: two requests are open together only when one was created between
\* the count and the create of the other, or after one was settled by another call or paid twice
\* (polymarketRelayerDeposit.ts, a count and a create in a READ COMMITTED transaction).
THEOREM OpensCorrect == PaySpec => SecondOpenNeedsOverlap
<1>1. ASSUME PayInv, [PayNext]_payVars
      PROVE  [\A k \in Open' \ Open : Open /= {}
                => \/ \E o \in Open \cup {k} : o \in broken \/ Cardinality(BatchesOf(o)) > 1
                   \/ \E c \in PayCalls : pcall[c].key = k /\ pcall[c].raced]_payVars
  <2> SUFFICES ASSUME PayNext, NEW k \in Open' \ Open, NEW o \in Open,
                      ~\E c \in PayCalls : pcall[c].key = k /\ pcall[c].raced
               PROVE  \E e \in Open \cup {k} : e \in broken \/ Cardinality(BatchesOf(e)) > 1
    BY <1>1
  <2>1. k \in PayKeys /\ \A e : Excused(e) => e \in broken \/ Cardinality(BatchesOf(e)) > 1
    BY <1>1, TwiceCounts DEF Open, Excused
  <2>2. PICK c \in PayCalls :
          pcall[c].key = k /\ (pcall[c].pc = "mark" \/ (pcall[c].pc = "create" /\ CreateRow(c)))
    BY <1>1, <2>1, RequestOpens
  <2>3. CASE pcall[c].pc = "mark"
    <3>1. Excused(k)
      BY <1>1, <2>1, <2>2, <2>3 DEF PayInv, MarksPending, Open
    <3> QED BY <2>1, <3>1
  <2>4. CASE pcall[c].pc = "create"
    <3>1. Excused(o)
      BY <1>1, <2>2, <2>4 DEF PayInv, CreatesAlone
    <3> QED BY <2>1, <3>1
  <2> QED BY <2>2, <2>3, <2>4
<1> QED BY <1>1, PayAlways, PTL DEF PaySpec, SecondOpenNeedsOverlap

-----------------------------------------------------------------------------
(***************************************************************************)
(* The forwards of deposits.                                               *)
(***************************************************************************)
Transfers == [amount : 1 .. MaxDeposits, st : {"pending", "mined", "reverted"},
              debit : BOOLEAN, lost : BOOLEAN, raced : BOOLEAN]
RequestRows == [key : FwdKeys, st : {"PENDING", "BROADCASTED", "FAILED"}, by : FwdCalls]
FwdPcs == {"idle", "existing", "drop", "create", "gas", "sign", "send", "mark", "debit", "wait"}
FwdState == [pc : FwdPcs, piped : BOOLEAN, key : FwdKeys, was : FwdCalls \cup {"none"},
             amount : 0 .. MaxDeposits, nonce : 0 .. MaxSent, tx : 0 .. MaxSent]

FwdMoneyOK == deposited \in 0 .. MaxDeposits /\ eoa \in 0 .. deposited /\ faults \in 0 .. MaxFaults
SentOK == sent \in Seq(Transfers) /\ Len(sent) <= MaxSent
FwdCallsOK ==
  /\ fcall \in [FwdCalls -> FwdState]
  /\ \A c \in FwdCalls : /\ fcall[c].pc \in {"gas", "sign", "send"} => fcall[c].amount > 0
                         /\ fcall[c].pc \in {"mark", "debit", "wait"} => fcall[c].tx \in 1 .. Len(sent)
RowsOK == rows \subseteq RequestRows

\* A transfer whose call goes on is debited or about to be.
Owed ==
  \A i \in 1 .. Len(sent) : ~sent[i].lost /\ ~sent[i].debit =>
     \E c \in FwdCalls : fcall[c].tx = i /\ fcall[c].pc \in {"mark", "debit"}

\* A transfer that was broadcast alone is the first the chain mines, and it is funded.
Funded ==
  \A i \in 1 .. Len(sent) : ~sent[i].raced =>
     /\ sent[i].st # "reverted"
     /\ sent[i].st = "pending" =>
           eoa >= sent[i].amount /\ \A j \in 1 .. Len(sent) : j < i => sent[j].st # "pending"

FwdInv == FwdMoneyOK /\ SentOK /\ FwdCallsOK /\ RowsOK /\ Owed /\ Funded
-----------------------------------------------------------------------------
LEMMA NoFwdTyped == NoFwd \in FwdState /\ NoFwd.pc = "idle" /\ NoFwd.tx = 0
BY ForwardAssumption DEF NoFwd, FwdState, FwdPcs, FwdKeys

LEMMA FwdInitInv == FwdInit => FwdInv
<1> SUFFICES ASSUME FwdInit PROVE FwdInv
  OBVIOUS
<1>1. FwdMoneyOK /\ RowsOK
  BY ForwardAssumption DEF FwdInit, FwdMoneyOK, RowsOK
<1>2. SentOK /\ Len(sent) = 0
  BY ForwardAssumption DEF FwdInit, SentOK
<1>3. FwdCallsOK
  BY NoFwdTyped DEF FwdInit, FwdCallsOK
<1> QED
  BY <1>1, <1>2, <1>3 DEF FwdInv, Owed, Funded

\* One call takes another state.
LEMMA FwdCallMoves ==
  ASSUME FwdCallsOK, SentOK, NEW c \in FwdCalls, NEW r \in FwdState, fcall' = [fcall EXCEPT ![c] = r],
         r.pc \in {"gas", "sign", "send"} => r.amount > 0,
         r.pc \in {"mark", "debit", "wait"} => r.tx \in 1 .. Len(sent'),
         Len(sent') \in Nat, Len(sent) <= Len(sent')
  PROVE  /\ FwdCallsOK' /\ fcall'[c] = r
         /\ \A d \in FwdCalls : d # c => fcall'[d] = fcall[d]
<1>1. Len(sent) \in Nat
  BY DEF SentOK
<1>2. fcall' \in [FwdCalls -> FwdState] /\ fcall'[c] = r /\ \A d \in FwdCalls : d # c => fcall'[d] = fcall[d]
  BY DEF FwdCallsOK
<1>3. ASSUME NEW d \in FwdCalls
      PROVE  /\ fcall'[d].pc \in {"gas", "sign", "send"} => fcall'[d].amount > 0
             /\ fcall'[d].pc \in {"mark", "debit", "wait"} => fcall'[d].tx \in 1 .. Len(sent')
  <2>1. CASE d = c
    BY <2>1, <1>2
  <2>2. CASE d # c
    BY <2>2, <1>1, <1>2 DEF FwdCallsOK
  <2> QED
    BY <2>1, <2>2
<1> QED
  BY <1>2, <1>3 DEF FwdCallsOK

\* The rows of a call get another status.
LEMMA MarkedRows ==
  ASSUME RowsOK, NEW c \in FwdCalls, NEW st \in {"PENDING", "BROADCASTED", "FAILED"}
  PROVE  Marked(c, st) \subseteq RequestRows
BY DEF RowsOK, Marked, Mine, RequestRows

\* Nothing is sent or mined, and a call moves that has nothing to debit.
LEMMA QuietStep ==
  ASSUME FwdInv, NEW c \in FwdCalls, NEW r \in FwdState, fcall' = [fcall EXCEPT ![c] = r],
         r.pc \in {"gas", "sign", "send"} => r.amount > 0, r.pc \notin {"mark", "debit", "wait"},
         fcall[c].pc \notin {"mark", "debit"},
         UNCHANGED <<deposited, eoa, sent>>, faults' \in 0 .. MaxFaults, rows' \subseteq RequestRows
  PROVE  FwdInv'
<1> USE DEF FwdInv
<1>1. Len(sent) \in Nat
  BY DEF SentOK
<1>2. FwdCallsOK' /\ \A d \in FwdCalls : d # c => fcall'[d] = fcall[d]
  <2>1. Len(sent') \in Nat /\ Len(sent) <= Len(sent')
    BY <1>1
  <2>2. fcall[c] \in FwdState
    BY DEF FwdCallsOK
  <2> QED
    BY <2>1, FwdCallMoves
<1>3. FwdMoneyOK' /\ SentOK' /\ RowsOK' /\ Funded'
  BY DEF FwdMoneyOK, SentOK, RowsOK, Funded
<1>4. Owed'
  BY <1>2 DEF Owed
<1> QED
  BY <1>2, <1>3, <1>4

\* A field of one transfer is set.
LEMMA SentSet ==
  ASSUME SentOK, NEW i \in 1 .. Len(sent), NEW r \in Transfers, sent' = [sent EXCEPT ![i] = r]
  PROVE  /\ SentOK' /\ Len(sent') = Len(sent) /\ sent'[i] = r
         /\ \A j \in 1 .. Len(sent) : j # i => sent'[j] = sent[j]
<1>1. sent' \in Seq(Transfers) /\ Len(sent') = Len(sent)
  BY ExceptSeq DEF SentOK
<1> QED
  BY <1>1 DEF SentOK
-----------------------------------------------------------------------------
(* One lemma for each action.                                              *)

\* A call that has nothing to debit quits.
LEMMA QuitStep ==
  ASSUME FwdInv, NEW c \in FwdCalls, Quits(c), fcall[c].pc \notin {"mark", "debit"},
         UNCHANGED <<deposited, eoa, sent>>, faults' \in 0 .. MaxFaults, rows' \subseteq RequestRows
  PROVE  FwdInv'
BY QuietStep, NoFwdTyped DEF Quits

\* A call that has nothing to debit goes on.
LEMMA DoesStep ==
  ASSUME FwdInv, NEW c \in FwdCalls, NEW pc \in {"existing", "drop", "create"}, Does(c, pc),
         fcall[c].pc \notin {"mark", "debit"},
         UNCHANGED <<deposited, eoa, sent, faults>>, rows' \subseteq RequestRows
  PROVE  FwdInv'
<1> DEFINE r == [fcall[c] EXCEPT !.pc = pc]
<1>1. r \in FwdState /\ r.pc = pc
  BY DEF FwdInv, FwdCallsOK, FwdState, FwdPcs
<1>2. fcall' = [fcall EXCEPT ![c] = r] /\ faults' \in 0 .. MaxFaults
  BY DEF Does, FwdInv, FwdMoneyOK
<1> HIDE DEF r
<1> QED
  BY <1>1, <1>2, QuietStep

LEMMA DepositedInv == ASSUME FwdInv, Deposited PROVE FwdInv'
<1> USE DEF FwdInv
<1>1. FwdMoneyOK' /\ eoa' \in Nat /\ eoa \in Nat /\ eoa' = eoa + 1
  BY ForwardAssumption DEF FwdMoneyOK, Deposited
<1>2. SentOK' /\ FwdCallsOK' /\ RowsOK' /\ Owed'
  BY DEF Deposited, SentOK, FwdCallsOK, RowsOK, Owed
<1>3. \A i \in 1 .. Len(sent) : sent[i].amount \in Nat
  <2>1. \A i \in 1 .. Len(sent) : sent[i] \in Transfers
    BY DEF SentOK
  <2> QED
    BY <2>1, ForwardAssumption DEF Transfers
<1>4. Funded'
  <2>1. sent' = sent
    BY DEF Deposited
  <2>2. \A i \in 1 .. Len(sent) : eoa >= sent[i].amount => eoa' >= sent[i].amount
    BY <1>1, <1>3
  <2> QED
    BY <2>1, <2>2 DEF Funded
<1> QED
  BY <1>1, <1>2, <1>4

LEMMA ForwardsInv ==
  ASSUME FwdInv, NEW c \in FwdCalls, NEW piped \in BOOLEAN, NEW d \in 0 .. deposited, Forwards(c, piped, d)
  PROVE  FwdInv'
<1> DEFINE k == [dep |-> d, bal |-> IF d = 0 THEN eoa ELSE 0, nonce |-> IF d = 0 THEN Len(sent) ELSE 0]
<1> DEFINE r == [NoFwd EXCEPT !.pc = "existing", !.piped = piped, !.key = k]
<1>1. k \in FwdKeys
  <2>1. d \in 0 .. MaxDeposits /\ eoa \in 0 .. MaxDeposits /\ Len(sent) \in 0 .. MaxSent
    BY ForwardAssumption DEF FwdInv, FwdMoneyOK, SentOK
  <2>2. CASE d = 0
    BY <2>1, <2>2 DEF FwdKeys
  <2>3. CASE d # 0
    BY <2>1, <2>3, ForwardAssumption DEF FwdKeys
  <2> QED
    BY <2>2, <2>3
<1>2. fcall' = [fcall EXCEPT ![c] = r] /\ fcall[c].pc = "idle"
  BY DEF Forwards, Is
<1> HIDE DEF k
<1>3. r \in FwdState /\ r.pc = "existing"
  BY <1>1, NoFwdTyped DEF FwdState, FwdPcs
<1> HIDE DEF r
<1>4. faults' \in 0 .. MaxFaults /\ rows' \subseteq RequestRows /\ UNCHANGED <<deposited, eoa, sent>>
  BY DEF Forwards, FwdInv, FwdMoneyOK, RowsOK
<1> QED
  BY <1>2, <1>3, <1>4, QuietStep

LEMMA ReadExistingInv ==
  ASSUME FwdInv, NEW c \in FwdCalls, ReadExisting(c) PROVE FwdInv'
<1>1. /\ UNCHANGED <<deposited, eoa, sent, faults>> /\ rows' \subseteq RequestRows
      /\ faults' \in 0 .. MaxFaults /\ fcall[c].pc = "existing"
  BY DEF ReadExisting, FwdInv, RowsOK, FwdMoneyOK, Is
<1>2. \/ Does(c, "create") \/ Quits(c)
      \/ \E w \in rows : fcall' = [fcall EXCEPT ![c].pc = "drop", ![c].was = w.by]
  BY DEF ReadExisting, RowOf
<1>3. ASSUME NEW w \in rows, fcall' = [fcall EXCEPT ![c].pc = "drop", ![c].was = w.by]
      PROVE  FwdInv'
  <2> DEFINE r == [fcall[c] EXCEPT !.pc = "drop", !.was = w.by]
  <2>1. w.by \in FwdCalls
    BY DEF FwdInv, RowsOK, RequestRows
  <2>2. r \in FwdState /\ r.pc = "drop"
    BY <2>1 DEF FwdInv, FwdCallsOK, FwdState, FwdPcs
  <2>3. fcall' = [fcall EXCEPT ![c] = r]
    BY <1>3 DEF FwdInv, FwdCallsOK
  <2> HIDE DEF r
  <2> QED
    BY <1>1, <2>2, <2>3, QuietStep
<1> QED
  BY <1>1, <1>2, <1>3, DoesStep, QuitStep

LEMMA DropInv ==
  ASSUME FwdInv, NEW c \in FwdCalls, DropExisting(c) PROVE FwdInv'
<1>1. /\ UNCHANGED <<deposited, eoa, sent, faults>> /\ rows' \subseteq RequestRows
      /\ faults' \in 0 .. MaxFaults /\ fcall[c].pc = "drop"
      /\ Does(c, "create") \/ Quits(c)
  BY DEF DropExisting, FwdInv, RowsOK, FwdMoneyOK, Is
<1> QED
  BY <1>1, DoesStep, QuitStep

LEMMA CreateInv ==
  ASSUME FwdInv, NEW c \in FwdCalls, CreateRequest(c) PROVE FwdInv'
<1>1. /\ UNCHANGED <<deposited, eoa, sent, faults>>
      /\ faults' \in 0 .. MaxFaults /\ fcall[c].pc = "create" /\ fcall[c] \in FwdState
  BY DEF CreateRequest, FwdInv, FwdCallsOK, FwdMoneyOK, Is
<1>2. CASE eoa = 0 \/ RowOf(fcall[c].key) # {}
  <2>1. Quits(c) /\ rows' \subseteq RequestRows
    BY <1>2 DEF CreateRequest, FwdInv, RowsOK
  <2> QED
    BY <1>1, <2>1, QuitStep
<1>3. CASE ~(eoa = 0 \/ RowOf(fcall[c].key) # {})
  <2> DEFINE r == [fcall[c] EXCEPT !.pc = "gas", !.amount = eoa]
  <2>1. eoa \in 0 .. MaxDeposits /\ eoa > 0
    BY <1>3, ForwardAssumption DEF FwdInv, FwdMoneyOK
  <2>2. r \in FwdState /\ r.pc = "gas" /\ r.amount > 0
    BY <1>1, <2>1 DEF FwdState, FwdPcs
  <2>3. fcall' = [fcall EXCEPT ![c] = r]
    BY <1>3 DEF CreateRequest, FwdInv, FwdCallsOK
  <2>4. rows' \subseteq RequestRows
    BY <1>1, <1>3 DEF CreateRequest, FwdInv, RowsOK, RequestRows, FwdState
  <2> HIDE DEF r
  <2> QED
    BY <1>1, <2>2, <2>3, <2>4, QuietStep
<1> QED
  BY <1>2, <1>3

LEMMA FwdGasInv ==
  ASSUME FwdInv, NEW c \in FwdCalls, ChecksGas(c) PROVE FwdInv'
<1>1. /\ UNCHANGED <<deposited, eoa, sent, faults>>
      /\ faults' \in 0 .. MaxFaults /\ fcall[c].pc = "gas" /\ fcall[c] \in FwdState /\ fcall[c].amount > 0
  BY DEF ChecksGas, FwdInv, FwdCallsOK, FwdMoneyOK, Is
<1>2. CASE rows' = Marked(c, "FAILED") /\ Quits(c)
  <2>1. rows' \subseteq RequestRows
    BY <1>2, MarkedRows DEF FwdInv
  <2> QED
    BY <1>1, <1>2, <2>1, QuitStep
<1>3. CASE Does(c, "sign") /\ UNCHANGED rows
  <2> DEFINE r == [fcall[c] EXCEPT !.pc = "sign"]
  <2>1. r \in FwdState /\ r.pc = "sign" /\ r.amount > 0
    BY <1>1 DEF FwdState, FwdPcs
  <2>2. fcall' = [fcall EXCEPT ![c] = r] /\ rows' \subseteq RequestRows
    BY <1>3 DEF Does, FwdInv, RowsOK
  <2> HIDE DEF r
  <2> QED
    BY <1>1, <2>1, <2>2, QuietStep
<1> QED
  BY <1>2, <1>3 DEF ChecksGas

LEMMA SignsInv ==
  ASSUME FwdInv, NEW c \in FwdCalls, Signs(c) PROVE FwdInv'
<1>1. /\ UNCHANGED <<deposited, eoa, sent, faults>>
      /\ faults' \in 0 .. MaxFaults /\ fcall[c].pc = "sign" /\ fcall[c] \in FwdState /\ fcall[c].amount > 0
  BY DEF Signs, FwdInv, FwdCallsOK, FwdMoneyOK, Is
<1>2. CASE eoa < fcall[c].amount
  <2>1. Quits(c) /\ rows' \subseteq RequestRows
    BY <1>2, MarkedRows DEF Signs, FwdInv
  <2> QED
    BY <1>1, <2>1, QuitStep
<1>3. CASE ~(eoa < fcall[c].amount)
  <2> DEFINE r == [fcall[c] EXCEPT !.pc = "send", !.nonce = Len(sent)]
  <2>1. Len(sent) \in 0 .. MaxSent
    BY DEF FwdInv, SentOK
  <2>2. r \in FwdState /\ r.pc = "send" /\ r.amount > 0
    BY <1>1, <2>1 DEF FwdState, FwdPcs
  <2>3. fcall' = [fcall EXCEPT ![c] = r] /\ rows' \subseteq RequestRows
    BY <1>3 DEF Signs, FwdInv, FwdCallsOK, RowsOK
  <2> HIDE DEF r
  <2> QED
    BY <1>1, <2>2, <2>3, QuietStep
<1> QED
  BY <1>2, <1>3

LEMMA RefusedInv ==
  ASSUME FwdInv, NEW c \in FwdCalls, BroadcastFails(c) PROVE FwdInv'
<1>1. /\ UNCHANGED <<deposited, eoa, sent, faults>> /\ rows' \subseteq RequestRows
      /\ faults' \in 0 .. MaxFaults /\ fcall[c].pc = "send" /\ Quits(c)
  BY MarkedRows DEF BroadcastFails, FwdInv, FwdMoneyOK, Is
<1> QED
  BY <1>1, QuitStep

\* The new transfer is funded unless another is pending; its call goes on to the debit, or it
\* is lost.
LEMMA BroadcastInv ==
  ASSUME FwdInv, NEW c \in FwdCalls, Broadcast(c) PROVE FwdInv'
<1> USE DEF FwdInv
<1> DEFINE n == Len(sent) + 1
<1>1. PICK answered \in BOOLEAN :
        /\ answered \/ faults < MaxFaults
        /\ sent' = Append(sent, [amount |-> fcall[c].amount, st |-> "pending", debit |-> FALSE,
                                 lost |-> ~answered, raced |-> Pending # {}])
        /\ IF answered
           THEN /\ fcall' = [fcall EXCEPT ![c].pc = "mark", ![c].tx = n]
                /\ UNCHANGED <<rows, faults>>
           ELSE rows' = Marked(c, "FAILED") /\ Quits(c) /\ faults' = faults + 1
  BY DEF Broadcast
<1>2. /\ fcall[c] \in FwdState /\ fcall[c].pc = "send" /\ fcall[c].amount \in 1 .. MaxDeposits
      /\ eoa >= fcall[c].amount /\ UNCHANGED <<deposited, eoa>> /\ Len(sent) < MaxSent
  <2>1. fcall[c] \in FwdState /\ fcall[c].pc = "send" /\ fcall[c].amount > 0
    BY DEF FwdCallsOK, Broadcast, Is
  <2>2. fcall[c].amount \in 0 .. MaxDeposits /\ eoa \in Nat
    BY <2>1 DEF FwdState, FwdMoneyOK
  <2> QED
    BY <2>1, <2>2 DEF Broadcast, Refused
<1> DEFINE x == [amount |-> fcall[c].amount, st |-> "pending", debit |-> FALSE,
                 lost |-> ~answered, raced |-> Pending # {}]
<1>3. x \in Transfers /\ x.st = "pending" /\ x.lost = ~answered /\ x.raced = (Pending # {})
      /\ x.amount = fcall[c].amount /\ x.debit = FALSE
  BY <1>2 DEF Transfers
<1>4. sent' = Append(sent, x)
  BY <1>1
<1> HIDE DEF x
<1>5. /\ SentOK' /\ Len(sent') = n /\ sent'[n] = x /\ Len(sent) \in Nat /\ n \in 1 .. MaxSent
      /\ \A j \in 1 .. Len(sent) : sent'[j] = sent[j]
  BY <1>2, <1>3, <1>4, ForwardAssumption DEF SentOK
<1>6. FwdMoneyOK' /\ RowsOK'
  <2>1. faults' \in 0 .. MaxFaults
    BY <1>1, ForwardAssumption DEF FwdMoneyOK
  <2>2. RowsOK'
    BY <1>1, MarkedRows DEF RowsOK
  <2> QED
    BY <1>2, <2>1, <2>2 DEF FwdMoneyOK
<1>7. Funded'
  <2> SUFFICES ASSUME NEW i \in 1 .. n, ~sent'[i].raced
               PROVE  /\ sent'[i].st # "reverted"
                      /\ sent'[i].st = "pending" =>
                            eoa >= sent'[i].amount /\ \A j \in 1 .. n : j < i => sent'[j].st # "pending"
    BY <1>2, <1>5 DEF Funded
  <2>1. CASE i = n
    <3>1. Pending = {}
      BY <1>3, <1>5, <2>1
    <3>2. \A j \in 1 .. Len(sent) : sent[j].st # "pending"
      BY <3>1 DEF Pending, SentOK
    <3> QED
      BY <1>2, <1>3, <1>5, <2>1, <3>2
  <2>2. CASE i # n
    <3>1. i \in 1 .. Len(sent) /\ \A j \in 1 .. n : j < i => j \in 1 .. Len(sent)
      BY <1>5, <2>2
    <3> QED
      BY <1>5, <3>1 DEF Funded
  <2> QED
    BY <2>1, <2>2
<1>8. CASE answered
  <2> DEFINE r == [fcall[c] EXCEPT !.pc = "mark", !.tx = n]
  <2>1. fcall' = [fcall EXCEPT ![c] = r]
    BY <1>1, <1>8 DEF FwdCallsOK
  <2>2. r \in FwdState /\ r.pc = "mark" /\ r.tx = n
    <3>1. n \in 0 .. MaxSent
      BY <1>5
    <3> HIDE DEF n
    <3> QED
      BY <1>2, <3>1 DEF FwdState, FwdPcs
  <2> HIDE DEF r
  <2>3. FwdCallsOK' /\ fcall'[c] = r /\ \A d \in FwdCalls : d # c => fcall'[d] = fcall[d]
    <3>1. Len(sent') \in Nat /\ Len(sent) <= Len(sent') /\ r.tx \in 1 .. Len(sent')
      BY <1>5, <2>2
    <3> QED
      BY <2>1, <2>2, <3>1, FwdCallMoves
  <2>4. Owed'
    <3> SUFFICES ASSUME NEW i \in 1 .. n, ~sent'[i].lost, ~sent'[i].debit
                 PROVE  \E e \in FwdCalls : fcall'[e].tx = i /\ fcall'[e].pc \in {"mark", "debit"}
      BY <1>5 DEF Owed
    <3>1. CASE i = n
      BY <3>1, <2>2, <2>3
    <3>2. CASE i # n
      <4>1. i \in 1 .. Len(sent) /\ sent'[i] = sent[i]
        BY <1>5, <3>2
      <4>2. PICK e \in FwdCalls : fcall[e].tx = i /\ fcall[e].pc \in {"mark", "debit"}
        BY <4>1 DEF Owed
      <4> QED
        BY <4>2, <1>2, <2>3
    <3> QED
      BY <3>1, <3>2
  <2> QED
    BY <1>5, <1>6, <1>7, <2>3, <2>4
<1>9. CASE ~answered
  <2>1. FwdCallsOK' /\ \A d \in FwdCalls : d # c => fcall'[d] = fcall[d]
    <3>1. Len(sent') \in Nat /\ Len(sent) <= Len(sent')
      BY <1>5
    <3> QED
      BY <1>1, <1>9, <3>1, NoFwdTyped, FwdCallMoves DEF Quits
  <2>2. Owed'
    <3> SUFFICES ASSUME NEW i \in 1 .. n, ~sent'[i].lost, ~sent'[i].debit
                 PROVE  \E e \in FwdCalls : fcall'[e].tx = i /\ fcall'[e].pc \in {"mark", "debit"}
      BY <1>5 DEF Owed
    <3>1. i # n
      BY <1>3, <1>5, <1>9
    <3>2. i \in 1 .. Len(sent) /\ sent'[i] = sent[i]
      BY <1>5, <3>1
    <3>3. PICK e \in FwdCalls : fcall[e].tx = i /\ fcall[e].pc \in {"mark", "debit"}
      BY <3>2 DEF Owed
    <3> QED
      BY <3>3, <1>2, <2>1
  <2> QED
    BY <1>5, <1>6, <1>7, <2>1, <2>2
<1> QED
  BY <1>8, <1>9

\* The records of transfers change, but not what they carry or where they stand on the chain.
LEMMA FundedStays ==
  ASSUME Funded, eoa' = eoa, Len(sent') = Len(sent),
         \A i \in 1 .. Len(sent) : /\ sent'[i].st = sent[i].st /\ sent'[i].amount = sent[i].amount
                                   /\ sent'[i].raced = sent[i].raced
  PROVE  Funded'
BY DEF Funded

\* A call quits before its debit: its transfer is lost to the ledger.
LEMMA LostStep ==
  ASSUME FwdInv, NEW c \in FwdCalls, Quits(c), fcall[c].pc \in {"mark", "debit"},
         sent' = [sent EXCEPT ![fcall[c].tx].lost = TRUE],
         UNCHANGED <<deposited, eoa>>, faults' \in 0 .. MaxFaults, rows' \subseteq RequestRows
  PROVE  FwdInv'
<1> USE DEF FwdInv
<1> DEFINE i == fcall[c].tx
           x == [sent[i] EXCEPT !.lost = TRUE]
<1>1. i \in 1 .. Len(sent) /\ sent[i] \in Transfers
  BY DEF FwdCallsOK, SentOK
<1>2. /\ x \in Transfers /\ x.lost = TRUE /\ x.st = sent[i].st /\ x.amount = sent[i].amount
      /\ x.raced = sent[i].raced
  BY <1>1 DEF Transfers
<1>3. sent' = [sent EXCEPT ![i] = x]
  OBVIOUS
<1> HIDE DEF x
<1>4. /\ SentOK' /\ Len(sent') = Len(sent) /\ sent'[i] = x
      /\ \A j \in 1 .. Len(sent) : j # i => sent'[j] = sent[j]
  BY <1>1, <1>2, <1>3, SentSet
<1>5. FwdCallsOK' /\ \A d \in FwdCalls : d # c => fcall'[d] = fcall[d]
  <2>1. Len(sent') \in Nat /\ Len(sent) <= Len(sent')
    BY <1>4 DEF SentOK
  <2> QED
    BY <2>1, NoFwdTyped, FwdCallMoves DEF Quits
<1>6. Funded'
  BY <1>2, <1>4, FundedStays
<1>7. Owed'
  <2> SUFFICES ASSUME NEW j \in 1 .. Len(sent), ~sent'[j].lost, ~sent'[j].debit
               PROVE  \E d \in FwdCalls : fcall'[d].tx = j /\ fcall'[d].pc \in {"mark", "debit"}
    BY <1>4 DEF Owed
  <2>1. j # i /\ sent'[j] = sent[j]
    BY <1>2, <1>4
  <2>2. PICK d \in FwdCalls : fcall[d].tx = j /\ fcall[d].pc \in {"mark", "debit"}
    BY <2>1 DEF Owed
  <2> QED
    BY <2>1, <2>2, <1>5
<1> QED
  BY <1>4, <1>5, <1>6, <1>7 DEF FwdMoneyOK, RowsOK

LEMMA MarkInv ==
  ASSUME FwdInv, NEW c \in FwdCalls, MarkBroadcasted(c) PROVE FwdInv'
<1>1. /\ fcall[c].pc = "mark" /\ fcall[c] \in FwdState /\ UNCHANGED <<deposited, eoa, faults>>
      /\ faults' \in 0 .. MaxFaults /\ rows' \subseteq RequestRows
  BY MarkedRows DEF MarkBroadcasted, Is, FwdInv, FwdCallsOK, FwdMoneyOK
<1>2. CASE Mine(c) = {}
  BY <1>1, <1>2, LostStep DEF MarkBroadcasted
<1>3. CASE Mine(c) # {}
  <2> USE DEF FwdInv
  <2> DEFINE r == [fcall[c] EXCEPT !.pc = "debit"]
  <2>1. r \in FwdState /\ r.pc = "debit" /\ r.tx = fcall[c].tx
    BY <1>1 DEF FwdState, FwdPcs
  <2>2. fcall' = [fcall EXCEPT ![c] = r] /\ sent' = sent
    BY <1>3 DEF MarkBroadcasted, Does
  <2> HIDE DEF r
  <2>3. FwdCallsOK' /\ fcall'[c] = r /\ \A d \in FwdCalls : d # c => fcall'[d] = fcall[d]
    <3>1. Len(sent') \in Nat /\ Len(sent) <= Len(sent') /\ r.tx \in 1 .. Len(sent')
      BY <1>1, <2>1, <2>2 DEF SentOK, FwdCallsOK
    <3> QED
      BY <2>1, <2>2, <3>1, FwdCallMoves
  <2>4. Owed'
    BY <1>1, <2>1, <2>2, <2>3 DEF Owed
  <2>5. SentOK' /\ Funded' /\ FwdMoneyOK' /\ RowsOK'
    BY <1>1, <2>2 DEF SentOK, Funded, FwdMoneyOK, RowsOK
  <2> QED
    BY <2>3, <2>4, <2>5
<1> QED
  BY <1>2, <1>3

LEMMA DebitInv ==
  ASSUME FwdInv, NEW c \in FwdCalls, LedgerDebit(c) PROVE FwdInv'
<1> USE DEF FwdInv
<1> DEFINE i == fcall[c].tx
           x == [sent[i] EXCEPT !.debit = TRUE]
           r == [fcall[c] EXCEPT !.pc = "wait"]
<1>1. /\ fcall[c].pc = "debit" /\ fcall[c] \in FwdState /\ UNCHANGED <<deposited, eoa, faults, rows>>
      /\ i \in 1 .. Len(sent) /\ sent[i] \in Transfers
  BY DEF LedgerDebit, Is, FwdCallsOK, SentOK
<1>2. /\ x \in Transfers /\ x.debit = TRUE /\ x.st = sent[i].st /\ x.amount = sent[i].amount
      /\ x.raced = sent[i].raced
  BY <1>1 DEF Transfers
<1>3. sent' = [sent EXCEPT ![i] = x]
  BY DEF LedgerDebit
<1>4. r \in FwdState /\ r.pc = "wait" /\ r.tx = i
  BY <1>1 DEF FwdState, FwdPcs
<1>5. fcall' = [fcall EXCEPT ![c] = r]
  BY DEF LedgerDebit, Does
<1> HIDE DEF x, r
<1>6. /\ SentOK' /\ Len(sent') = Len(sent) /\ sent'[i] = x
      /\ \A j \in 1 .. Len(sent) : j # i => sent'[j] = sent[j]
  BY <1>1, <1>2, <1>3, SentSet
<1>7. FwdCallsOK' /\ fcall'[c] = r /\ \A d \in FwdCalls : d # c => fcall'[d] = fcall[d]
  <2>1. Len(sent') \in Nat /\ Len(sent) <= Len(sent') /\ r.tx \in 1 .. Len(sent')
    BY <1>1, <1>4, <1>6 DEF SentOK
  <2> QED
    BY <1>4, <1>5, <2>1, FwdCallMoves
<1>8. Funded'
  BY <1>1, <1>2, <1>6, FundedStays
<1>9. Owed'
  <2> SUFFICES ASSUME NEW j \in 1 .. Len(sent), ~sent'[j].lost, ~sent'[j].debit
               PROVE  \E d \in FwdCalls : fcall'[d].tx = j /\ fcall'[d].pc \in {"mark", "debit"}
    BY <1>6 DEF Owed
  <2>1. j # i /\ sent'[j] = sent[j]
    BY <1>2, <1>6
  <2>2. PICK d \in FwdCalls : fcall[d].tx = j /\ fcall[d].pc \in {"mark", "debit"}
    BY <2>1 DEF Owed
  <2> QED
    BY <2>1, <2>2, <1>7
<1> QED
  BY <1>1, <1>6, <1>7, <1>8, <1>9 DEF FwdMoneyOK, RowsOK

LEMMA WaitInv ==
  ASSUME FwdInv, NEW c \in FwdCalls, WaitReceipt(c) PROVE FwdInv'
<1>1. /\ UNCHANGED <<deposited, eoa, sent, faults>> /\ rows' \subseteq RequestRows
      /\ faults' \in 0 .. MaxFaults /\ fcall[c].pc = "wait" /\ Quits(c)
  BY MarkedRows DEF WaitReceipt, FwdInv, FwdMoneyOK, RowsOK, Is
<1> QED
  BY <1>1, QuitStep

LEMMA FailsInv ==
  ASSUME FwdInv, NEW c \in FwdCalls, ForwardFails(c) PROVE FwdInv'
<1>1. /\ UNCHANGED <<deposited, eoa>> /\ rows' \subseteq RequestRows /\ Quits(c)
      /\ faults' \in 0 .. MaxFaults
  <2>1. rows' \subseteq RequestRows
    BY MarkedRows DEF ForwardFails, FwdInv, RowsOK
  <2> QED
    BY <2>1, ForwardAssumption DEF ForwardFails, FwdInv, FwdMoneyOK
<1>2. CASE fcall[c].pc \in {"mark", "debit"}
  BY <1>1, <1>2, LostStep DEF ForwardFails, Is
<1>3. CASE fcall[c].pc \notin {"mark", "debit"}
  BY <1>1, <1>3, QuitStep DEF ForwardFails, Is
<1> QED
  BY <1>2, <1>3

\* Only the first pending transfer is mined; one that was broadcast alone is that first, and the
\* balance it was checked against is still there.
LEMMA MinesInv ==
  ASSUME FwdInv, NEW i \in DOMAIN sent, ChainMines(i) PROVE FwdInv'
<1> USE DEF FwdInv
<1> DEFINE ok == eoa >= sent[i].amount
           x == [sent[i] EXCEPT !.st = IF ok THEN "mined" ELSE "reverted"]
<1>1. /\ i \in 1 .. Len(sent) /\ sent[i] \in Transfers /\ sent[i].st = "pending"
      /\ UNCHANGED <<deposited, rows, fcall, faults>>
      /\ \A j \in 1 .. Len(sent) : sent[j].st = "pending" => i <= j
  BY DEF ChainMines, Pending, SentOK
<1>2. /\ x \in Transfers /\ x.amount = sent[i].amount /\ x.st # "pending"
      /\ (ok => x.st = "mined") /\ x.raced = sent[i].raced /\ x.lost = sent[i].lost /\ x.debit = sent[i].debit
  BY <1>1 DEF Transfers
<1>3. sent' = [sent EXCEPT ![i] = x]
  BY DEF ChainMines
<1> HIDE DEF x
<1>4. /\ SentOK' /\ Len(sent') = Len(sent) /\ sent'[i] = x
      /\ \A j \in 1 .. Len(sent) : j # i => sent'[j] = sent[j]
  BY <1>1, <1>2, <1>3, SentSet
<1>5. FwdMoneyOK'
  <2>1. eoa \in Nat /\ sent[i].amount \in Nat /\ eoa <= deposited /\ deposited \in 0 .. MaxDeposits
    BY <1>1, ForwardAssumption DEF FwdMoneyOK, Transfers
  <2>2. eoa' = IF ok THEN eoa - sent[i].amount ELSE eoa
    BY DEF ChainMines
  <2> QED
    BY <1>1, <2>1, <2>2 DEF FwdMoneyOK
<1>6. FwdCallsOK' /\ RowsOK' /\ Owed'
  <2>1. Owed'
    BY <1>1, <1>2, <1>4 DEF Owed
  <2> QED
    BY <1>1, <1>4, <2>1 DEF FwdCallsOK, RowsOK
<1>7. Funded'
  <2> SUFFICES ASSUME NEW k \in 1 .. Len(sent), ~sent'[k].raced
               PROVE  /\ sent'[k].st # "reverted" /\ sent'[k].st # "pending"
    BY <1>4 DEF Funded
  <2>1. ~sent[k].raced
    BY <1>2, <1>4
  <2>2. CASE k = i
    <3>1. ok
      BY <1>1, <2>1, <2>2 DEF Funded
    <3> QED
      BY <1>2, <1>4, <2>2, <3>1
  <2>3. CASE k # i
    <3>1. sent[k].st # "reverted" /\ (sent[k].st = "pending" => ~(i < k))
      BY <1>1, <2>1 DEF Funded
    <3>2. sent[k].st # "pending"
      BY <1>1, <2>3, <3>1
    <3> QED
      BY <1>4, <2>3, <3>1, <3>2
  <2> QED
    BY <2>2, <2>3
<1> QED
  BY <1>4, <1>5, <1>6, <1>7
-----------------------------------------------------------------------------
LEMMA FwdNextInv == FwdInv /\ [FwdNext]_fwdVars => FwdInv'
<1> SUFFICES ASSUME FwdInv, [FwdNext]_fwdVars PROVE FwdInv'
  OBVIOUS
<1>1. ASSUME NEW c \in FwdCalls, NEW d \in 1 .. deposited, GoEoaDepositCallback(c, d)
      PROVE  FwdInv'
  <2>1. d \in 0 .. deposited
    BY DEF FwdInv, FwdMoneyOK
  <2> QED
    BY <1>1, <2>1, ForwardsInv DEF GoEoaDepositCallback
<1>2. ASSUME NEW c \in FwdCalls, BalancePoll(c)
      PROVE  FwdInv'
  <2>1. 0 \in 0 .. deposited
    BY DEF FwdInv, FwdMoneyOK
  <2> QED
    BY <1>2, <2>1, ForwardsInv DEF BalancePoll
<1>3. ASSUME NEW c \in FwdCalls, ForwardStep(c)
      PROVE  FwdInv'
  BY <1>3, ReadExistingInv, DropInv, CreateInv, FwdGasInv, SignsInv, RefusedInv, BroadcastInv, MarkInv, DebitInv, WaitInv
     DEF ForwardStep
<1>4. ASSUME NEW c \in FwdCalls, ForwardFails(c)
      PROVE  FwdInv'
  BY <1>4, FailsInv
<1>5. CASE UNCHANGED fwdVars
  BY <1>5 DEF fwdVars, FwdInv, FwdMoneyOK, SentOK, FwdCallsOK, RowsOK, Owed, Funded
<1>6. CASE PolMoves
  BY <1>6 DEF PolMoves, FwdInv, FwdMoneyOK, SentOK, FwdCallsOK, RowsOK, Owed, Funded
<1> QED
  BY <1>1, <1>2, <1>3, <1>4, <1>5, <1>6, DepositedInv, MinesInv DEF FwdNext

\* Whether the account can pay for gas is known or not, nothing more.
PolOK == pol \in BOOLEAN

LEMMA FwdInitPol == FwdInit => PolOK
BY DEF FwdInit, PolOK

LEMMA FwdNextPol == PolOK /\ [FwdNext]_fwdVars => PolOK'
BY DEF PolOK, FwdNext, fwdVars, Deposited, PolMoves, GoEoaDepositCallback, BalancePoll, Forwards, ForwardStep,
       ReadExisting, DropExisting, CreateRequest, ChecksGas, Signs, BroadcastFails, Broadcast,
       MarkBroadcasted, LedgerDebit, WaitReceipt, ForwardFails, ChainMines

LEMMA PolTyped == FwdSpec => []PolOK
BY FwdInitPol, FwdNextPol, PTL DEF FwdSpec

LEMMA FwdInvariant == FwdSpec => []FwdInv
BY FwdInitInv, FwdNextInv, PTL DEF FwdSpec

LEMMA FwdTypes == FwdInv /\ PolOK => FwdTypeOK
<1> SUFFICES ASSUME FwdInv, PolOK PROVE FwdTypeOK
  OBVIOUS
<1>1. deposited \in 0 .. MaxDeposits /\ eoa \in 0 .. MaxDeposits /\ faults \in 0 .. MaxFaults
  BY ForwardAssumption DEF FwdInv, FwdMoneyOK
<1>2. \A c \in FwdCalls : fcall[c].pc \in FwdPcs
  BY DEF FwdInv, FwdCallsOK, FwdState
<1> QED
  BY <1>1, <1>2 DEF FwdTypeOK, PolOK, FwdInv, SentOK, RowsOK, Transfers, RequestRows, FwdPcs

\* Balance, transfers, request rows and forwards keep their types, whatever is polled, lost and stopped.
THEOREM ForwardTyped == FwdSpec => []FwdTypeOK
BY FwdTypes, FwdInvariant, PolTyped, PTL

LEMMA FwdPromise == FwdInv => DebitsMatchTransfers
<1> SUFFICES ASSUME FwdInv, NEW i \in DOMAIN sent
             PROVE  /\ sent[i].st = "mined" /\ ~sent[i].lost /\ (\A c \in FwdCalls : fcall[c].tx # i)
                          => sent[i].debit
                    /\ sent[i].st = "reverted" => sent[i].raced
  BY DEF DebitsMatchTransfers
<1>1. i \in 1 .. Len(sent) /\ sent[i] \in Transfers
  BY DEF FwdInv, SentOK
<1>2. ~sent[i].lost /\ ~sent[i].debit => \E c \in FwdCalls : fcall[c].tx = i
  BY <1>1 DEF FwdInv, Owed
<1>3. sent[i].st = "reverted" => sent[i].raced
  BY <1>1 DEF FwdInv, Funded
<1> QED
  BY <1>2, <1>3

\* A forward debits the ledger for what it sent unless it was cut off, lost its row or its answer,
\* and only transfers sent beside a pending one revert.
THEOREM ForwardsDebited == FwdSpec => []DebitsMatchTransfers
BY FwdPromise, FwdInvariant, PTL
-----------------------------------------------------------------------------
(* Gas and packages: the calls of one user *)

ShopPcs == {"idle", "placing", "charge", "spend", "confirm", "fulfil", "tierPay",
        "tierRead", "tierWrite", "upgrade", "reserve", "payout", "release", "record"}
ShopCall == [pc : ShopPcs, orders : SUBSET GasOrders, tier : 0 .. TopTier, debt : BOOLEAN, raced : BOOLEAN]
ShopCallType == [ShopCalls -> ShopCall]

\* The calls about an order, those about to write a tier, those that hold commissions.
AboutOrder == {"confirm", "fulfil"}
WritingTier == {"tierWrite", "upgrade"}
Holding == {"payout", "release", "record"}

(***************************************************************************)
(* The inductive invariant, in four parts that share only the calls.       *)
(***************************************************************************)

\* A spend that looked at the balance still finds it there, unless it was raced.
SpendInv ==
  \A c \in ShopCalls :
    gcall[c].pc = "spend" /\ ~gcall[c].debt /\ ~gcall[c].raced => gas >= 1

\* A tier about to be written is above the tier it was computed from, unless it was raced.
TierInv ==
  \A c \in ShopCalls :
    gcall[c].pc \in WritingTier /\ ~gcall[c].raced => gcall[c].tier > tier

\* A call about an order knows one order; an order granted without a crossing is fulfilled
\* and no call is about it; its commission comes with the grant.
OneOrder ==
  \A c \in ShopCalls : gcall[c].pc \in AboutOrder => \E o \in GasOrders : gcall[c].orders = {o}

GrantedIsOver ==
  \A o \in GasOrders : grants[o] > 0 /\ o \notin crossed =>
    /\ order[o] = "FULFILLED"
    /\ \A c \in ShopCalls : gcall[c].pc \in AboutOrder => o \notin gcall[c].orders

GrantsCounted == \A o \in GasOrders : grants[o] > 1 => o \in crossed

CommissionOfGrant ==
  \A o \in GasOrders :
    IF upline THEN grants[o] <= 1 /\ (grants[o] = 0 <=> commission[o] = "none")
    ELSE commission[o] = "none"

OrderInv == OneOrder /\ GrantedIsOver /\ GrantsCounted /\ CommissionOfGrant

\* What a claim holds is claimed, and no other claim holds it; a commission no payout has left
\* in doubt is paid when its claim records that, and not before.
HeldIsClaimed ==
  \A c \in ShopCalls : gcall[c].pc \in Holding => \A o \in gcall[c].orders :
    /\ commission[o] = "claimed"
    /\ \A d \in ShopCalls \ {c} : gcall[d].pc \in Holding => o \notin gcall[d].orders

NotPaidYet ==
  \A o \in GasOrders \ unlucky :
    /\ commission[o] # "claimed" => payouts[o] = 0
    /\ \A c \in ShopCalls : o \in gcall[c].orders =>
         /\ gcall[c].pc \in {"payout", "release"} => payouts[o] = 0
         /\ gcall[c].pc = "record" => payouts[o] > 0

CommissionInv == HeldIsClaimed /\ NotPaidYet /\ ClaimedIsPaid

GasInv == GasTypeOK /\ SpendInv /\ TierInv /\ OrderInv /\ CommissionInv

-----------------------------------------------------------------------------
(* What a step does to the calls.                                          *)

\* What a step leaves of a call it is not a step of.
ShopKept(d) ==
  /\ gcall'[d].pc = gcall[d].pc /\ gcall'[d].orders = gcall[d].orders
  /\ gcall'[d].tier = gcall[d].tier /\ gcall'[d].debt = gcall[d].debt
  /\ gcall[d].raced => gcall'[d].raced

ShopOthersKept(c) == \A d \in ShopCalls \ {c} : ShopKept(d)

LEMMA CallsTyped == GasTypeOK => gcall \in ShopCallType
BY DEF GasTypeOK, ShopCallType, ShopCall, ShopPcs

LEMMA ToKeeps ==
  ASSUME gcall \in ShopCallType, NEW c \in ShopCalls, NEW pc \in ShopPcs, To(c, pc)
  PROVE  /\ gcall' \in ShopCallType /\ ShopOthersKept(c)
         /\ gcall'[c].pc = pc /\ gcall'[c].orders = gcall[c].orders /\ gcall'[c].tier = gcall[c].tier
         /\ gcall'[c].debt = gcall[c].debt /\ gcall'[c].raced = gcall[c].raced
<1>1. gcall' = [gcall EXCEPT ![c] = [gcall[c] EXCEPT !.pc = pc]]
  BY DEF To
<1>2. gcall[c] \in ShopCall /\ [gcall[c] EXCEPT !.pc = pc] \in ShopCall
  BY DEF ShopCallType, ShopCall
<1> QED BY <1>1, <1>2 DEF ShopCallType, ShopCall, ShopOthersKept, ShopKept

LEMMA OverBlanks ==
  ASSUME gcall \in ShopCallType, NEW c \in ShopCalls, Over(c)
  PROVE  gcall' \in ShopCallType /\ ShopOthersKept(c) /\ gcall'[c].pc = "idle"
<1>1. NoShopCall \in ShopCall /\ NoShopCall.pc = "idle"
  BY GasAssumption DEF NoShopCall, ShopCall, ShopPcs
<1> QED BY <1>1 DEF Over, ShopCallType, ShopOthersKept, ShopKept

LEMMA StartKeeps ==
  ASSUME gcall \in ShopCallType, NEW c \in ShopCalls, NEW pc \in ShopPcs, NEW os \in SUBSET GasOrders,
         gcall' = [gcall EXCEPT ![c].pc = pc, ![c].orders = os]
  PROVE  /\ gcall' \in ShopCallType /\ ShopOthersKept(c)
         /\ gcall'[c].pc = pc /\ gcall'[c].orders = os
<1>1. [gcall[c] EXCEPT !.pc = pc, !.orders = os] \in ShopCall
  BY DEF ShopCallType, ShopCall
<1>2. gcall' = [gcall EXCEPT ![c] = [gcall[c] EXCEPT !.pc = pc, !.orders = os]]
  OBVIOUS
<1> QED BY <1>1, <1>2 DEF ShopCallType, ShopCall, ShopOthersKept, ShopKept

LEMMA TierKeeps ==
  ASSUME gcall \in ShopCallType, NEW c \in ShopCalls, NEW pc \in ShopPcs, NEW t \in 0 .. TopTier,
         gcall' = [gcall EXCEPT ![c].pc = pc, ![c].tier = t]
  PROVE  /\ gcall' \in ShopCallType /\ ShopOthersKept(c)
         /\ gcall'[c].pc = pc /\ gcall'[c].tier = t
<1>1. [gcall[c] EXCEPT !.pc = pc, !.tier = t] \in ShopCall
  BY DEF ShopCallType, ShopCall
<1>2. gcall' = [gcall EXCEPT ![c] = [gcall[c] EXCEPT !.pc = pc, !.tier = t]]
  OBVIOUS
<1> QED BY <1>1, <1>2 DEF ShopCallType, ShopCall, ShopOthersKept, ShopKept

LEMMA RacedKept ==
  ASSUME gcall \in ShopCallType, NEW d \in ShopCalls, NEW old,
         gcall'[d] = [gcall[d] EXCEPT !.raced = @ \/ d \in old]
  PROVE  gcall'[d] \in ShopCall /\ ShopKept(d) /\ (d \in old => gcall'[d].raced)
<1>1. gcall[d] \in ShopCall
  BY DEF ShopCallType
<1>2. (gcall[d].raced \/ d \in old) \in BOOLEAN
  OBVIOUS
<1> QED BY <1>1, <1>2 DEF ShopCall, ShopKept

LEMMA OverRaces ==
  ASSUME gcall \in ShopCallType, NEW c \in ShopCalls, NEW old \in SUBSET ShopCalls, OverAndRaced(c, old)
  PROVE  /\ gcall' \in ShopCallType /\ ShopOthersKept(c) /\ gcall'[c].pc = "idle"
         /\ \A d \in old \ {c} : gcall'[d].raced
<1>1. NoShopCall \in ShopCall /\ NoShopCall.pc = "idle"
  BY GasAssumption DEF NoShopCall, ShopCall, ShopPcs
<1>2. gcall'[c] = NoShopCall
  BY DEF OverAndRaced
<1>3. ASSUME NEW d \in ShopCalls, d # c
      PROVE  gcall'[d] \in ShopCall /\ ShopKept(d) /\ (d \in old => gcall'[d].raced)
  <2>1. gcall'[d] = [gcall[d] EXCEPT !.raced = @ \/ d \in old]
    BY <1>3 DEF OverAndRaced
  <2> QED BY <2>1, RacedKept
<1>4. gcall' \in ShopCallType
  BY <1>1, <1>2, <1>3 DEF OverAndRaced, ShopCallType
<1> QED BY <1>1, <1>2, <1>3, <1>4 DEF ShopOthersKept

-----------------------------------------------------------------------------
(* What a step that does not touch a part has to leave alone.              *)

LEMMA SpendFrame ==
  ASSUME GasInv, gas' \in Int, gas' >= gas, gcall' \in ShopCallType,
         NEW c \in ShopCalls, ShopOthersKept(c), gcall'[c].pc # "spend"
  PROVE  SpendInv'
BY DEF GasInv, GasTypeOK, SpendInv, ShopOthersKept, ShopKept

LEMMA TierFrame ==
  ASSUME GasInv, tier' = tier, gcall' \in ShopCallType,
         NEW c \in ShopCalls, ShopOthersKept(c), gcall'[c].pc \notin WritingTier
  PROVE  TierInv'
BY DEF GasInv, TierInv, ShopOthersKept, ShopKept

LEMMA OrderFrame ==
  ASSUME GasInv, UNCHANGED <<orderVars, upline, commission>>,
         NEW c \in ShopCalls, ShopOthersKept(c), gcall'[c].pc \notin AboutOrder
  PROVE  OrderInv'
<1> USE DEF GasInv, OrderInv, orderVars, ShopOthersKept, ShopKept
<1>1. OneOrder'
  BY DEF OneOrder
<1>2. GrantedIsOver'
  BY DEF GrantedIsOver
<1>3. GrantsCounted' /\ CommissionOfGrant'
  BY DEF GrantsCounted, CommissionOfGrant
<1> QED BY <1>1, <1>2, <1>3

LEMMA ClaimFrame ==
  ASSUME GasInv, UNCHANGED commVars,
         NEW c \in ShopCalls, ShopOthersKept(c), gcall'[c].pc \notin Holding, gcall[c].pc \notin Holding
  PROVE  CommissionInv'
<1> USE DEF GasInv, CommissionInv, commVars, ShopOthersKept, ShopKept, Holding
<1>1. HeldIsClaimed'
  BY DEF HeldIsClaimed
<1>2. NotPaidYet'
  BY DEF NotPaidYet
<1>3. ClaimedIsPaid'
  BY DEF ClaimedIsPaid
<1> QED BY <1>1, <1>2, <1>3

\* The other variables, when a step is not about them.
LEMMA ShopTypeFrame ==
  ASSUME GasTypeOK, gcall' \in ShopCallType, UNCHANGED <<gasVars, orderVars, upline, commVars, tierVars, halts>>
  PROVE  GasTypeOK'
BY DEF GasTypeOK, ShopCallType, ShopCall, ShopPcs, gasVars, orderVars, commVars, tierVars

\* A call that moves outside of what the parts are about.
LEMMA CallMoves ==
  ASSUME GasInv, gcall' \in ShopCallType, UNCHANGED <<gasVars, orderVars, upline, commVars, tierVars, halts>>,
         NEW c \in ShopCalls, ShopOthersKept(c), gcall[c].pc \notin Holding,
         gcall'[c].pc \notin AboutOrder \cup WritingTier \cup Holding \cup {"spend"}
  PROVE  GasInv'
<1>1. GasTypeOK'
  BY ShopTypeFrame DEF GasInv
<1>2. SpendInv'
  BY SpendFrame DEF GasInv, GasTypeOK, gasVars
<1>3. TierInv'
  BY TierFrame DEF tierVars
<1>4. OrderInv'
  BY OrderFrame DEF commVars
<1>5. CommissionInv'
  BY ClaimFrame
<1> QED BY <1>1, <1>2, <1>3, <1>4, <1>5 DEF GasInv

-----------------------------------------------------------------------------
(* The actions.                                                            *)

LEMMA GasInitInv == GasInit => GasInv
<1> SUFFICES ASSUME GasInit PROVE GasInv
  OBVIOUS
<1> USE GasAssumption DEF GasInit, NoShopCall
<1>1. GasTypeOK
  BY DEF GasTypeOK
<1>2. SpendInv /\ TierInv
  BY DEF SpendInv, TierInv, WritingTier
<1>3. OrderInv
  BY DEF OrderInv, OneOrder, GrantedIsOver, GrantsCounted, CommissionOfGrant, AboutOrder
<1>4. CommissionInv
  BY DEF CommissionInv, HeldIsClaimed, NotPaidYet, ClaimedIsPaid, Holding
<1> QED BY <1>1, <1>2, <1>3, <1>4 DEF GasInv

LEMMA SpendStep == GasInv /\ SpendNext => GasInv'
<1> SUFFICES ASSUME GasInv, SpendNext PROVE GasInv'
  OBVIOUS
<1>0. gcall \in ShopCallType /\ GasTypeOK
  BY CallsTyped DEF GasInv
<1> USE DEF Holding, AboutOrder, WritingTier
<1>1. ASSUME NEW c \in ShopCalls, OrderAssertsGas(c) PROVE GasInv'
  <2>1. PICK debt \in BOOLEAN : gcall' = [gcall EXCEPT ![c].pc = "placing", ![c].debt = debt]
    BY <1>1 DEF OrderAssertsGas
  <2>2. gcall' = [gcall EXCEPT ![c] = [gcall[c] EXCEPT !.pc = "placing", !.debt = debt]]
    BY <2>1
  <2>3. [gcall[c] EXCEPT !.pc = "placing", !.debt = debt] \in ShopCall
    BY <1>0 DEF ShopCallType, ShopCall, ShopPcs
  <2>4. gcall' \in ShopCallType /\ ShopOthersKept(c) /\ gcall'[c].pc = "placing"
    BY <1>0, <2>2, <2>3 DEF ShopCallType, ShopCall, ShopOthersKept, ShopKept
  <2> QED BY <1>1, <2>4, CallMoves DEF OrderAssertsGas, At
<1>2. ASSUME NEW c \in ShopCalls, OrderPlaced(c) PROVE GasInv'
  <2>1. gcall' \in ShopCallType /\ ShopOthersKept(c) /\ gcall'[c].pc \in {"charge", "idle"}
    BY <1>0, <1>2, ToKeeps, OverBlanks DEF OrderPlaced, ShopPcs
  <2> QED BY <1>2, <2>1, CallMoves DEF OrderPlaced, At
<1>3. ASSUME NEW c \in ShopCalls, SpendReads(c) PROVE GasInv'
  <2>1. CASE Over(c)
    BY <1>0, <1>3, <2>1, OverBlanks, CallMoves DEF SpendReads, At
  <2>2. CASE To(c, "spend") /\ (gcall[c].debt \/ gas >= 1)
    <3>1. gcall' \in ShopCallType /\ ShopOthersKept(c)
      BY <1>0, <2>2, ToKeeps DEF ShopPcs
    <3>2. gcall'[c].pc = "spend" /\ gcall'[c].debt = gcall[c].debt
      BY <1>0, <2>2, ToKeeps DEF ShopPcs
    <3>3. UNCHANGED <<gasVars, orderVars, upline, commVars, tierVars, halts>> /\ gcall[c].pc = "charge"
      BY <1>3 DEF SpendReads, At
    <3>4. SpendInv'
      BY <2>2, <3>1, <3>2, <3>3 DEF GasInv, SpendInv, ShopOthersKept, ShopKept, gasVars
    <3>5. GasTypeOK' /\ TierInv' /\ OrderInv' /\ CommissionInv'
      BY <1>0, <3>1, <3>2, <3>3, ShopTypeFrame, TierFrame, OrderFrame, ClaimFrame DEF tierVars, commVars
    <3> QED BY <3>4, <3>5 DEF GasInv
  <2> QED BY <1>3, <2>1, <2>2 DEF SpendReads
<1>4. ASSUME NEW c \in ShopCalls, SpendGasBalance(c) PROVE GasInv'
  <2> DEFINE old == {d \in ShopCalls : At(d, "spend")}
  <2>1. gcall' \in ShopCallType /\ ShopOthersKept(c) /\ gcall'[c].pc = "idle" /\ \A d \in old \ {c} : gcall'[d].raced
    BY <1>0, <1>4, OverRaces DEF SpendGasBalance
  <2>2. gas' = gas - 1 /\ spends' = spends + 1 /\ spends < MaxSpends
        /\ UNCHANGED <<orderVars, upline, commVars, tierVars, halts>> /\ gcall[c].pc = "spend"
    BY <1>4 DEF SpendGasBalance, At
  <2>3. GasTypeOK'
    BY <1>0, <2>1, <2>2, GasAssumption DEF GasTypeOK, ShopCallType, ShopCall, ShopPcs, GasAssumption, orderVars, commVars, tierVars
  <2>4. SpendInv'
    BY <2>1 DEF SpendInv, ShopOthersKept, ShopKept, At
  <2>5. TierInv' /\ OrderInv' /\ CommissionInv'
    BY <2>1, <2>2, TierFrame, OrderFrame, ClaimFrame DEF tierVars, commVars
  <2> QED BY <2>3, <2>4, <2>5 DEF GasInv
<1> QED BY <1>1, <1>2, <1>3, <1>4 DEF SpendNext

LEMMA OrderOf ==
  ASSUME OneOrder, NEW c \in ShopCalls, gcall[c].pc \in AboutOrder
  PROVE  TheOrder(c) \in GasOrders /\ gcall[c].orders = {TheOrder(c)}
<1>1. PICK o \in GasOrders : gcall[c].orders = {o}
  BY DEF OneOrder
<1>2. TheOrder(c) = o
  BY <1>1 DEF TheOrder
<1> QED BY <1>1, <1>2

\* A call starts work about an order that is not granted for good.
LEMMA AboutStarts ==
  ASSUME GasInv, NEW c \in ShopCalls, NEW o \in GasOrders, NEW pc \in AboutOrder,
         gcall[c].pc = "idle", order[o] # "FULFILLED",
         gcall' = [gcall EXCEPT ![c].pc = pc, ![c].orders = {o}],
         UNCHANGED <<gasVars, orderVars, upline, commVars, tierVars, halts>>
  PROVE  GasInv'
<1> USE DEF AboutOrder, WritingTier, Holding
<1>1. gcall \in ShopCallType /\ GasTypeOK
  BY CallsTyped DEF GasInv
<1>2. {o} \in SUBSET GasOrders /\ pc \in ShopPcs
  BY DEF ShopPcs
<1>3. gcall' \in ShopCallType /\ ShopOthersKept(c) /\ gcall'[c].pc = pc /\ gcall'[c].orders = {o}
  BY <1>1, <1>2, StartKeeps
<1>4. OneOrder'
  BY <1>3 DEF GasInv, OrderInv, OneOrder, ShopOthersKept, ShopKept
<1>5. GrantedIsOver'
  BY <1>3 DEF GasInv, OrderInv, GrantedIsOver, ShopOthersKept, ShopKept, orderVars
<1>6. GrantsCounted' /\ CommissionOfGrant'
  BY DEF GasInv, OrderInv, GrantsCounted, CommissionOfGrant, orderVars, commVars
<1>7. GasTypeOK' /\ SpendInv'
  BY <1>1, <1>3, ShopTypeFrame, SpendFrame DEF GasTypeOK, gasVars
<1>8. TierInv' /\ CommissionInv'
  BY <1>3, TierFrame, ClaimFrame DEF tierVars
<1> QED BY <1>4, <1>5, <1>6, <1>7, <1>8 DEF GasInv, OrderInv

\* The gas of an order is granted: what the order is then, and its commission.
LEMMA FulfilStep ==
  ASSUME GasInv, NEW c \in ShopCalls, FulfilPaidPackageOrder(c)
  PROVE  GasInv'
<1> USE DEF AboutOrder, WritingTier, Holding
<1> DEFINE o == TheOrder(c)
           old == {d \in ShopCalls : tier = 0 /\ gcall[d].pc \in {"tierWrite", "upgrade"}}
<1>1. gcall \in ShopCallType /\ GasTypeOK /\ gcall[c].pc = "fulfil" /\ UNCHANGED <<spends, upline, payouts, unlucky, tierSets, halts>>
  BY CallsTyped DEF GasInv, FulfilPaidPackageOrder, At
<1>2. o \in GasOrders /\ gcall[c].orders = {o}
  BY <1>1, OrderOf DEF GasInv, OrderInv
<1> HIDE DEF o
<1>3. CASE Over(c) /\ UNCHANGED <<gas, orderVars, commission, tier>>
  BY <1>1, <1>3, OverBlanks, CallMoves DEF gasVars, commVars, tierVars
<1>4. CASE /\ ~(upline /\ commission[o] /= "none")
           /\ gas' = gas + PackageGas
           /\ order' = [order EXCEPT ![o] = "FULFILLED"]
           /\ grants' = [grants EXCEPT ![o] = @ + 1]
           /\ commission' = IF upline THEN [commission EXCEPT ![o] = "open"] ELSE commission
           /\ tier' = IF tier = 0 THEN 1 ELSE tier
           /\ crossed' = crossed \cup {p \in {o} : \E d \in ShopCalls \ {c} :
                            p \in gcall[d].orders /\ gcall[d].pc \in {"confirm", "fulfil"}}
           /\ OverAndRaced(c, old)
  <2>1. gcall' \in ShopCallType /\ ShopOthersKept(c) /\ gcall'[c].pc = "idle" /\ \A d \in old \ {c} : gcall'[d].raced
    BY <1>1, <1>4, OverRaces
  <2>2. GasTypeOK'
    BY <1>1, <1>2, <1>4, <2>1, GasAssumption DEF GasAssumption, GasTypeOK, ShopCallType, ShopCall, ShopPcs
  <2>3. SpendInv'
    BY <1>1, <1>4, <2>1, GasAssumption, SpendFrame DEF GasAssumption, GasTypeOK
  <2>4. TierInv'
    BY <1>1, <1>4, <2>1 DEF GasInv, TierInv, GasTypeOK, ShopOthersKept, ShopKept
  <2>5. OneOrder'
    BY <2>1 DEF GasInv, OrderInv, OneOrder, ShopOthersKept, ShopKept
  \* The call knew the order, so a grant before this one was crossed.
  <2>6. grants[o] > 0 => o \in crossed
    BY <1>1, <1>2 DEF GasInv, OrderInv, GrantedIsOver
  <2>7. GrantsCounted'
    <3>1. ASSUME NEW p \in GasOrders, grants'[p] > 1 PROVE p \in crossed'
      <4>1. CASE p = o
        BY <1>1, <1>2, <1>4, <2>6, <3>1, <4>1 DEF GasTypeOK
      <4>2. CASE p # o
        BY <1>1, <1>4, <3>1, <4>2 DEF GasInv, OrderInv, GrantsCounted, GasTypeOK
      <4> QED BY <4>1, <4>2
    <3> QED BY <3>1 DEF GrantsCounted
  <2>8. GrantedIsOver'
    <3>1. ASSUME NEW p \in GasOrders, grants'[p] > 0, p \notin crossed'
          PROVE  order'[p] = "FULFILLED" /\ \A d \in ShopCalls : gcall'[d].pc \in AboutOrder => p \notin gcall'[d].orders
      <4>1. CASE p = o
        BY <1>1, <1>2, <1>4, <2>1, <3>1, <4>1 DEF GasTypeOK, ShopOthersKept, ShopKept
      <4>2. CASE p # o
        BY <1>1, <1>4, <2>1, <3>1, <4>2 DEF GasInv, OrderInv, GrantedIsOver, GasTypeOK, ShopOthersKept, ShopKept
      <4> QED BY <4>1, <4>2
    <3> QED BY <3>1 DEF GrantedIsOver
  <2>9. CommissionOfGrant'
    BY <1>1, <1>2, <1>4 DEF GasInv, OrderInv, CommissionOfGrant, GasTypeOK
  \* A commission that appears was none before, so that no claim held it and nothing was paid.
  <2>10. \A p \in GasOrders : commission[p] # "none" => commission'[p] = commission[p]
    BY <1>1, <1>4 DEF GasTypeOK
  <2>11. \A p \in GasOrders : commission'[p] = "claimed" => commission[p] = "claimed"
    BY <1>1, <1>4 DEF GasTypeOK
  <2>12. HeldIsClaimed'
    BY <1>1, <2>1, <2>10 DEF GasInv, CommissionInv, HeldIsClaimed, ShopOthersKept, ShopKept, ShopCallType, ShopCall
  <2>13. NotPaidYet'
    BY <1>1, <2>1, <2>10, <2>11 DEF GasInv, CommissionInv, NotPaidYet, ShopOthersKept, ShopKept
  <2>14. ClaimedIsPaid'
    BY <1>1, <2>1, <2>11 DEF GasInv, CommissionInv, ClaimedIsPaid, ShopOthersKept, ShopKept
  <2> QED BY <2>2, <2>3, <2>4, <2>5, <2>7, <2>8, <2>9, <2>12, <2>13, <2>14 DEF GasInv, OrderInv, CommissionInv
<1> QED BY <1>3, <1>4 DEF FulfilPaidPackageOrder, o

LEMMA PackageStep == GasInv /\ PackageNext => GasInv'
<1> SUFFICES ASSUME GasInv, PackageNext PROVE GasInv'
  OBVIOUS
<1>0. gcall \in ShopCallType /\ GasTypeOK
  BY CallsTyped DEF GasInv
<1> USE DEF AboutOrder, WritingTier, Holding
\* An order that is created was never granted.
<1>1. ASSUME NEW o \in GasOrders, CreatePackageOrder(o) PROVE GasInv'
  <2> USE <1>1 DEF CreatePackageOrder
  <2>1. GasTypeOK'
    BY <1>0 DEF GasTypeOK, gasVars, commVars, tierVars
  <2>2. SpendInv' /\ TierInv' /\ OneOrder' /\ GrantsCounted' /\ CommissionOfGrant'
    BY DEF GasInv, SpendInv, TierInv, OrderInv, OneOrder, GrantsCounted, CommissionOfGrant, gasVars, commVars, tierVars
  <2>3. GrantedIsOver'
    BY <1>0 DEF GasInv, OrderInv, GrantedIsOver, GasTypeOK
  <2>4. CommissionInv'
    BY DEF GasInv, CommissionInv, HeldIsClaimed, NotPaidYet, ClaimedIsPaid, commVars
  <2> QED BY <2>1, <2>2, <2>3, <2>4 DEF GasInv, OrderInv
<1>2. ASSUME NEW o \in GasOrders, NEW c \in ShopCalls, ConfirmReads(c, o) PROVE GasInv'
  BY <1>2, AboutStarts DEF ConfirmReads, At
<1>3. ASSUME NEW o \in GasOrders, NEW c \in ShopCalls, FulfilReads(c, o) PROVE GasInv'
  BY <1>3, AboutStarts DEF FulfilReads, At
<1>4. ASSUME NEW c \in ShopCalls, ConfirmWrites(c) PROVE GasInv'
  <2> DEFINE o == TheOrder(c)
  <2>1. gcall' \in ShopCallType /\ ShopOthersKept(c) /\ gcall'[c].pc = "idle" /\ gcall[c].pc = "confirm"
    BY <1>0, <1>4, OverBlanks DEF ConfirmWrites, At
  <2>2. o \in GasOrders /\ gcall[c].orders = {o}
    BY <2>1, OrderOf DEF GasInv, OrderInv
  <2>3. order' = [order EXCEPT ![o] = "PAID"] /\ UNCHANGED <<gasVars, grants, crossed, upline, commVars, tierVars, halts>>
    BY <1>4 DEF ConfirmWrites
  <2> HIDE DEF o
  <2>4. GasTypeOK'
    BY <1>0, <2>1, <2>3 DEF GasTypeOK, ShopCallType, ShopCall, ShopPcs, gasVars, commVars, tierVars
  <2>5. OneOrder' /\ GrantsCounted' /\ CommissionOfGrant'
    BY <2>1, <2>3 DEF GasInv, OrderInv, OneOrder, GrantsCounted, CommissionOfGrant, ShopOthersKept, ShopKept, commVars
  \* The call is about the order, so that it was not granted, or crossed.
  <2>6. ~(grants[o] > 0 /\ o \notin crossed)
    BY <2>1, <2>2 DEF GasInv, OrderInv, GrantedIsOver
  <2>7. GrantedIsOver'
    BY <1>0, <2>1, <2>3, <2>6 DEF GasInv, OrderInv, GrantedIsOver, ShopOthersKept, ShopKept, GasTypeOK
  <2>8. SpendInv' /\ TierInv' /\ CommissionInv'
    BY <1>0, <2>1, <2>3, SpendFrame, TierFrame, ClaimFrame DEF GasTypeOK, gasVars, tierVars
  <2> QED BY <2>4, <2>5, <2>7, <2>8 DEF GasInv, OrderInv
<1>5. ASSUME NEW c \in ShopCalls, FulfilPaidPackageOrder(c) PROVE GasInv'
  BY <1>5, FulfilStep
<1> QED BY <1>1, <1>2, <1>3, <1>4, <1>5 DEF PackageNext

\* A tier written from what was read marks every other call about to write one.
LEMMA WritesTierStep ==
  ASSUME GasInv, NEW c \in ShopCalls, gcall[c].pc \in WritingTier, WritesTier(c)
  PROVE  GasInv'
<1> USE DEF AboutOrder, WritingTier, Holding
<1> DEFINE old == {d \in ShopCalls : gcall[d].pc \in {"tierWrite", "upgrade"}}
<1>0. gcall \in ShopCallType /\ GasTypeOK
  BY CallsTyped DEF GasInv
<1>1. gcall' \in ShopCallType /\ ShopOthersKept(c) /\ gcall'[c].pc = "idle" /\ \A d \in old \ {c} : gcall'[d].raced
  BY <1>0, OverRaces DEF WritesTier
<1>2. tier' = gcall[c].tier /\ UNCHANGED <<gasVars, orderVars, upline, commVars, tierSets, halts>>
  BY DEF WritesTier
<1>3. GasTypeOK'
  BY <1>0, <1>1, <1>2 DEF GasTypeOK, ShopCallType, ShopCall, ShopPcs, gasVars, orderVars, commVars
<1>4. TierInv'
  BY <1>1 DEF TierInv, ShopOthersKept, ShopKept
<1>5. SpendInv' /\ OrderInv' /\ CommissionInv'
  BY <1>0, <1>1, <1>2, SpendFrame, OrderFrame, ClaimFrame DEF GasTypeOK, gasVars, commVars
<1> QED BY <1>3, <1>4, <1>5 DEF GasInv

\* A tier above the one just read is about to be written.
LEMMA TierReadStep ==
  ASSUME GasInv, NEW c \in ShopCalls, gcall[c].pc \notin Holding,
         gcall' \in ShopCallType, ShopOthersKept(c), gcall'[c].pc \in WritingTier, gcall'[c].tier > tier,
         UNCHANGED <<gasVars, orderVars, upline, commVars, tierVars, halts>>
  PROVE  GasInv'
<1> USE DEF AboutOrder, WritingTier, Holding
<1>1. GasTypeOK
  BY DEF GasInv
<1>2. TierInv'
  BY DEF GasInv, TierInv, ShopOthersKept, ShopKept, tierVars
<1>3. GasTypeOK' /\ SpendInv'
  BY <1>1, ShopTypeFrame, SpendFrame DEF GasTypeOK, gasVars
<1>4. OrderInv' /\ CommissionInv'
  BY OrderFrame, ClaimFrame DEF commVars
<1> QED BY <1>2, <1>3, <1>4 DEF GasInv

LEMMA TierStep == GasInv /\ TierNext => GasInv'
<1> SUFFICES ASSUME GasInv, TierNext PROVE GasInv'
  OBVIOUS
<1>0. gcall \in ShopCallType /\ GasTypeOK /\ TopTier \in Nat
  BY CallsTyped, GasAssumption DEF GasInv, GasAssumption
<1> USE DEF AboutOrder, WritingTier, Holding
<1>1. ASSUME NEW c \in ShopCalls, TierBuys(c) PROVE GasInv'
  <2>1. PICK t \in tier + 1 .. TopTier : gcall' = [gcall EXCEPT ![c].pc = "tierPay", ![c].tier = t]
    BY <1>1 DEF TierBuys
  <2>2. t \in 0 .. TopTier
    BY <1>0, <2>1 DEF GasTypeOK
  <2>3. gcall' \in ShopCallType /\ ShopOthersKept(c) /\ gcall'[c].pc = "tierPay"
    BY <1>0, <2>1, <2>2, TierKeeps DEF ShopPcs
  <2> QED BY <1>1, <2>3, CallMoves DEF TierBuys, At
<1>2. ASSUME NEW c \in ShopCalls, TierPaid(c) PROVE GasInv'
  <2>1. gcall' \in ShopCallType /\ ShopOthersKept(c) /\ gcall'[c].pc \in {"tierRead", "idle"}
    BY <1>0, <1>2, ToKeeps, OverBlanks DEF TierPaid, ShopPcs
  <2> QED BY <1>2, <2>1, CallMoves DEF TierPaid, At
<1>3. ASSUME NEW c \in ShopCalls, FulfilTierReads(c) PROVE GasInv'
  <2>1. CASE Over(c)
    <3>1. gcall' \in ShopCallType /\ ShopOthersKept(c) /\ gcall'[c].pc = "idle"
      BY <1>0, <2>1, OverBlanks
    <3> QED BY <1>3, <3>1, CallMoves DEF FulfilTierReads, At
  <2>2. CASE ~(gcall[c].tier <= tier) /\ To(c, "tierWrite")
    <3>1. gcall' \in ShopCallType /\ ShopOthersKept(c) /\ gcall'[c].pc = "tierWrite" /\ gcall'[c].tier = gcall[c].tier
      BY <1>0, <2>2, ToKeeps DEF ShopPcs
    <3>2. gcall[c].tier > tier
      BY <1>0, <2>2 DEF GasTypeOK, ShopCallType, ShopCall
    <3> QED BY <1>3, <3>1, <3>2, TierReadStep DEF FulfilTierReads, At
  <2> QED BY <1>3, <2>1, <2>2 DEF FulfilTierReads
<1>4. ASSUME NEW c \in ShopCalls, FulfilTierWrites(c) \/ AutoUpgradeWrites(c) PROVE GasInv'
  BY <1>4, WritesTierStep DEF FulfilTierWrites, AutoUpgradeWrites, At
<1>5. ASSUME NEW c \in ShopCalls, AutoUpgradeReads(c) PROVE GasInv'
  <2>1. PICK t \in tier + 1 .. TopTier : gcall' = [gcall EXCEPT ![c].pc = "upgrade", ![c].tier = t]
    BY <1>5 DEF AutoUpgradeReads
  <2>2. t \in 0 .. TopTier /\ t > tier
    BY <1>0, <2>1 DEF GasTypeOK
  <2>3. gcall' \in ShopCallType /\ ShopOthersKept(c) /\ gcall'[c].pc = "upgrade" /\ gcall'[c].tier = t
    BY <1>0, <2>1, <2>2, TierKeeps DEF ShopPcs
  <2> QED BY <1>5, <2>2, <2>3, TierReadStep DEF AutoUpgradeReads, At
<1>6. ASSUME NEW t \in 0 .. TopTier, AdminSetsTier(t) PROVE GasInv'
  <2> DEFINE old == {d \in ShopCalls : gcall[d].pc \in WritingTier}
  <2>1. tier' = t /\ tierSets' = tierSets + 1 /\ tierSets < MaxTierSets
        /\ UNCHANGED <<gasVars, orderVars, upline, commVars, halts>>
    BY <1>6 DEF AdminSetsTier
  <2>2. ASSUME NEW d \in ShopCalls
        PROVE  gcall'[d] \in ShopCall /\ ShopKept(d) /\ (d \in old => gcall'[d].raced)
    <3>1. gcall'[d] = [gcall[d] EXCEPT !.raced = @ \/ d \in old]
      BY <1>6 DEF AdminSetsTier
    <3> QED BY <1>0, <3>1, RacedKept
  <2>3. gcall' \in ShopCallType
    BY <1>6, <2>2 DEF AdminSetsTier, ShopCallType
  <2>4. GasTypeOK'
    BY <1>0, <2>1, <2>3, GasAssumption DEF GasAssumption, GasTypeOK, ShopCallType, ShopCall, ShopPcs, gasVars, orderVars, commVars
  <2>5. TierInv'
    BY <2>2 DEF TierInv, ShopKept
  <2>6. SpendInv'
    BY <2>1, <2>2 DEF GasInv, SpendInv, ShopKept, gasVars
  <2>7. OrderInv'
    BY <2>1, <2>2 DEF GasInv, OrderInv, OneOrder, GrantedIsOver, GrantsCounted, CommissionOfGrant, ShopKept, orderVars, commVars
  <2>8. CommissionInv'
    BY <2>1, <2>2 DEF GasInv, CommissionInv, HeldIsClaimed, NotPaidYet, ClaimedIsPaid, ShopKept, commVars
  <2> QED BY <2>4, <2>5, <2>6, <2>7, <2>8 DEF GasInv
<1> QED BY <1>1, <1>2, <1>3, <1>4, <1>5, <1>6 DEF TierNext

\* A step of a claim leaves everything but the commissions alone.
LEMMA ClaimStepFrame ==
  ASSUME GasInv, NEW c \in ShopCalls, gcall' \in ShopCallType, ShopOthersKept(c),
         gcall'[c].pc \in Holding \cup {"idle"},
         UNCHANGED <<gasVars, orderVars, upline, tierVars>>
  PROVE  SpendInv' /\ TierInv' /\ OneOrder' /\ GrantedIsOver' /\ GrantsCounted'
<1> USE DEF Holding, AboutOrder, WritingTier, ShopOthersKept, ShopKept
<1>1. SpendInv' /\ TierInv'
  BY SpendFrame, TierFrame DEF GasInv, GasTypeOK, gasVars, tierVars
<1>2. OneOrder' /\ GrantedIsOver' /\ GrantsCounted'
  BY DEF GasInv, OrderInv, OneOrder, GrantedIsOver, GrantsCounted, orderVars
<1> QED BY <1>1, <1>2

\* The commissions a claim reserves were open: nobody held them.
LEMMA ReservesStep ==
  ASSUME GasInv, NEW c \in ShopCalls, ClaimReserves(c)
  PROVE  GasInv'
<1> USE DEF AboutOrder, WritingTier, Holding
<1> DEFINE os == {o \in gcall[c].orders : commission[o] = "open"}
<1>1. gcall \in ShopCallType /\ GasTypeOK /\ gcall[c].pc = "reserve" /\ gcall[c].orders \subseteq GasOrders
  BY CallsTyped DEF GasInv, ClaimReserves, At, ShopCallType, ShopCall
<1>2. commission' = [o \in GasOrders |-> IF o \in os THEN "claimed" ELSE commission[o]]
      /\ UNCHANGED <<gasVars, orderVars, upline, payouts, tierVars, halts>>
  BY DEF ClaimReserves
<1>3. \/ To(c, "payout") /\ os = gcall[c].orders /\ unlucky' = unlucky
      \/ Over(c) /\ unlucky' = unlucky \cup os
  BY DEF ClaimReserves
<1>4. gcall' \in ShopCallType /\ ShopOthersKept(c) /\ gcall'[c].pc \in {"payout", "idle"}
  BY <1>1, <1>3, ToKeeps, OverBlanks DEF ShopPcs
<1>5. gcall'[c].pc = "payout" => os = gcall[c].orders /\ gcall'[c].orders = gcall[c].orders
  BY <1>1, <1>3, ToKeeps, OverBlanks DEF ShopPcs
<1>5a. gcall'[c].pc = "idle" => unlucky' = unlucky \cup os
  BY <1>1, <1>3, ToKeeps, OverBlanks DEF ShopPcs
<1>5b. unlucky \subseteq unlucky' /\ unlucky' \subseteq unlucky \cup os
  BY <1>3
<1>6. \A o \in os : commission[o] = "open" /\ o \in GasOrders
  BY <1>1
<1>7. \A o \in GasOrders : commission'[o] = IF o \in os THEN "claimed" ELSE commission[o]
  BY <1>2
<1> HIDE DEF os
<1>8. GasTypeOK'
  BY <1>1, <1>2, <1>4, <1>5b, <1>6 DEF GasTypeOK, ShopCallType, ShopCall, ShopPcs, gasVars, orderVars, tierVars
<1>9. SpendInv' /\ TierInv' /\ OneOrder' /\ GrantedIsOver' /\ GrantsCounted'
  BY <1>2, <1>4, ClaimStepFrame
<1>10. CommissionOfGrant'
  BY <1>2, <1>6, <1>7 DEF GasInv, OrderInv, CommissionOfGrant, orderVars
<1>11. HeldIsClaimed'
  <2>1. ASSUME NEW d \in ShopCalls, gcall'[d].pc \in Holding, NEW o \in gcall'[d].orders
        PROVE  commission'[o] = "claimed" /\ \A e \in ShopCalls \ {d} : gcall'[e].pc \in Holding => o \notin gcall'[e].orders
    <3>1. o \in GasOrders
      BY <1>4, <2>1 DEF ShopCallType, ShopCall
    <3>2. CASE d = c
      BY <1>4, <1>5, <1>6, <1>7, <2>1, <3>1, <3>2 DEF GasInv, CommissionInv, HeldIsClaimed, ShopOthersKept, ShopKept
    <3>3. CASE d # c
      BY <1>4, <1>5, <1>6, <1>7, <2>1, <3>1, <3>3 DEF GasInv, CommissionInv, HeldIsClaimed, ShopOthersKept, ShopKept
    <3> QED BY <3>2, <3>3
  <2> QED BY <2>1 DEF HeldIsClaimed
<1>12. NotPaidYet'
  <2>1. ASSUME NEW o \in GasOrders \ unlucky'
        PROVE  commission'[o] # "claimed" => payouts'[o] = 0
    BY <1>2, <1>5b, <1>7 DEF GasInv, CommissionInv, NotPaidYet
  <2>2. ASSUME NEW o \in GasOrders \ unlucky', NEW d \in ShopCalls, o \in gcall'[d].orders
        PROVE  /\ gcall'[d].pc \in {"payout", "release"} => payouts'[o] = 0
               /\ gcall'[d].pc = "record" => payouts'[o] > 0
    <3>1. CASE d = c
      BY <1>2, <1>4, <1>5, <1>5b, <1>6, <2>2, <3>1 DEF GasInv, CommissionInv, NotPaidYet
    <3>2. CASE d # c
      BY <1>2, <1>4, <1>5b, <2>2, <3>2 DEF GasInv, CommissionInv, NotPaidYet, ShopOthersKept, ShopKept
    <3> QED BY <3>1, <3>2
  <2> QED BY <2>1, <2>2 DEF NotPaidYet
<1>13. ClaimedIsPaid'
  <2>1. ASSUME NEW o \in GasOrders, commission'[o] = "claimed", o \notin unlucky',
               \A d \in ShopCalls : gcall'[d].pc \in Holding => o \notin gcall'[d].orders
        PROVE  payouts'[o] > 0
    <3>1. o \notin os
      BY <1>4, <1>5, <1>5a, <2>1
    <3>2. commission[o] = "claimed" /\ o \notin unlucky
      BY <1>5b, <1>7, <2>1, <3>1
    <3>3. \A d \in ShopCalls : gcall[d].pc \in Holding => o \notin gcall[d].orders
      BY <1>1, <1>4, <2>1 DEF ShopOthersKept, ShopKept
    <3> QED BY <1>2, <3>2, <3>3 DEF GasInv, CommissionInv, ClaimedIsPaid
  <2> QED BY <2>1 DEF ClaimedIsPaid
<1> QED BY <1>8, <1>9, <1>10, <1>11, <1>12, <1>13 DEF GasInv, OrderInv, CommissionInv

\* The treasury pays what no other claim holds.
LEMMA PaysStep ==
  ASSUME GasInv, NEW c \in ShopCalls, TreasuryPays(c)
  PROVE  GasInv'
<1> USE DEF AboutOrder, WritingTier, Holding
<1>1. gcall \in ShopCallType /\ GasTypeOK /\ gcall[c].pc = "payout" /\ gcall[c].orders \subseteq GasOrders
  BY CallsTyped DEF GasInv, TreasuryPays, At, ShopCallType, ShopCall
<1>2. PICK paid \in BOOLEAN, answered \in BOOLEAN :
        /\ answered => paid
        /\ paid => \A o \in gcall[c].orders : payouts[o] < MaxPayouts
        /\ payouts' = [o \in GasOrders |-> IF paid /\ o \in gcall[c].orders
                                           THEN payouts[o] + 1 ELSE payouts[o]]
        /\ unlucky' = IF paid /\ ~answered THEN unlucky \cup gcall[c].orders ELSE unlucky
        /\ To(c, IF answered THEN "record" ELSE "release")
  BY DEF TreasuryPays
<1>3. UNCHANGED <<gasVars, orderVars, upline, commission, tierVars, halts>>
  BY DEF TreasuryPays
<1>4. gcall' \in ShopCallType /\ ShopOthersKept(c) /\ gcall'[c].pc = (IF answered THEN "record" ELSE "release")
      /\ gcall'[c].orders = gcall[c].orders
  <2>1. (IF answered THEN "record" ELSE "release") \in ShopPcs
    BY DEF ShopPcs
  <2> QED BY <1>1, <1>2, <2>1, ToKeeps
<1>5. \A o \in GasOrders : payouts'[o] = IF paid /\ o \in gcall[c].orders THEN payouts[o] + 1 ELSE payouts[o]
  BY <1>2
<1>6. \A o \in GasOrders : payouts[o] \in 0 .. MaxPayouts
  BY <1>1 DEF GasTypeOK
<1>7. GasTypeOK'
  <2>1. payouts' \in [GasOrders -> 0 .. MaxPayouts]
    BY <1>2, <1>6, GasAssumption DEF GasAssumption
  <2>2. unlucky' \subseteq GasOrders
    BY <1>1, <1>2 DEF GasTypeOK
  <2> QED BY <1>1, <1>3, <1>4, <2>1, <2>2 DEF GasTypeOK, ShopCallType, ShopCall, ShopPcs, gasVars, orderVars, tierVars
<1>8. SpendInv' /\ TierInv' /\ OneOrder' /\ GrantedIsOver' /\ GrantsCounted'
  BY <1>3, <1>4, ClaimStepFrame
<1>9. CommissionOfGrant'
  BY <1>3 DEF GasInv, OrderInv, CommissionOfGrant, orderVars
<1>10. HeldIsClaimed'
  BY <1>1, <1>3, <1>4 DEF GasInv, CommissionInv, HeldIsClaimed, ShopOthersKept, ShopKept
\* A commission of the claim was paid for sure when it is recorded, and not at all when it is released.
<1>11. ASSUME NEW o \in gcall[c].orders
       PROVE  /\ commission'[o] = "claimed"
              /\ \A d \in ShopCalls \ {c} : gcall'[d].pc \in Holding => o \notin gcall'[d].orders
              /\ o \notin unlucky' => IF gcall'[c].pc = "record" THEN payouts'[o] > 0 ELSE payouts'[o] = 0
  <2>1. o \in GasOrders
    BY <1>1
  <2>2. commission[o] = "claimed" /\ \A d \in ShopCalls \ {c} : gcall[d].pc \in Holding => o \notin gcall[d].orders
    BY <1>1 DEF GasInv, CommissionInv, HeldIsClaimed
  <2>3. o \notin unlucky => payouts[o] = 0
    BY <1>1, <2>1 DEF GasInv, CommissionInv, NotPaidYet
  <2> QED BY <1>2, <1>3, <1>4, <1>5, <2>1, <2>2, <2>3 DEF ShopOthersKept, ShopKept
<1>12. \A o \in GasOrders \ gcall[c].orders : payouts'[o] = payouts[o] /\ (o \in unlucky' <=> o \in unlucky)
  BY <1>2, <1>5
<1>13. NotPaidYet'
  <2>1. ASSUME NEW o \in GasOrders \ unlucky'
        PROVE  commission'[o] # "claimed" => payouts'[o] = 0
    BY <1>3, <1>11, <1>12 DEF GasInv, CommissionInv, NotPaidYet
  <2>2. ASSUME NEW o \in GasOrders \ unlucky', NEW d \in ShopCalls, o \in gcall'[d].orders
        PROVE  /\ gcall'[d].pc \in {"payout", "release"} => payouts'[o] = 0
               /\ gcall'[d].pc = "record" => payouts'[o] > 0
    <3>1. CASE d = c
      BY <1>4, <1>11, <2>2, <3>1
    <3>2. CASE d # c
      BY <1>4, <1>11, <1>12, <2>2, <3>2 DEF GasInv, CommissionInv, NotPaidYet, ShopOthersKept, ShopKept
    <3> QED BY <3>1, <3>2
  <2> QED BY <2>1, <2>2 DEF NotPaidYet
<1>14. ClaimedIsPaid'
  BY <1>1, <1>3, <1>4, <1>12 DEF GasInv, CommissionInv, ClaimedIsPaid, ShopOthersKept, ShopKept
<1> QED BY <1>7, <1>8, <1>9, <1>10, <1>13, <1>14 DEF GasInv, OrderInv, CommissionInv

\* A claim gives back what it holds.
LEMMA ReleasesStep ==
  ASSUME GasInv, NEW c \in ShopCalls, ClaimReleases(c)
  PROVE  GasInv'
<1> USE DEF AboutOrder, WritingTier, Holding
<1>1. gcall \in ShopCallType /\ GasTypeOK /\ gcall[c].pc = "release" /\ gcall[c].orders \subseteq GasOrders
  BY CallsTyped DEF GasInv, ClaimReleases, At, ShopCallType, ShopCall
<1>2. commission' = [o \in GasOrders |-> IF o \in gcall[c].orders THEN "open" ELSE commission[o]]
      /\ UNCHANGED <<gasVars, orderVars, upline, payouts, unlucky, tierVars, halts>>
  BY DEF ClaimReleases
<1>3. gcall' \in ShopCallType /\ ShopOthersKept(c) /\ gcall'[c].pc = "idle"
  BY <1>1, OverBlanks DEF ClaimReleases
<1>4. \A o \in GasOrders : commission'[o] = IF o \in gcall[c].orders THEN "open" ELSE commission[o]
  BY <1>2
<1>5. \A o \in gcall[c].orders : commission[o] = "claimed"
         /\ \A d \in ShopCalls \ {c} : gcall[d].pc \in Holding => o \notin gcall[d].orders
  BY <1>1 DEF GasInv, CommissionInv, HeldIsClaimed
<1>6. GasTypeOK'
  BY <1>1, <1>2, <1>3 DEF GasTypeOK, ShopCallType, ShopCall, ShopPcs, gasVars, orderVars, tierVars
<1>7. SpendInv' /\ TierInv' /\ OneOrder' /\ GrantedIsOver' /\ GrantsCounted'
  BY <1>2, <1>3, ClaimStepFrame
<1>8. CommissionOfGrant'
  BY <1>1, <1>2, <1>4, <1>5 DEF GasInv, OrderInv, CommissionOfGrant, orderVars
<1>9. HeldIsClaimed'
  <2>1. ASSUME NEW d \in ShopCalls, gcall'[d].pc \in Holding, NEW o \in gcall'[d].orders
        PROVE  commission'[o] = "claimed" /\ \A e \in ShopCalls \ {d} : gcall'[e].pc \in Holding => o \notin gcall'[e].orders
    <3>1. d # c /\ o \in GasOrders
      BY <1>3, <2>1 DEF ShopCallType, ShopCall
    <3>2. gcall[d].pc \in Holding /\ o \in gcall[d].orders
      BY <1>3, <2>1, <3>1 DEF ShopOthersKept, ShopKept
    <3> QED BY <1>1, <1>3, <1>4, <1>5, <3>1, <3>2 DEF GasInv, CommissionInv, HeldIsClaimed, ShopOthersKept, ShopKept
  <2> QED BY <2>1 DEF HeldIsClaimed
<1>10. NotPaidYet'
  <2>1. ASSUME NEW o \in GasOrders \ unlucky'
        PROVE  commission'[o] # "claimed" => payouts'[o] = 0
    BY <1>1, <1>2, <1>4 DEF GasInv, CommissionInv, NotPaidYet
  <2>2. ASSUME NEW o \in GasOrders \ unlucky', NEW d \in ShopCalls, o \in gcall'[d].orders
        PROVE  /\ gcall'[d].pc \in {"payout", "release"} => payouts'[o] = 0
               /\ gcall'[d].pc = "record" => payouts'[o] > 0
    BY <1>2, <1>3, <2>2 DEF GasInv, CommissionInv, NotPaidYet, ShopOthersKept, ShopKept
  <2> QED BY <2>1, <2>2 DEF NotPaidYet
<1>11. ClaimedIsPaid'
  <2>1. ASSUME NEW o \in GasOrders, commission'[o] = "claimed", o \notin unlucky',
               \A d \in ShopCalls : gcall'[d].pc \in Holding => o \notin gcall'[d].orders
        PROVE  payouts'[o] > 0
    <3>1. o \notin gcall[c].orders /\ commission[o] = "claimed" /\ o \notin unlucky
      BY <1>2, <1>4, <2>1
    <3>2. \A d \in ShopCalls : gcall[d].pc \in Holding => o \notin gcall[d].orders
      BY <1>3, <2>1, <3>1 DEF ShopOthersKept, ShopKept
    <3> QED BY <1>2, <3>1, <3>2 DEF GasInv, CommissionInv, ClaimedIsPaid
  <2> QED BY <2>1 DEF ClaimedIsPaid
<1> QED BY <1>6, <1>7, <1>8, <1>9, <1>10, <1>11 DEF GasInv, OrderInv, CommissionInv

\* A claim ends, as recorded or by a stop, and leaves what it holds behind.
LEMMA ClaimLeft ==
  ASSUME GasInv, NEW c \in ShopCalls, gcall' \in ShopCallType, ShopOthersKept(c), gcall'[c].pc = "idle",
         UNCHANGED <<commission, payouts>>,
         unlucky \subseteq unlucky',
         gcall[c].pc \in {"payout", "release"} => gcall[c].orders \subseteq unlucky'
  PROVE  CommissionInv'
<1> USE DEF Holding, ShopOthersKept, ShopKept
<1>1. gcall \in ShopCallType
  BY CallsTyped DEF GasInv
<1>2. HeldIsClaimed'
  BY DEF GasInv, CommissionInv, HeldIsClaimed
<1>3. NotPaidYet'
  BY DEF GasInv, CommissionInv, NotPaidYet
<1>4. ClaimedIsPaid'
  <2>1. ASSUME NEW o \in GasOrders, commission'[o] = "claimed", o \notin unlucky',
               \A d \in ShopCalls : gcall'[d].pc \in Holding => o \notin gcall'[d].orders
        PROVE  payouts'[o] > 0
    <3>1. CASE gcall[c].pc = "record" /\ o \in gcall[c].orders
      BY <2>1, <3>1 DEF GasInv, CommissionInv, NotPaidYet
    <3>2. CASE ~(gcall[c].pc = "record" /\ o \in gcall[c].orders)
      <4>1. \A d \in ShopCalls : gcall[d].pc \in Holding => o \notin gcall[d].orders
        BY <2>1, <3>2
      <4> QED BY <2>1, <4>1 DEF GasInv, CommissionInv, ClaimedIsPaid
    <3> QED BY <3>1, <3>2
  <2> QED BY <2>1 DEF ClaimedIsPaid
<1> QED BY <1>2, <1>3, <1>4 DEF CommissionInv

LEMMA ClaimStep == GasInv /\ ClaimNext => GasInv'
<1> SUFFICES ASSUME GasInv, ClaimNext PROVE GasInv'
  OBVIOUS
<1>0. gcall \in ShopCallType /\ GasTypeOK
  BY CallsTyped DEF GasInv
<1> USE DEF AboutOrder, WritingTier, Holding
<1>1. ASSUME NEW c \in ShopCalls, ClaimReads(c) PROVE GasInv'
  <2>1. {o \in GasOrders : commission[o] = "open"} \in SUBSET GasOrders
    OBVIOUS
  <2>2. gcall' \in ShopCallType /\ ShopOthersKept(c) /\ gcall'[c].pc = "reserve"
    BY <1>0, <1>1, <2>1, StartKeeps DEF ClaimReads, ShopPcs
  <2> QED BY <1>1, <2>2, CallMoves DEF ClaimReads, At
<1>2. ASSUME NEW c \in ShopCalls, ClaimReserves(c) PROVE GasInv'
  BY <1>2, ReservesStep
<1>3. ASSUME NEW c \in ShopCalls, TreasuryPays(c) PROVE GasInv'
  BY <1>3, PaysStep
<1>4. ASSUME NEW c \in ShopCalls, ClaimReleases(c) PROVE GasInv'
  BY <1>4, ReleasesStep
<1>5. ASSUME NEW c \in ShopCalls, ClaimRecords(c) PROVE GasInv'
  <2>1. gcall' \in ShopCallType /\ ShopOthersKept(c) /\ gcall'[c].pc = "idle" /\ gcall[c].pc = "record"
        /\ UNCHANGED <<gasVars, orderVars, upline, commVars, tierVars, halts>>
    BY <1>0, <1>5, OverBlanks DEF ClaimRecords, At
  <2>2. CommissionInv'
    BY <2>1, ClaimLeft DEF commVars
  <2>3. GasTypeOK' /\ SpendInv' /\ TierInv' /\ OneOrder' /\ GrantedIsOver' /\ GrantsCounted'
    BY <1>0, <2>1, ShopTypeFrame, ClaimStepFrame
  <2>4. CommissionOfGrant'
    BY <2>1 DEF GasInv, OrderInv, CommissionOfGrant, orderVars, commVars
  <2> QED BY <2>2, <2>3, <2>4 DEF GasInv, OrderInv
<1> QED BY <1>1, <1>2, <1>3, <1>4, <1>5 DEF ClaimNext

LEMMA HaltStep ==
  ASSUME GasInv, NEW c \in ShopCalls, ShopHalts(c)
  PROVE  GasInv'
<1> USE DEF AboutOrder, WritingTier, Holding
<1>1. gcall \in ShopCallType /\ GasTypeOK /\ gcall[c].orders \subseteq GasOrders
  BY CallsTyped DEF GasInv, ShopCallType, ShopCall
<1>2. gcall' \in ShopCallType /\ ShopOthersKept(c) /\ gcall'[c].pc = "idle"
  BY <1>1, OverBlanks DEF ShopHalts
<1>3. halts < MaxHalts /\ halts' = halts + 1
      /\ unlucky' = (IF gcall[c].pc \in {"payout", "release", "record"}
                     THEN unlucky \cup gcall[c].orders ELSE unlucky)
      /\ UNCHANGED <<gasVars, orderVars, upline, commission, payouts, tierVars>>
  BY DEF ShopHalts
<1>4. GasTypeOK'
  BY <1>1, <1>2, <1>3, GasAssumption DEF GasAssumption, GasTypeOK, ShopCallType, ShopCall, ShopPcs, gasVars, orderVars, tierVars
<1>5. SpendInv' /\ TierInv' /\ OneOrder' /\ GrantedIsOver' /\ GrantsCounted'
  BY <1>2, <1>3, ClaimStepFrame
<1>6. CommissionOfGrant'
  BY <1>3 DEF GasInv, OrderInv, CommissionOfGrant, orderVars
<1>7. CommissionInv'
  BY <1>2, <1>3, ClaimLeft
<1> QED BY <1>4, <1>5, <1>6, <1>7 DEF GasInv, OrderInv

LEMMA GasNextInv == GasInv /\ [GasNext]_shopVars => GasInv'
<1> SUFFICES ASSUME GasInv, [GasNext]_shopVars PROVE GasInv'
  OBVIOUS
<1>1. CASE UNCHANGED shopVars
  <2> USE <1>1 DEF shopVars
  <2>1. GasTypeOK' /\ SpendInv' /\ TierInv'
    BY DEF GasInv, GasTypeOK, SpendInv, TierInv
  <2>2. OrderInv'
    BY DEF GasInv, OrderInv, OneOrder, GrantedIsOver, GrantsCounted, CommissionOfGrant
  <2>3. CommissionInv'
    BY DEF GasInv, CommissionInv, HeldIsClaimed, NotPaidYet, ClaimedIsPaid
  <2> QED BY <2>1, <2>2, <2>3 DEF GasInv
<1> QED BY <1>1, SpendStep, PackageStep, TierStep, ClaimStep, HaltStep DEF GasNext

-----------------------------------------------------------------------------
(* The theorems.                                                           *)

LEMMA GasAlways == GasSpec => []GasInv
BY GasInitInv, GasNextInv, PTL DEF GasSpec

LEMMA GasTypes == GasInv => GasTypeOK
BY DEF GasInv

\* The balance, the orders, the tiers and the commissions keep their types, whatever calls
\* run beside each other.
THEOREM ShopTyped == GasSpec => []GasTypeOK
BY GasTypes, GasAlways, PTL

LEMMA GrantPromise == GasInv => GrantedTwiceNeedsOverlap
BY DEF GasInv, OrderInv, GrantsCounted, CommissionOfGrant, GasTypeOK, GrantedTwiceNeedsOverlap

\* For every number of calls and orders, the gas of an order comes twice only when two calls
\* about it overlapped and no upline earned on it (gasPackage.ts, orders updated by id).
THEOREM GrantsCorrect == GasSpec => []GrantedTwiceNeedsOverlap
BY GrantPromise, GasAlways, PTL

LEMMA ClaimPromise == GasInv => ClaimedIsPaid
BY DEF GasInv, CommissionInv

\* For every number of claims, a claimed commission that no claim holds was paid, unless its
\* claim was cut off or conflicted (gas.ts, reserved before the transfer).
THEOREM ClaimsCorrect == GasSpec => []ClaimedIsPaid
BY ClaimPromise, GasAlways, PTL

-----------------------------------------------------------------------------
(* What a step may not do.                                                 *)

\* Only a spend takes gas.
LEMMA GasFalls ==
  ASSUME GasInv, GasNext, gas' < gas
  PROVE  \E c \in ShopCalls : SpendGasBalance(c)
<1>1. gas \in Int /\ PackageGas \in Nat
  BY GasAssumption DEF GasInv, GasTypeOK, GasAssumption
<1> USE DEF gasVars
<1>2. ASSUME NEW c \in ShopCalls, OrderAssertsGas(c) \/ OrderPlaced(c) \/ SpendReads(c) PROVE FALSE
  BY <1>1, <1>2 DEF OrderAssertsGas, OrderPlaced, SpendReads
<1>3. ASSUME PackageNext PROVE FALSE
  <2>1. ASSUME NEW o \in GasOrders, CreatePackageOrder(o) PROVE FALSE
    BY <1>1, <2>1 DEF CreatePackageOrder
  <2>2. ASSUME NEW o \in GasOrders, NEW c \in ShopCalls, ConfirmReads(c, o) \/ FulfilReads(c, o) PROVE FALSE
    BY <1>1, <2>2 DEF ConfirmReads, FulfilReads
  <2>3. ASSUME NEW c \in ShopCalls, ConfirmWrites(c) \/ FulfilPaidPackageOrder(c) PROVE FALSE
    BY <1>1, <2>3 DEF ConfirmWrites, FulfilPaidPackageOrder
  <2> QED BY <1>3, <2>1, <2>2, <2>3 DEF PackageNext
<1>4. ASSUME TierNext PROVE FALSE
  <2>1. ASSUME NEW c \in ShopCalls, TierBuys(c) \/ TierPaid(c) \/ FulfilTierReads(c) \/ AutoUpgradeReads(c) PROVE FALSE
    BY <1>1, <2>1 DEF TierBuys, TierPaid, FulfilTierReads, AutoUpgradeReads
  <2>2. ASSUME NEW c \in ShopCalls, FulfilTierWrites(c) \/ AutoUpgradeWrites(c) PROVE FALSE
    BY <1>1, <2>2 DEF FulfilTierWrites, AutoUpgradeWrites, WritesTier
  <2>3. ASSUME NEW t \in 0 .. TopTier, AdminSetsTier(t) PROVE FALSE
    BY <1>1, <2>3 DEF AdminSetsTier
  <2> QED BY <1>4, <2>1, <2>2, <2>3 DEF TierNext
<1>5. ASSUME ClaimNext PROVE FALSE
  BY <1>1, <1>5 DEF ClaimNext, ClaimReads, ClaimReserves, TreasuryPays, ClaimReleases, ClaimRecords
<1>6. ASSUME NEW c \in ShopCalls, ShopHalts(c) PROVE FALSE
  BY <1>1, <1>6 DEF ShopHalts
<1> QED BY <1>2, <1>3, <1>4, <1>5, <1>6 DEF GasNext, SpendNext

\* For every number of spends beside each other: one that may not go into debt takes the
\* balance below zero only after another took gas between its check and its decrement
\* (gas.ts, a check and a decrement in a READ COMMITTED transaction).
THEOREM OverspendsCorrect == GasSpec => OverspendNeedsOverlap
<1>1. ASSUME GasInv, [GasNext]_shopVars
      PROVE  [gas' < 0 /\ gas' < gas
                => \E c \in ShopCalls : At(c, "spend") /\ (gcall[c].debt \/ gcall[c].raced)]_shopVars
  <2> SUFFICES ASSUME GasNext, gas' < 0, gas' < gas
               PROVE  \E c \in ShopCalls : At(c, "spend") /\ (gcall[c].debt \/ gcall[c].raced)
    BY <1>1
  <2>1. PICK c \in ShopCalls : SpendGasBalance(c)
    BY <1>1, GasFalls
  <2>2. At(c, "spend") /\ gas' = gas - 1 /\ gas \in Int
    BY <1>1, <2>1 DEF SpendGasBalance, GasInv, GasTypeOK
  <2>3. ~(gas >= 1)
    BY <2>2
  <2>4. gcall[c].debt \/ gcall[c].raced
    BY <1>1, <2>2, <2>3 DEF GasInv, SpendInv, At
  <2> QED BY <2>2, <2>4
<1> QED BY <1>1, GasAlways, PTL DEF GasSpec, OverspendNeedsOverlap

\* Only the payout of a claim pays.
LEMMA PaysOnly ==
  ASSUME GasInv, GasNext, payouts' # payouts
  PROVE  \E c \in ShopCalls : TreasuryPays(c)
<1> USE DEF commVars
<1>1. ASSUME SpendNext PROVE FALSE
  BY <1>1 DEF SpendNext, OrderAssertsGas, OrderPlaced, SpendReads, SpendGasBalance
<1>2. ASSUME PackageNext PROVE FALSE
  BY <1>2 DEF PackageNext, CreatePackageOrder, ConfirmReads, FulfilReads, ConfirmWrites, FulfilPaidPackageOrder
<1>3. ASSUME TierNext PROVE FALSE
  BY <1>3 DEF TierNext, TierBuys, TierPaid, FulfilTierReads, FulfilTierWrites, AutoUpgradeReads,
     AutoUpgradeWrites, WritesTier, AdminSetsTier
<1>4. ASSUME NEW c \in ShopCalls, ClaimReads(c) \/ ClaimReserves(c) \/ ClaimReleases(c) \/ ClaimRecords(c) \/ ShopHalts(c)
      PROVE  FALSE
  BY <1>4 DEF ClaimReads, ClaimReserves, ClaimReleases, ClaimRecords, ShopHalts
<1> QED BY <1>1, <1>2, <1>3, <1>4 DEF GasNext, ClaimNext

\* For every number of claims that run, fail and stop beside each other, a commission is paid
\* again only after a payout that was made and not answered.
THEOREM PayoutsCorrect == GasSpec => PaidAgainNeedsLostAnswer
<1>1. ASSUME GasInv, [GasNext]_shopVars
      PROVE  [\A o \in GasOrders : payouts'[o] > payouts[o] /\ payouts[o] > 0 => o \in unlucky]_shopVars
  <2> SUFFICES ASSUME GasNext, NEW o \in GasOrders, payouts'[o] > payouts[o], payouts[o] > 0, o \notin unlucky
               PROVE  FALSE
    BY <1>1
  <2>1. payouts \in [GasOrders -> 0 .. MaxPayouts]
    BY <1>1 DEF GasInv, GasTypeOK
  <2>2. PICK c \in ShopCalls : TreasuryPays(c)
    BY <1>1, <2>1, PaysOnly
  <2>3. gcall[c].pc = "payout" /\ o \in gcall[c].orders
    BY <2>1, <2>2 DEF TreasuryPays, At
  <2>4. payouts[o] = 0
    BY <1>1, <2>3 DEF GasInv, CommissionInv, NotPaidYet
  <2> QED BY <2>4
<1> QED BY <1>1, GasAlways, PTL DEF GasSpec, PaidAgainNeedsLostAnswer

\* A tier that falls was written from what a call had read, or by an administrator.
LEMMA TierFalls ==
  ASSUME GasInv, GasNext, tier' < tier
  PROVE  \/ tierSets' > tierSets
         \/ \E c \in ShopCalls : gcall[c].pc \in WritingTier /\ WritesTier(c)
<1>1. tier \in Int /\ tierSets \in Int
  BY DEF GasInv, GasTypeOK
<1> USE DEF tierVars
<1>2. ASSUME SpendNext PROVE FALSE
  BY <1>1, <1>2 DEF SpendNext, OrderAssertsGas, OrderPlaced, SpendReads, SpendGasBalance
<1>3. ASSUME PackageNext PROVE FALSE
  <2>1. ASSUME NEW o \in GasOrders, CreatePackageOrder(o) PROVE FALSE
    BY <1>1, <2>1 DEF CreatePackageOrder
  <2>2. ASSUME NEW o \in GasOrders, NEW c \in ShopCalls, ConfirmReads(c, o) \/ FulfilReads(c, o) PROVE FALSE
    BY <1>1, <2>2 DEF ConfirmReads, FulfilReads
  <2>3. ASSUME NEW c \in ShopCalls, ConfirmWrites(c) \/ FulfilPaidPackageOrder(c) PROVE FALSE
    BY <1>1, <2>3 DEF ConfirmWrites, FulfilPaidPackageOrder
  <2> QED BY <1>3, <2>1, <2>2, <2>3 DEF PackageNext
<1>4. ASSUME ClaimNext PROVE FALSE
  BY <1>1, <1>4 DEF ClaimNext, ClaimReads, ClaimReserves, TreasuryPays, ClaimReleases, ClaimRecords
<1>5. ASSUME NEW c \in ShopCalls, ShopHalts(c) PROVE FALSE
  BY <1>1, <1>5 DEF ShopHalts
<1>6. ASSUME NEW c \in ShopCalls, TierBuys(c) \/ TierPaid(c) \/ FulfilTierReads(c) \/ AutoUpgradeReads(c) PROVE FALSE
  BY <1>1, <1>6 DEF TierBuys, TierPaid, FulfilTierReads, AutoUpgradeReads
<1>7. ASSUME NEW c \in ShopCalls, FulfilTierWrites(c) \/ AutoUpgradeWrites(c)
      PROVE  gcall[c].pc \in WritingTier /\ WritesTier(c)
  BY <1>7 DEF FulfilTierWrites, AutoUpgradeWrites, At, WritingTier
<1>8. ASSUME NEW t \in 0 .. TopTier, AdminSetsTier(t) PROVE tierSets' > tierSets
  BY <1>1, <1>8 DEF AdminSetsTier
<1> QED BY <1>2, <1>3, <1>4, <1>5, <1>6, <1>7, <1>8 DEF GasNext, TierNext

\* For every number of purchases and upgrades beside each other, a tier drops only at an
\* administrator's hand or by a write of what was computed before the tier was raised
\* (affiliateTierAutoUpgrade.ts).
THEOREM TiersCorrect == GasSpec => TierDropNeedsOverlap
<1>1. ASSUME GasInv, [GasNext]_shopVars
      PROVE  [tier' < tier => tierSets' > tierSets \/ \E c \in ShopCalls :
                gcall[c].pc \in {"tierWrite", "upgrade"} /\ gcall[c].raced /\ gcall'[c].pc = "idle"]_shopVars
  <2> SUFFICES ASSUME GasNext, tier' < tier, ~(tierSets' > tierSets)
               PROVE  \E c \in ShopCalls :
                        gcall[c].pc \in {"tierWrite", "upgrade"} /\ gcall[c].raced /\ gcall'[c].pc = "idle"
    BY <1>1
  <2>1. PICK c \in ShopCalls : gcall[c].pc \in WritingTier /\ WritesTier(c)
    BY <1>1, TierFalls
  <2>2. gcall'[c].pc = "idle"
    BY <2>1 DEF WritesTier, OverAndRaced, NoShopCall
  <2>3. tier \in Int /\ tier' = gcall[c].tier
    BY <1>1, <2>1 DEF GasInv, GasTypeOK, WritesTier
  <2>4. gcall[c].tier \in Int
    BY <1>1, CallsTyped DEF GasInv, ShopCallType, ShopCall
  <2>5. gcall[c].raced
    BY <1>1, <2>1, <2>3, <2>4 DEF GasInv, TierInv
  <2> QED BY <2>1, <2>2, <2>5 DEF WritingTier
<1> QED BY <1>1, GasAlways, PTL DEF GasSpec, TierDropNeedsOverlap
=============================================================================

--------------------------- MODULE DepositPayout ---------------------------
(***************************************************************************)
(* Payments out of one user's Polymarket deposit wallet: withdrawals and   *)
(* purchases paid from it, each a request row, a relayer batch and what is *)
(* credited once the batch is mined.  API calls run beside each other, a   *)
(* client repeats a withdrawal under its idempotency key, requests age,    *)
(* answers of the relayer are lost and the process stops between two       *)
(* steps.  A payment is one unit.                                          *)
(***************************************************************************)
EXTENDS Integers, FiniteSets, Sequences

CONSTANTS
    PayCalls,     \* API calls that may run at once
    Withdrawals,  \* idempotency keys of withdrawals, chosen by the client
    Purchases,    \* orders paid from the deposit wallet; each has a key of its own
    BuilderSlots, \* relayer credentials tried one after the other
    Deposit,      \* units in the deposit wallet
    MaxBatches,   \* batches the relayer accepts (bound)
    MaxStops,     \* stops of a process in mid-call (bound)
    NoKey         \* a call that only looks at the withdrawal preview

PayKeys == Withdrawals \cup Purchases

ASSUME PayAssumption ==
    /\ BuilderSlots \in Nat \ {0} /\ Deposit \in Nat /\ MaxBatches \in Nat /\ MaxStops \in Nat
    /\ NoKey \notin PayKeys /\ Withdrawals \cap Purchases = {}

VARIABLES
    request,   \* PolymarketDepositWithdrawRequest, one row per key
    batch,     \* batches the relayer accepted: key and state
    units,     \* units left in the deposit wallet
    pcall,     \* what each API call is doing
    credited,  \* keys with a wallet ledger row; for a purchase: the order is fulfilled
    ordered,   \* purchases whose order row exists
    stops,     \* process stops so far
    broken     \* keys whose request was ever marked FAILED or whose call was stopped

payVars == <<request, batch, units, pcall, credited, ordered, stops, broken>>

Open == {k \in PayKeys : request[k].st \in {"PENDING", "RELAYER_SUBMITTED"}}
BatchesOf(k) == {i \in DOMAIN batch : batch[i].key = k}
Mined(k) == \E i \in BatchesOf(k) : batch[i].st = "mined"
Queued == {i \in DOMAIN batch : batch[i].st = "queued"}

Idle == [pc |-> "idle", key |-> NoKey, round |-> 1, ok |-> {}, bad |-> {}, tx |-> 0,
         slot |-> 1, raced |-> FALSE, limited |-> FALSE]

\* The batch matters while a row is submitted, its age while it is pending.
NoRow == [st |-> "none", tx |-> 0, old |-> FALSE]

PayInit ==
    /\ request = [k \in PayKeys |-> NoRow]
    /\ batch = <<>> /\ units = Deposit
    /\ pcall = [c \in PayCalls |-> Idle]
    /\ credited = {} /\ ordered = {} /\ stops = 0 /\ broken = {}

-----------------------------------------------------------------------------
(* The call: recover old requests, replay, check, acquire a row.           *)

Goes(c, pc) == pcall' = [pcall EXCEPT ![c].pc = pc]
Ends(c) == pcall' = [pcall EXCEPT ![c] = Idle]
Credits(c) == pcall' = [pcall EXCEPT ![c] = [Idle EXCEPT !.pc = "credit", !.key = pcall[c].key]]
Sets(keys, st) ==
    request' = [k \in PayKeys |-> IF k \in keys THEN [NoRow EXCEPT !.st = st] ELSE request[k]]

Starts(c, k, round) ==
    /\ pcall[c].pc = "idle"
    /\ pcall' = [pcall EXCEPT ![c] = [Idle EXCEPT !.pc = "stale", !.key = k, !.round = round]]

Withdraws(c, k) ==
    /\ Starts(c, k, 1)
    /\ UNCHANGED <<request, batch, units, credited, ordered, stops, broken>>

\* A purchase previews first and is refused while a request is open, then creates its order.
BuysFromDeposit(c, k) ==
    /\ k \notin ordered /\ Open = {} /\ units > 0
    /\ ordered' = ordered \cup {k}
    /\ Starts(c, k, 2)
    /\ UNCHANGED <<request, batch, units, credited, stops, broken>>

\* The preview recovers only when it sees a request to recover.
PayLooks(c) ==
    /\ pcall[c].pc = "idle"
    /\ \E k \in Open : request[k].st = "RELAYER_SUBMITTED" \/ request[k].old
    /\ pcall' = [pcall EXCEPT ![c].pc = "stale"]
    /\ UNCHANGED <<request, batch, units, credited, ordered, stops, broken>>

RecoverReadStale(c) ==
    /\ pcall[c].pc = "stale"
    /\ LET stale == {k \in Open : request[k].st = "PENDING" /\ request[k].tx = 0 /\ request[k].old}
       IN pcall' = [pcall EXCEPT ![c].pc = IF stale = {} THEN "inflight" ELSE "expire", ![c].bad = stale]
    /\ UNCHANGED <<request, batch, units, credited, ordered, stops, broken>>

RecoverExpire(c) ==
    /\ pcall[c].pc = "expire"
    /\ Sets(pcall[c].bad, "FAILED") /\ broken' = broken \cup pcall[c].bad
    /\ pcall' = [pcall EXCEPT ![c].pc = "inflight", ![c].bad = {}]
    /\ UNCHANGED <<batch, units, credited, ordered, stops>>

\* The poll of a submitted request may fail; it is then left as it is.
RecoverPoll(c) ==
    /\ pcall[c].pc = "inflight"
    /\ \E polled \in SUBSET {k \in PayKeys : request[k].st = "RELAYER_SUBMITTED"} :
          LET is(st) == {k \in polled : batch[request[k].tx].st = st}
          IN pcall' = [pcall EXCEPT ![c].pc = "resolve", ![c].ok = is("mined"), ![c].bad = is("failed")]
    /\ UNCHANGED <<request, batch, units, credited, ordered, stops, broken>>

AfterRecover(c) ==
    IF pcall[c].key = NoKey \/ (pcall[c].round = 1 /\ pcall[c].key \in credited) THEN "idle"
    ELSE IF pcall[c].round = 1 THEN "stale" ELSE "acquire"

\* The first recovery of a withdrawal is followed by the replay from the ledger, the second
\* by the preview, whose limit is the balance at that time.
RecoverResolve(c) ==
    /\ pcall[c].pc = "resolve"
    /\ request' = [k \in PayKeys |->
                     IF k \in pcall[c].ok THEN [NoRow EXCEPT !.st = "CONFIRMED"]
                     ELSE IF k \in pcall[c].bad THEN [NoRow EXCEPT !.st = "FAILED"]
                     ELSE request[k]]
    /\ broken' = broken \cup pcall[c].bad
    /\ LET next == IF AfterRecover(c) = "acquire" /\ units = 0 THEN "idle" ELSE AfterRecover(c)
       IN pcall' = [pcall EXCEPT ![c] = IF next = "idle" THEN Idle
                                        ELSE [@ EXCEPT !.pc = next, !.round = 2, !.ok = {}, !.bad = {}]]
    /\ UNCHANGED <<batch, units, credited, ordered, stops>>

\* Mutant: a failed request is replayed as if it were confirmed.
ReplaysFailed(c) ==
    IF request[pcall[c].key].st \in {"CONFIRMED", "FAILED"} THEN Credits(c) ELSE Ends(c)

\* A confirmed request is replayed; an open or failed one is a conflict.
ResolveIdempotency(c) ==
    IF request[pcall[c].key].st = "CONFIRMED" THEN Credits(c) ELSE Ends(c)

Acquire(c) ==
    /\ pcall[c].pc = "acquire"
    /\ IF request[pcall[c].key].st /= "none" THEN ResolveIdempotency(c) ELSE Goes(c, "count")
    /\ UNCHANGED <<request, batch, units, credited, ordered, stops, broken>>

\* Mutant: submitted requests are not counted as open.
CountPending(c) ==
    /\ pcall[c].pc = "count"
    /\ IF \E k \in Open : request[k].st = "PENDING" THEN Ends(c) ELSE Goes(c, "create")
    /\ UNCHANGED <<request, batch, units, credited, ordered, stops, broken>>

\* Counting and creating are two statements of a READ COMMITTED transaction.
CountOpen(c) ==
    /\ pcall[c].pc = "count"
    /\ IF Open /= {} THEN Ends(c) ELSE Goes(c, "create")
    /\ UNCHANGED <<request, batch, units, credited, ordered, stops, broken>>

\* Mutant: the row of the key is upserted.
UpsertRow(c) ==
    /\ pcall[c].pc = "create"
    /\ request' = [request EXCEPT ![pcall[c].key].st = "PENDING"]
    /\ pcall' = [d \in PayCalls |->
                   CASE d = c -> [pcall[c] EXCEPT !.pc = "submit", !.raced = FALSE]
                     [] d /= c /\ pcall[d].pc = "create" -> [pcall[d] EXCEPT !.raced = TRUE]
                     [] OTHER -> pcall[d]]
    /\ UNCHANGED <<batch, units, credited, ordered, stops, broken>>

CreateRow(c) ==
    /\ pcall[c].pc = "create"
    /\ IF request[pcall[c].key].st /= "none"
       THEN ResolveIdempotency(c) /\ UNCHANGED request
       ELSE /\ request' = [request EXCEPT ![pcall[c].key].st = "PENDING"]
            /\ pcall' = [d \in PayCalls |->
                           CASE d = c -> [pcall[c] EXCEPT !.pc = "submit", !.raced = FALSE]
                             [] d /= c /\ pcall[d].pc = "create" -> [pcall[d] EXCEPT !.raced = TRUE]
                             [] OTHER -> pcall[d]]
    /\ UNCHANGED <<batch, units, credited, ordered, stops, broken>>

-----------------------------------------------------------------------------
(* The payment.                                                            *)

\* Mutant: the loop over the slots runs one too far.
SlotTooFar(c) ==
    IF pcall[c].slot <= BuilderSlots
    THEN pcall' = [pcall EXCEPT ![c].pc = "submit", ![c].slot = @ + 1]
    ELSE Goes(c, "fail")

\* A quota error, or a wallet not yet registered, moves the whole callback to the next slot.
NextSlot(c) ==
    IF pcall[c].slot < BuilderSlots
    THEN pcall' = [pcall EXCEPT ![c].pc = "submit", ![c].slot = @ + 1]
    ELSE Goes(c, "fail")

SubmitRefused(c) ==
    /\ pcall[c].pc = "submit"
    /\ Goes(c, "fail") \/ NextSlot(c)
    /\ UNCHANGED <<request, batch, units, credited, ordered, stops, broken>>

\* The relayer takes one batch of a wallet at a time; its answer may be lost.
SubmitTaken(c) ==
    /\ pcall[c].pc = "submit" /\ Queued = {} /\ Len(batch) < MaxBatches
    /\ batch' = Append(batch, [key |-> pcall[c].key, st |-> "queued"])
    /\ \E answered \in BOOLEAN :
          pcall' = [pcall EXCEPT ![c].pc = IF answered THEN "mark" ELSE "fail",
                                 ![c].tx = IF answered THEN Len(batch) + 1 ELSE 0,
                                 ![c].limited = FALSE]
    /\ UNCHANGED <<request, units, credited, ordered, stops, broken>>

MarkSubmitted(c) ==
    /\ pcall[c].pc = "mark"
    /\ request' = [request EXCEPT ![pcall[c].key] = [NoRow EXCEPT !.st = "RELAYER_SUBMITTED",
                                                                  !.tx = pcall[c].tx]]
    /\ Goes(c, "wait")
    /\ UNCHANGED <<batch, units, credited, ordered, stops, broken>>

WaitMined(c) ==
    /\ pcall[c].pc = "wait" /\ batch[pcall[c].tx].st = "mined"
    /\ Goes(c, "confirm")
    /\ UNCHANGED <<request, batch, units, credited, ordered, stops, broken>>

\* The batch failed, a poll failed, or the wait took too long with the batch still queued.
WaitFails(c) ==
    /\ pcall[c].pc = "wait"
    /\ Goes(c, "fail")
    /\ UNCHANGED <<request, batch, units, credited, ordered, stops, broken>>

\* A poll is refused for its rate: the same classification as a refused submission.
WaitLimited(c) ==
    /\ pcall[c].pc = "wait"
    /\ IF pcall[c].slot < BuilderSlots
       THEN pcall' = [pcall EXCEPT ![c].pc = "submit", ![c].slot = @ + 1, ![c].tx = 0, ![c].limited = TRUE]
       ELSE Goes(c, "fail")
    /\ UNCHANGED <<request, batch, units, credited, ordered, stops, broken>>

Confirm(c) ==
    /\ pcall[c].pc = "confirm"
    /\ Sets({pcall[c].key}, "CONFIRMED")
    /\ Credits(c)
    /\ UNCHANGED <<batch, units, credited, ordered, stops, broken>>

PayFails(c) ==
    /\ pcall[c].pc = "fail"
    /\ Sets({pcall[c].key}, "FAILED") /\ broken' = broken \cup {pcall[c].key}
    /\ Ends(c)
    /\ UNCHANGED <<batch, units, credited, ordered, stops>>

CreditedNow(c, keys) ==
    /\ pcall[c].pc = "credit" /\ pcall[c].key \in keys
    /\ credited' = credited \cup {pcall[c].key}
    /\ Ends(c)
    /\ UNCHANGED <<request, batch, units, ordered, stops, broken>>

\* The wallet ledger row, unique by the key.
LedgerWithdrawal(c) == CreditedNow(c, Withdrawals)

\* One transaction marks the order paid and fulfils it.
FulfilPurchase(c) == CreditedNow(c, Purchases)

PayStops(c) ==
    /\ pcall[c].pc /= "idle" /\ stops < MaxStops
    /\ stops' = stops + 1 /\ broken' = broken \cup ({pcall[c].key} \cap PayKeys)
    /\ Ends(c)
    /\ UNCHANGED <<request, batch, units, credited, ordered>>

\* STALE_PENDING_MS after it was created a request is old.
Ages(k) ==
    /\ request[k].st = "PENDING" /\ ~request[k].old
    /\ request' = [request EXCEPT ![k].old = TRUE]
    /\ UNCHANGED <<batch, units, pcall, credited, ordered, stops, broken>>

\* A transfer without funds reverts.
RelayerEnds(i) ==
    /\ batch[i].st = "queued"
    /\ \/ units > 0 /\ units' = units - 1 /\ batch' = [batch EXCEPT ![i].st = "mined"]
       \/ units' = units /\ batch' = [batch EXCEPT ![i].st = "failed"]
    /\ UNCHANGED <<request, pcall, credited, ordered, stops, broken>>

PayStep(c) ==
    \/ RecoverReadStale(c) \/ RecoverExpire(c) \/ RecoverPoll(c) \/ RecoverResolve(c)
    \/ Acquire(c) \/ CountOpen(c) \/ CreateRow(c)
    \/ SubmitRefused(c) \/ SubmitTaken(c) \/ MarkSubmitted(c)
    \/ WaitMined(c) \/ WaitFails(c) \/ WaitLimited(c) \/ Confirm(c) \/ PayFails(c)
    \/ LedgerWithdrawal(c) \/ FulfilPurchase(c)

\* The calls for some withdrawals and purchases.
PayNextOf(withdrawals, purchases) ==
    \/ \E c \in PayCalls :
          \/ PayStep(c) \/ PayLooks(c) \/ PayStops(c)
          \/ \E k \in withdrawals : Withdraws(c, k)
          \/ \E k \in purchases : BuysFromDeposit(c, k)
    \/ \E k \in PayKeys : Ages(k)
    \/ \E i \in DOMAIN batch : RelayerEnds(i)

PayNext == PayNextOf(Withdrawals, Purchases)

PaySpec == PayInit /\ [][PayNext]_payVars

-----------------------------------------------------------------------------
(* Properties.                                                             *)

\* Types of the payment state.
PayTypeOK ==
    /\ request \in [PayKeys -> [st : {"none", "PENDING", "RELAYER_SUBMITTED", "CONFIRMED", "FAILED"},
                                tx : 0 .. MaxBatches, old : BOOLEAN]]
    /\ batch \in Seq([key : PayKeys, st : {"queued", "mined", "failed"}])
    /\ units \in 0 .. Deposit /\ stops \in 0 .. MaxStops
    /\ credited \subseteq PayKeys /\ ordered \subseteq Purchases /\ broken \subseteq PayKeys
    /\ pcall \in [PayCalls -> [pc : {"idle", "stale", "expire", "inflight", "resolve", "acquire", "count",
                                     "create", "submit", "mark", "wait", "confirm", "fail", "credit"},
                               key : PayKeys \cup {NoKey}, round : 1 .. 2, ok : SUBSET PayKeys,
                               bad : SUBSET PayKeys, tx : 0 .. MaxBatches, slot : 1 .. BuilderSlots,
                               raced : BOOLEAN, limited : BOOLEAN]]

\* Nothing is confirmed, put into the wallet ledger or fulfilled (gas, affiliate tier) for a batch
\* that was not mined, and money that was paid is credited once its calls are over, unless the
\* request was failed or its call was stopped on the way: retries under the same key, recoveries
\* by other calls and replays included.
PaidIffCredited ==
    \A k \in PayKeys :
        /\ (k \in credited \/ request[k].st = "CONFIRMED") => Mined(k)
        /\ Mined(k) /\ k \notin broken /\ (\A c \in PayCalls : pcall[c].key /= k) => k \in credited

\* However often a client repeats a key, and whatever stops, a second batch of that key is only
\* submitted by a call that was refused for its rate while it waited for the first and moved to
\* the next credential.
SecondBatchNeedsRateLimit ==
    [][\A k \in PayKeys : BatchesOf(k) /= {} /\ BatchesOf(k)' /= BatchesOf(k)
           => \E c \in PayCalls : pcall[c].key = k /\ pcall[c].limited]_payVars

\* Two requests of a user are open together only when one was created between the count and the
\* create of the other, or when one of them had been settled and was reopened by its own call:
\* failed by another call, or confirmed for the first of two batches.
SecondOpenNeedsOverlap ==
    [][\A k \in Open' \ Open : Open /= {}
           => \/ \E o \in Open \cup {k} : o \in broken \/ Cardinality(BatchesOf(o)) > 1
              \/ \E c \in PayCalls : pcall[c].key = k /\ pcall[c].raced]_payVars
=============================================================================

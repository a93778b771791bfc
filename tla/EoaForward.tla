----------------------------- MODULE EoaForward -----------------------------
(***************************************************************************)
(* Deposits of one token that arrive at a user's custodial account are     *)
(* forwarded, each time the whole balance.  Callbacks of the chain monitor *)
(* share one forward per process; polls of the balance page start their    *)
(* own beside it.  The account pays the gas of its transfers itself, in    *)
(* POL.  Transactions are mined or revert late, answers are lost, calls    *)
(* throw, and the process stops between two steps.                         *)
(***************************************************************************)
EXTENDS Integers, FiniteSets, Sequences

CONSTANTS
    FwdCalls,     \* forwards that may run at once
    MaxDeposits,  \* deposits that arrive, one unit each (bound)
    MaxSent,      \* transactions the chain takes (bound)
    MaxFaults     \* lost answers, failures and stops (bound)

ASSUME ForwardAssumption == MaxDeposits \in Nat /\ MaxSent \in Nat /\ MaxFaults \in Nat

VARIABLES
    deposited, \* deposits that arrived
    eoa,       \* balance of the account
    sent,      \* transfers broadcast: amount, state, whether the ledger holds the debit, whether
               \* its call missed the answer, was cut off or lost its row, whether it overlapped
    rows,      \* CustodyWithdrawRequest by idempotency key: status and the call that created it
    fcall,     \* what each forward is doing
    pol,       \* whether the POL of the account pays a transfer at the price of the moment
    faults     \* faults so far

fwdVars == <<deposited, eoa, sent, rows, fcall, pol, faults>>

\* A poll's key is made of balance and nonce, a callback's of its deposit.
FwdKeys == [dep : 0 .. MaxDeposits, bal : 0 .. MaxDeposits, nonce : 0 .. MaxSent]
NoFwd == [pc |-> "idle", piped |-> FALSE, key |-> [dep |-> 0, bal |-> 0, nonce |-> 0],
          was |-> "none", amount |-> 0, nonce |-> 0, tx |-> 0]

FwdInit ==
    /\ deposited = 0 /\ eoa = 0 /\ sent = <<>> /\ rows = {}
    /\ fcall = [c \in FwdCalls |-> NoFwd] /\ pol = TRUE /\ faults = 0

Is(c, pc) == fcall[c].pc = pc
Does(c, pc) == fcall' = [fcall EXCEPT ![c].pc = pc]
Quits(c) == fcall' = [fcall EXCEPT ![c] = NoFwd]
RowOf(k) == {r \in rows : r.key = k}
Mine(c) == {r \in rows : r.key = fcall[c].key /\ r.by = c}
Marked(c, st) == (rows \ Mine(c)) \cup {[r EXCEPT !.st = st] : r \in Mine(c)}
Pending == {i \in DOMAIN sent : sent[i].st = "pending"}

-----------------------------------------------------------------------------
(* Deposits, callbacks and polls.                                          *)

Deposited ==
    /\ deposited < MaxDeposits /\ deposited' = deposited + 1 /\ eoa' = eoa + 1
    /\ UNCHANGED <<sent, rows, fcall, pol, faults>>

\* Transfers spend POL, somebody sends some, the price moves.
PolMoves == pol' = ~pol /\ UNCHANGED <<deposited, eoa, sent, rows, fcall, faults>>

\* Without a balance nothing is attempted, nor without gas (PENDING_GAS); the key is made
\* of what is read here.
Forwards(c, piped, d) ==
    /\ Is(c, "idle") /\ eoa > 0 /\ pol
    /\ fcall' = [fcall EXCEPT ![c] = [NoFwd EXCEPT !.pc = "existing", !.piped = piped,
                    !.key = [dep |-> d, bal |-> IF d = 0 THEN eoa ELSE 0,
                             nonce |-> IF d = 0 THEN Len(sent) ELSE 0]]]
    /\ UNCHANGED <<deposited, eoa, sent, rows, pol, faults>>

\* While the process runs a forward for the user a callback joins that one.
GoEoaDepositCallback(c, d) == (\A e \in FwdCalls : ~fcall[e].piped) /\ Forwards(c, TRUE, d)

BalancePoll(c) == Forwards(c, FALSE, 0)

-----------------------------------------------------------------------------
(* One forward: the request row, the transaction, the ledger, the receipt. *)

\* Mutant: a pending request is somebody's and is answered as it is.
AnswersPending(c) ==
    /\ Is(c, "existing")
    /\ LET found == RowOf(fcall[c].key)
       IN CASE found = {} -> Does(c, "create")
            [] \E r \in found : r.st = "PENDING" \/ (r.st = "BROADCASTED" /\ eoa = 0) -> Quits(c)
            [] OTHER -> \E r \in found : fcall' = [fcall EXCEPT ![c].pc = "drop", ![c].was = r.by]
    /\ UNCHANGED <<deposited, eoa, sent, rows, pol, faults>>

\* Of an earlier sweep only one that was broadcast and left no balance is answered as it is.
ReadExisting(c) ==
    /\ Is(c, "existing")
    /\ LET found == RowOf(fcall[c].key)
       IN CASE found = {} -> Does(c, "create")
            [] \E r \in found : r.st = "BROADCASTED" /\ eoa = 0 -> Quits(c)
            [] OTHER -> \E r \in found : fcall' = [fcall EXCEPT ![c].pc = "drop", ![c].was = r.by]
    /\ UNCHANGED <<deposited, eoa, sent, rows, pol, faults>>

\* By id: a row that is gone throws.
DropExisting(c) ==
    /\ Is(c, "drop")
    /\ LET found == {r \in RowOf(fcall[c].key) : r.by = fcall[c].was}
       IN rows' = rows \ found /\ IF found = {} THEN Quits(c) ELSE Does(c, "create")
    /\ UNCHANGED <<deposited, eoa, sent, pol, faults>>

\* Mutant: a zero balance is swept as well.
SweepsNothing(c) ==
    /\ Is(c, "create")
    /\ IF RowOf(fcall[c].key) /= {} THEN Quits(c) /\ UNCHANGED rows
       ELSE /\ rows' = rows \cup {[key |-> fcall[c].key, st |-> "PENDING", by |-> c]}
            /\ fcall' = [fcall EXCEPT ![c].pc = "gas", ![c].amount = eoa]
    /\ UNCHANGED <<deposited, eoa, sent, pol, faults>>

\* The whole balance. Without one, or with a row of the key, which is unique, the call throws.
CreateRequest(c) ==
    /\ Is(c, "create")
    /\ IF eoa = 0 \/ RowOf(fcall[c].key) /= {} THEN Quits(c) /\ UNCHANGED rows
       ELSE /\ rows' = rows \cup {[key |-> fcall[c].key, st |-> "PENDING", by |-> c]}
            /\ fcall' = [fcall EXCEPT ![c].pc = "gas", ![c].amount = eoa]
    /\ UNCHANGED <<deposited, eoa, sent, pol, faults>>

\* The gas is looked at once more; an RPC error of this check is ignored.
ChecksGas(c) ==
    /\ Is(c, "gas")
    /\ \/ ~pol /\ rows' = Marked(c, "FAILED") /\ Quits(c)
       \/ Does(c, "sign") /\ UNCHANGED rows
    /\ UNCHANGED <<deposited, eoa, sent, pol, faults>>

\* So is the balance, then the nonce is read.
Signs(c) ==
    /\ Is(c, "sign")
    /\ IF eoa < fcall[c].amount
       THEN rows' = Marked(c, "FAILED") /\ Quits(c)
       ELSE fcall' = [fcall EXCEPT ![c].pc = "send", ![c].nonce = Len(sent)] /\ UNCHANGED rows
    /\ UNCHANGED <<deposited, eoa, sent, pol, faults>>

Refused(c) == eoa < fcall[c].amount \/ ~pol \/ fcall[c].nonce /= Len(sent)

\* The estimate of the gas fails without the balance, the broadcast without gas or with a
\* used nonce.
BroadcastFails(c) ==
    /\ Is(c, "send") /\ Refused(c)
    /\ rows' = Marked(c, "FAILED") /\ Quits(c)
    /\ UNCHANGED <<deposited, eoa, sent, pol, faults>>

\* The transaction may be broadcast and the answer lost.
Broadcast(c) ==
    /\ Is(c, "send") /\ ~Refused(c) /\ Len(sent) < MaxSent
    /\ \E answered \in BOOLEAN :
          /\ answered \/ faults < MaxFaults
          /\ sent' = Append(sent, [amount |-> fcall[c].amount, st |-> "pending", debit |-> FALSE,
                                   lost |-> ~answered, raced |-> Pending /= {}])
          /\ IF answered
             THEN /\ fcall' = [fcall EXCEPT ![c].pc = "mark", ![c].tx = Len(sent) + 1]
                  /\ UNCHANGED <<rows, faults>>
             ELSE rows' = Marked(c, "FAILED") /\ Quits(c) /\ faults' = faults + 1
    /\ UNCHANGED <<deposited, eoa, pol>>

\* Mutant: a deleted row goes unnoticed, and without a row there is no ledger entry.
MarksAnyRow(c) ==
    /\ Is(c, "mark")
    /\ rows' = Marked(c, "BROADCASTED")
    /\ Does(c, IF Mine(c) = {} THEN "wait" ELSE "debit")
    /\ UNCHANGED <<deposited, eoa, sent, pol, faults>>

\* By id: the update throws when another sweep has deleted the row.
MarkBroadcasted(c) ==
    /\ Is(c, "mark")
    /\ rows' = Marked(c, "BROADCASTED")
    /\ IF Mine(c) = {} THEN Quits(c) /\ sent' = [sent EXCEPT ![fcall[c].tx].lost = TRUE]
       ELSE Does(c, "debit") /\ UNCHANGED sent
    /\ UNCHANGED <<deposited, eoa, pol, faults>>

LedgerDebit(c) ==
    /\ Is(c, "debit")
    /\ sent' = [sent EXCEPT ![fcall[c].tx].debit = TRUE]
    /\ Does(c, "wait")
    /\ UNCHANGED <<deposited, eoa, rows, pol, faults>>

WaitReceipt(c) ==
    /\ Is(c, "wait") /\ sent[fcall[c].tx].st /= "pending"
    /\ rows' = IF sent[fcall[c].tx].st = "reverted" THEN Marked(c, "FAILED") ELSE rows
    /\ Quits(c)
    /\ UNCHANGED <<deposited, eoa, sent, pol, faults>>

\* The call throws, which marks the row in the try block around signing, or the process stops.
ForwardFails(c) ==
    /\ ~Is(c, "idle") /\ faults < MaxFaults /\ faults' = faults + 1
    /\ rows' \in IF fcall[c].pc \in {"sign", "send"} THEN {rows, Marked(c, "FAILED")} ELSE {rows}
    /\ sent' = IF Is(c, "mark") \/ Is(c, "debit") THEN [sent EXCEPT ![fcall[c].tx].lost = TRUE] ELSE sent
    /\ Quits(c)
    /\ UNCHANGED <<deposited, eoa, pol>>

\* In the order of the account's nonces; a transfer without the balance reverts.
ChainMines(i) ==
    /\ i \in Pending /\ \A j \in Pending : i <= j
    /\ LET ok == eoa >= sent[i].amount
       IN /\ eoa' = IF ok THEN eoa - sent[i].amount ELSE eoa
          /\ sent' = [sent EXCEPT ![i].st = IF ok THEN "mined" ELSE "reverted"]
    /\ UNCHANGED <<deposited, rows, fcall, pol, faults>>

ForwardStep(c) ==
    \/ ReadExisting(c) \/ DropExisting(c) \/ CreateRequest(c) \/ ChecksGas(c) \/ Signs(c)
    \/ BroadcastFails(c) \/ Broadcast(c) \/ MarkBroadcasted(c) \/ LedgerDebit(c) \/ WaitReceipt(c)

FwdNext ==
    \/ Deposited \/ PolMoves
    \/ \E c \in FwdCalls :
          \/ \E d \in 1 .. deposited : GoEoaDepositCallback(c, d)
          \/ BalancePoll(c) \/ ForwardStep(c) \/ ForwardFails(c)
    \/ \E i \in DOMAIN sent : ChainMines(i)

\* The chain mines what it took, a forward goes on, and the balance is polled again and again.
FwdFairness ==
    /\ WF_fwdVars(\E i \in DOMAIN sent : ChainMines(i))
    /\ \A c \in FwdCalls : WF_fwdVars(ForwardStep(c) \/ BalancePoll(c))

FwdSpec == FwdInit /\ [][FwdNext]_fwdVars /\ FwdFairness

-----------------------------------------------------------------------------
(* Properties.                                                             *)

\* Types of the forwarding state.
FwdTypeOK ==
    /\ deposited \in 0 .. MaxDeposits /\ eoa \in 0 .. MaxDeposits /\ faults \in 0 .. MaxFaults
    /\ sent \in Seq([amount : 1 .. MaxDeposits, st : {"pending", "mined", "reverted"},
                     debit : BOOLEAN, lost : BOOLEAN, raced : BOOLEAN]) /\ Len(sent) <= MaxSent
    /\ rows \subseteq [key : FwdKeys, st : {"PENDING", "BROADCASTED", "FAILED"}, by : FwdCalls]
    /\ pol \in BOOLEAN
    /\ \A c \in FwdCalls : fcall[c].pc \in {"idle", "existing", "drop", "create", "gas", "sign", "send",
                                          "mark", "debit", "wait"}

\* What left the account is debited in the wallet ledger once its call is over, unless the call
\* missed the answer of the broadcast, was cut off before the debit or had its request row
\* deleted by another sweep; and what is debited leaves the account, unless another transfer of
\* the account was pending when it was broadcast.
DebitsMatchTransfers ==
    \A i \in DOMAIN sent :
        /\ sent[i].st = "mined" /\ ~sent[i].lost /\ (\A c \in FwdCalls : fcall[c].tx /= i) => sent[i].debit
        /\ sent[i].st = "reverted" => sent[i].raced

\* Deposits leave the account in the end while the balance page is polled, once its POL lasts:
\* rows left PENDING or FAILED by a stop, a failure or a lack of gas do not block the next
\* sweep, though it computes the same key.
DepositsForwarded == <>[]pol => (eoa > 0 ~> eoa = 0)
=============================================================================

-------------------------- MODULE AddressPipeline --------------------------
(***************************************************************************)
(* One address on its way to the board of smart money: its stage in        *)
(* SmartMoneyRawAddress and its row of SmartMoneyLeaderboardRow, which no  *)
(* transaction ties together.  Lanes of scheduled work read both, wait for *)
(* other services, and write what they have decided one call after the     *)
(* other; they run beside each other, time out with their work still       *)
(* going, meet failing writes, and stop with their process.                *)
(* (services/smartMoney)                                                   *)
(***************************************************************************)
EXTENDS Naturals, Sequences

CONSTANT MaxRuns \* bound: runs of lanes on the address, failed writes, time-outs and crashes

ASSUME PipelineAssumption == MaxRuns \in Nat

VARIABLES
  stage,     \* pipelineStage of the address, "none" without a row
  deepClass, \* the reason of its elimination asks for a Deep analysis
  board,     \* its row of the board; score and hard are in ScoreCache while there is no row
  work,      \* per lane, the calls still to be made and those an error makes instead
  runs,
  crossed    \* history: see Crosses

pipelineVars == <<stage, deepClass, board, work, runs, crossed>>

Stages == {"none", "RAW", "LIGHT", "QUALIFIED", "FULL", "SCORED", "COPY_POOL", "ELIMINATED"}
Lanes == {"light", "deep", "promote", "enrich", "gamma", "curve", "recheck", "flush", "late"}

\* The score of the trader against the lines to enter the board and to leave
\* it; the score of copying it, against its minimum; flags that bar it.
Scores == {"exit", "gray", "enter"}
Copied == {"none", "low", "ok"}
Flags == {"no", "negative", "other"}

Idle == \A l \in Lanes : work[l].todo = <<>>
NoWork == [todo |-> <<>>, catch |-> <<>>]

\* A call: what it does, with what, and whether its caller swallows its error.
Call(does, with) == [does |-> does, with |-> with, soft |-> FALSE]
Soft(c) == [c EXCEPT !.soft = TRUE]
Mark(s) == Call("mark", s)
Stage(s) == Call("stage", s)   \* writes a reason as well
Shift(s) == Call("shift", s)   \* leaves the reason
Eliminate(deep) == Call("eliminate", deep)
Remove == Call("remove", "")
Upsert(s) == Call("upsert", s)
Board(on, pending) == Call("board", [on |-> on, pending |-> pending])
Pending(b) == Call("pending", b)

----------------------------------------------------------------------------
\* What an undisturbed lane leaves behind, and where every behaviour begins:
\* nobody in COPY_POOL without the board.
AtRest ==
  /\ stage \notin {"LIGHT", "FULL"}
  /\ stage = "COPY_POOL" => board.on
  /\ board.on => board.row

PipelineInit ==
  /\ stage \in Stages /\ deepClass \in BOOLEAN
  /\ board \in [row : BOOLEAN, on : BOOLEAN, pending : BOOLEAN, copied : Copied,
                score : Scores, hard : Flags, due : BOOLEAN]
  /\ deepClass => stage = "ELIMINATED"
  /\ board.row \/ (~board.pending /\ board.copied = "none")
  /\ board.row \/ board.due \/ (board.score = "exit" /\ board.hard = "no")
  /\ AtRest
  /\ work = [l \in Lanes |-> NoWork]
  /\ runs = 0 /\ crossed = FALSE

\* A lane picks the address: its calls, and those of its error path.
Starts(l, todo, catch) ==
  /\ work[l].todo = <<>> /\ runs < MaxRuns
  /\ work' = [work EXCEPT ![l] = [todo |-> todo, catch |-> catch]]
  /\ runs' = runs + 1
  /\ UNCHANGED <<stage, deepClass, board>>

\* The next call of a lane, and the calls it leads to.
Calls(l, does) == work[l].todo # <<>> /\ Head(work[l].todo).does = does
With(l) == Head(work[l].todo).with
GoesOn(l, more) == work' = [work EXCEPT ![l].todo = more \o Tail(@)]

\* A call throws: past it when its caller swallows that, or to the error path.
Thrown(l) ==
  LET w == work[l] IN
  work' = [work EXCEPT ![l] = IF Head(w.todo).soft THEN [todo |-> Tail(w.todo), catch |-> w.catch]
                              ELSE [todo |-> w.catch, catch |-> <<>>]]

----------------------------------------------------------------------------
\* The calls that write.  A stage is written over any other one.
Marks(l) ==
  /\ Calls(l, "mark")
  /\ stage' = IF stage = "none" THEN stage ELSE With(l)
  /\ GoesOn(l, <<>>)
  /\ UNCHANGED <<deepClass, board, runs>>

StageWritten(l) ==
  /\ Calls(l, "stage") \/ Calls(l, "shift")
  /\ \/ /\ stage = "none" /\ Thrown(l)
        /\ UNCHANGED <<stage, deepClass>>
     \/ /\ stage # "none"
        /\ stage' = With(l)
        /\ deepClass' = (deepClass /\ Calls(l, "shift"))
        /\ GoesOn(l, <<>>)
  /\ UNCHANGED <<board, runs>>

\* Off the board and eliminated, in one transaction.
Eliminates(l) ==
  /\ Calls(l, "eliminate")
  /\ \/ /\ stage = "none" /\ Thrown(l)
        /\ UNCHANGED <<stage, deepClass, board>>
     \/ /\ stage # "none"
        /\ stage' = "ELIMINATED" /\ deepClass' = With(l)
        /\ board' = IF board.on THEN [board EXCEPT !.on = FALSE, !.pending = FALSE] ELSE board
        /\ GoesOn(l, <<>>)
  /\ UNCHANGED runs

\* Mutant: the stage is left to the calls that follow.
RemovesFromBoard(l) ==
  /\ Calls(l, "remove")
  /\ board' = [board EXCEPT !.on = FALSE]
  /\ GoesOn(l, <<>>)
  /\ UNCHANGED <<stage, deepClass, runs>>

\* Off the board and SCORED, whatever the stage was.
Removes(l) ==
  /\ Calls(l, "remove")
  /\ board' = [board EXCEPT !.on = FALSE,
                 !.pending = board.row /\ board.copied = "none" /\ board.score = "enter"]
  /\ stage' = IF stage = "none" THEN stage ELSE "SCORED"
  /\ GoesOn(l, <<>>)
  /\ UNCHANGED <<deepClass, runs>>

RowWritten(l) ==
  /\ \/ /\ Calls(l, "upsert")
        /\ board' = [board EXCEPT !.row = TRUE, !.score = With(l).score, !.hard = With(l).hard]
     \/ /\ Calls(l, "board")
        /\ board' = [board EXCEPT !.on = With(l).on,
                       !.pending = IF With(l).pending = "keep" THEN @ ELSE With(l).pending = "yes"]
     \/ /\ Calls(l, "pending")
        /\ board' = [board EXCEPT !.pending = board.row /\ With(l)]
     \/ /\ Calls(l, "flag")
        /\ board' = [board EXCEPT !.hard = "other"]
  /\ GoesOn(l, <<>>)
  /\ UNCHANGED <<stage, deepClass, runs>>

----------------------------------------------------------------------------
\* Light: the caps of the pools, then new addresses.
LightCaps == stage \in {"QUALIFIED", "SCORED"} /\ Starts("light", <<Eliminate(TRUE)>>, <<>>)

Looked(out) ==
  CASE out = "fails" -> Eliminate(FALSE)
    [] out = "later" -> Stage("RAW")
    [] OTHER         -> Stage("QUALIFIED")
Outcomes == {"fails", "later", "passes"}

LightPicks ==
  /\ stage \in {"RAW", "LIGHT"}
  /\ \E out \in Outcomes :
       Starts("light", <<Mark("LIGHT"), Looked(out)>>, <<Soft(Stage("RAW"))>>)

\* Deep: the stage is read, then FULL written, and the old one restored when
\* the analysis fails.
DeepPicks ==
  /\ \/ stage \in {"QUALIFIED", "SCORED"}
     \/ stage = "COPY_POOL" /\ board.on
  /\ Starts("deep", <<Call("queue", "")>>, <<>>)

Queues(l) ==
  /\ Calls(l, "queue")
  /\ GoesOn(l, <<Mark("FULL"), Call("score", IF stage = "none" THEN "QUALIFIED" ELSE stage)>>)
  /\ UNCHANGED <<stage, deepClass, board, runs>>

Restore(previous) ==
  IF previous = "ELIMINATED" THEN <<>>
  ELSE <<Soft(Stage(IF previous \in {"FULL", "LIGHT"} THEN "QUALIFIED" ELSE previous))>>

\* The score goes to ScoreCache, and from there to a row; due is the part of
\* Gamma (tier2CorePassedAt without tier2EnhancedPassedAt).
Cached(score, hard, due) == [board EXCEPT !.score = score, !.hard = hard, !.due = due]
Recomposed(c) == IF c = "none" THEN {"none"} ELSE {"low", "ok"}

DeepGoesOn(l, todo) ==
  work' = [work EXCEPT ![l] = [todo |-> todo \o Tail(@.todo), catch |-> Restore(With(l))]]

DeepScores(l) ==
  /\ Calls(l, "score")
  /\ \/ \* fetching fails
        DeepGoesOn(l, Restore(With(l))) /\ UNCHANGED board
     \/ \E sc \in Scores, h \in Flags :
          DeepGoesOn(l, Restore(With(l))) /\ board' = Cached(sc, h, FALSE)
     \/ \* the profile or its curve fails
        \E deep \in BOOLEAN :
          DeepGoesOn(l, <<Soft(Remove), Eliminate(deep)>>) /\ UNCHANGED board
     \/ \* a gate or a flag fails
        \E sc \in Scores, h \in Flags, due \in BOOLEAN :
          /\ due => h # "no"
          /\ DeepGoesOn(l, <<Soft(Remove), Eliminate(TRUE)>>)
          /\ board' = Cached(sc, h, due)
     \/ \E sc \in Scores, c \in Recomposed(board.copied), due \in BOOLEAN :
          /\ DeepGoesOn(l, <<Call("sync", [score |-> sc, copied |-> c, hard |-> "no",
                                           by |-> "deep", previous |-> With(l)])>>)
          /\ board' = Cached(sc, "no", due)
  /\ UNCHANGED <<stage, deepClass, runs>>

----------------------------------------------------------------------------
\* A result against the row as it is now: what becomes of the address.
Verdicts(s) ==
  LET effective == IF s.copied # "none" THEN s.copied ELSE board.copied IN
  IF s.hard # "no" THEN {IF board.on THEN "hard flag" ELSE "barred"}
  ELSE IF board.on
    THEN {"inactive",
          IF effective = "none" THEN "uncomputed"
          ELSE IF effective = "low" THEN "low"
          ELSE IF s.score = "exit" THEN "exit" ELSE "stays"}
  ELSE {IF s.score # "enter" THEN "below"
        ELSE CASE s.copied = "ok" -> "enters" [] s.copied = "low" -> "too low"
               [] OTHER -> "not ready"}

Writes(v, s) ==
  CASE v = "hard flag" -> <<Remove, Eliminate(TRUE)>>
    [] v = "barred"    -> <<Eliminate(TRUE)>>
    [] v = "enters"    -> <<Upsert(s), Board(TRUE, "no"), Shift("COPY_POOL")>>
    [] v = "stays"     -> <<Upsert(s),
                            Board(TRUE, IF s.by = "deep" /\ s.copied = "none" THEN "yes" ELSE "keep"),
                            Shift("COPY_POOL")>>
    [] v = "inactive"  -> <<Upsert(s), Remove, Soft(Eliminate(FALSE))>>
    [] v = "low"       -> <<Upsert(s), Remove, Eliminate(FALSE)>>
    [] v \in {"uncomputed", "exit"} -> <<Upsert(s), Remove>>
    [] v = "not ready" -> <<Shift("SCORED"), Upsert(s), Board(FALSE, "yes")>>
    [] v = "too low"   -> <<Shift("SCORED"), Upsert(s), Board(FALSE, "no"), Eliminate(FALSE)>>
    [] OTHER           -> <<Shift("SCORED")>>

\* What Deep writes after that: too many misses eliminate.
AfterDeep(v, s, over) ==
  CASE v \in {"enters", "stays"} -> <<Stage("COPY_POOL")>>
    [] v = "not ready" -> <<Stage("SCORED")>>
    [] v = "below" -> IF over /\ s.previous \in {"SCORED", "COPY_POOL"}
                      THEN <<Soft(Remove), Eliminate(TRUE)>> ELSE <<Stage("SCORED")>>
    [] OTHER -> <<>>

\* What Gamma writes after that: it keeps only two of the eliminations.
AfterGamma(v) ==
  (CASE v \in {"enters", "stays"} -> <<Stage("COPY_POOL")>>
     [] v \in {"inactive", "hard flag"} -> <<>>
     [] OTHER -> <<Stage("SCORED")>>) \o <<Soft(Call("reread", "gamma"))>>

Syncs(l) ==
  /\ Calls(l, "sync")
  /\ \E v \in Verdicts(With(l)), over \in BOOLEAN :
       GoesOn(l, Writes(v, With(l)) \o IF With(l).by = "deep" THEN AfterDeep(v, With(l), over)
                                       ELSE AfterGamma(v))
  /\ UNCHANGED <<stage, deepClass, board, runs>>

\* Gamma: whatever the stage, from the row or, without one, from ScoreCache.
GammaPicks == board.due /\ Starts("gamma", <<Call("load", "")>>, <<>>)

GammaLoads(l) ==
  /\ Calls(l, "load")
  /\ GoesOn(l, <<Call("sync", [score |-> board.score, copied |-> board.copied,
                               hard |-> board.hard, by |-> "gamma", previous |-> ""])>>)
  /\ \E due \in BOOLEAN : board' = [board EXCEPT !.due = due]
  /\ UNCHANGED <<stage, deepClass, runs>>

----------------------------------------------------------------------------
\* Enrich: first the rows that were forgotten or may enter at once.
Requeues ==
  /\ work["enrich"].todo = <<>> /\ stage = "SCORED"
  /\ board.row /\ ~board.on /\ ~board.pending /\ board.copied = "none" /\ board.score = "enter"
  /\ board' = [board EXCEPT !.pending = TRUE]
  /\ UNCHANGED <<stage, deepClass, work, runs>>

MayEnter ==
  /\ board.row /\ ~board.on /\ stage # "ELIMINATED"
  /\ board.copied = "ok" /\ board.hard = "no" /\ board.score = "enter"

Enter == <<Board(TRUE, "no"), Shift("COPY_POOL")>>

PromotePicks ==
  /\ work["enrich"].todo = <<>> /\ stage # "none" /\ MayEnter
  /\ Starts("promote", <<Call("try", "")>>, <<>>)

Tries(l) ==
  /\ Calls(l, "try")
  /\ GoesOn(l, IF MayEnter THEN Enter ELSE <<>>)
  /\ UNCHANGED <<stage, deepClass, board, runs>>

EnrichPicks ==
  /\ work["promote"].todo = <<>>
  /\ board.row
  /\ \/ board.pending
     \/ board.on /\ board.copied = "none"
  /\ Starts("enrich", <<Call("reread", "enrich")>>, <<>>)

\* The simulated copying: the flags are read, and written back with the rest.
Rereads(l) ==
  /\ Calls(l, "reread")
  /\ GoesOn(l, <<[Call("refresh", [hard |-> board.hard, by |-> With(l)])
                    EXCEPT !.soft = Head(work[l].todo).soft]>>)
  /\ UNCHANGED <<stage, deepClass, board, runs>>

Refreshes(l) ==
  /\ Calls(l, "refresh")
  /\ \E c \in {"low", "ok"}, sc \in Scores :
       /\ board' = IF ~board.row THEN board
                   ELSE [board EXCEPT !.copied = c, !.score = sc, !.hard = With(l).hard]
       /\ GoesOn(l, IF With(l).by = "enrich" THEN <<Call("judge", c)>> ELSE <<>>)
  /\ UNCHANGED <<stage, deepClass, runs>>

Judges(l) ==
  /\ Calls(l, "judge")
  /\ \/ /\ board.on /\ board.hard # "no"
        /\ GoesOn(l, <<Remove, Eliminate(TRUE)>>)
     \/ /\ board.on /\ board.hard = "no"
        /\ GoesOn(l, CASE With(l) = "low" -> <<Remove, Eliminate(FALSE)>>
                       [] With(l) # "low" /\ board.score = "exit" -> <<Remove>>
                       [] OTHER -> <<Pending(FALSE)>>)
     \/ /\ ~board.on /\ board.hard # "no"
        /\ GoesOn(l, <<Eliminate(TRUE), Pending(FALSE)>>)
     \/ /\ ~board.on /\ board.hard = "no"
        /\ GoesOn(l, CASE MayEnter -> Enter \o <<Pending(FALSE)>>
                       [] board.copied = "low" /\ stage # "ELIMINATED" ->
                            <<Eliminate(FALSE), Pending(FALSE)>>
                       [] OTHER -> <<Pending(FALSE)>>)
  /\ UNCHANGED <<stage, deepClass, board, runs>>

----------------------------------------------------------------------------
\* Curve: a hedged account.
CurvePicks ==
  /\ board.row
  /\ Starts("curve", <<Call("hedged", "")>>, <<>>)

Hedged(l) ==
  /\ Calls(l, "hedged")
  /\ GoesOn(l, <<Call("flag", "")>> \o (IF board.on THEN <<Soft(Remove)>> ELSE <<>>)
               \o <<Soft(Eliminate(TRUE))>>)
  /\ UNCHANGED <<stage, deepClass, board, runs>>

\* The eliminated: their slow recheck, and the end of those without a trade.
RecheckPicks ==
  /\ stage = "ELIMINATED"
  /\ \/ /\ ~deepClass
        /\ Starts("recheck", <<Call("recheck", "")>>, <<Soft(Eliminate(FALSE))>>)
     \/ Starts("recheck", <<Call("delete", "")>>, <<>>)

Rechecks(l) ==
  /\ Calls(l, "recheck")
  /\ \/ /\ deepClass
        /\ GoesOn(l, <<Shift("ELIMINATED")>>)
     \/ /\ ~deepClass
        /\ \E out \in Outcomes : work' = [work EXCEPT ![l] = [todo |-> <<Looked(out)>>, catch |-> <<Soft(Stage("RAW"))>>]]
  /\ UNCHANGED <<stage, deepClass, board, runs>>

Deletes(l) ==
  /\ Calls(l, "delete")
  /\ board' = [board EXCEPT !.on = FALSE, !.pending = FALSE]
  /\ stage' = "none" /\ deepClass' = FALSE
  /\ GoesOn(l, <<>>)
  /\ UNCHANGED runs

\* The flush of the ranks: losses and scores under the line leave the board,
\* and their stages follow in statements of their own.
FlushPicks ==
  board.row /\ Starts("flush", <<Call("demote", ""), Call("close", ""), Call("purge", "")>>, <<>>)

Demotes(l) ==
  /\ Calls(l, "demote")
  /\ \/ UNCHANGED board
     \/ /\ board.on
        /\ board' = [board EXCEPT !.on = FALSE, !.pending = FALSE, !.hard = "negative"]
  /\ GoesOn(l, <<>>)
  /\ UNCHANGED <<stage, deepClass, runs>>

Closes(l) ==
  /\ Calls(l, "close")
  /\ IF ~board.on /\ board.hard = "negative" /\ stage = "COPY_POOL"
     THEN stage' = "ELIMINATED" /\ deepClass' = TRUE
     ELSE UNCHANGED <<stage, deepClass>>
  /\ GoesOn(l, <<>>)
  /\ UNCHANGED <<board, runs>>

Purges(l) ==
  /\ \/ /\ Calls(l, "purge") /\ board.on /\ board.score = "exit"
        /\ board' = [board EXCEPT !.on = FALSE, !.pending = FALSE]
        /\ GoesOn(l, <<Call("scored", "")>>)
        /\ UNCHANGED stage
     \/ /\ Calls(l, "purge") /\ ~(board.on /\ board.score = "exit")
        /\ GoesOn(l, <<>>)
        /\ UNCHANGED <<board, stage>>
     \/ /\ Calls(l, "scored")
        /\ stage' = IF ~board.on /\ board.score = "exit" /\ stage = "COPY_POOL" THEN "SCORED" ELSE stage
        /\ GoesOn(l, <<>>)
        /\ UNCHANGED board
  /\ UNCHANGED <<deepClass, runs>>

----------------------------------------------------------------------------
\* Statements that guard their own write: an address found again, one whose
\* stage left the board behind, one left in analysis by nobody at work.
Found ==
  /\ stage \in {"none", "ELIMINATED"}
  /\ stage' = "RAW" /\ deepClass' = FALSE
  /\ UNCHANGED <<board, work, runs>>

Reconciles ==
  /\ board.on /\ stage \notin {"COPY_POOL", "FULL"}
  /\ stage' = "COPY_POOL"
  /\ UNCHANGED <<deepClass, board, work, runs>>

\* Mutant: only the light stage is recovered.
RecoversLight ==
  /\ stage = "LIGHT" /\ work["light"].todo = <<>>
  /\ stage' = IF board.on THEN "COPY_POOL" ELSE "RAW"
  /\ UNCHANGED <<deepClass, board, work, runs>>

Recovers ==
  /\ \/ /\ stage = "LIGHT" /\ work["light"].todo = <<>>
        /\ stage' = IF board.on THEN "COPY_POOL" ELSE "RAW"
     \/ /\ stage = "FULL" /\ work["deep"].todo = <<>>
        /\ stage' = IF board.on THEN "COPY_POOL" ELSE "QUALIFIED"
  /\ UNCHANGED <<deepClass, board, work, runs>>

\* A call fails, a time-out leaves its work to go on by itself, a process
\* dies with its lanes.
Fault == runs < MaxRuns /\ runs' = runs + 1

Fails(l) ==
  /\ Fault /\ work[l].todo # <<>> /\ Thrown(l)
  /\ UNCHANGED <<stage, deepClass, board>>

TimesOut(l) ==
  /\ Fault /\ work["late"].todo = <<>>
  /\ work[l].todo # <<>> /\ Head(work[l].todo).does \notin {"queue", "mark", "score", "reread"}
  /\ LET retry == IF l = "enrich" THEN <<>> ELSE work[l].catch IN
       work' = [work EXCEPT ![l] = [todo |-> retry, catch |-> <<>>],
                            !["late"] = [todo |-> work[l].todo,
                                         catch |-> IF l = "light" THEN retry ELSE <<>>]]
  /\ UNCHANGED <<stage, deepClass, board>>

Crashes ==
  /\ Fault
  /\ \E gone \in SUBSET {l \in Lanes : work[l].todo # <<>>} :
       gone # {} /\ work' = [l \in Lanes |-> IF l \in gone THEN NoWork ELSE work[l]]
  /\ UNCHANGED <<stage, deepClass, board>>

Repairs == Reconciles \/ Recovers

LaneSteps(l) ==
  \/ Marks(l) \/ StageWritten(l) \/ Eliminates(l) \/ Removes(l) \/ RowWritten(l)
  \/ Queues(l) \/ DeepScores(l) \/ Syncs(l) \/ GammaLoads(l)
  \/ Tries(l) \/ Rereads(l) \/ Refreshes(l) \/ Judges(l)
  \/ Hedged(l) \/ Rechecks(l) \/ Deletes(l)
  \/ Demotes(l) \/ Closes(l) \/ Purges(l)

Picks ==
  \/ LightCaps \/ LightPicks \/ DeepPicks \/ PromotePicks \/ EnrichPicks
  \/ GammaPicks \/ CurvePicks \/ RecheckPicks \/ FlushPicks

\* What can lose an address: it is taken off the board by one lane while
\* another is about to write COPY_POOL, or will restore it; it is taken off by a
\* result that found it off the board before another lane let it in; it is
\* deleted under a lane at work; a step falls between the two statements of a
\* flush; or there is a fault.
Holds(l) ==
  \/ Calls(l, "stage") /\ With(l) = "COPY_POOL"
  \/ Calls(l, "shift") /\ With(l) = "COPY_POOL"
  \/ \E i \in 1..Len(work[l].todo) :
       work[l].todo[i].does = "score" /\ work[l].todo[i].with = "COPY_POOL"

Crosses ==
  \/ board.on /\ ~board'.on /\ \E l \in Lanes : Holds(l) /\ work'[l] = work[l]
  \/ board.on /\ ~board'.on /\ \E l \in Lanes : Calls(l, "board") /\ work'[l] # work[l]
  \/ stage # "none" /\ stage' = "none" /\ \E l \in Lanes : work[l].todo # <<>> /\ work'[l] = work[l]
  \/ /\ Calls("flush", "close") \/ Calls("flush", "scored")
     /\ stage = "COPY_POOL" /\ ~board.on /\ work'["flush"] = work["flush"]

Works == Picks \/ (\E l \in Lanes : LaneSteps(l)) \/ Requeues \/ Found \/ Repairs

Faults ==
  \/ \E l \in Lanes : Fails(l)
  \/ \E l \in {"light", "deep", "enrich"} : TimesOut(l)
  \/ Crashes

Remembers(fault) == crossed' = (crossed \/ Crosses \/ fault)

PipelineNext ==
  \/ Works /\ Remembers(FALSE)
  \/ Faults /\ Remembers(TRUE)

\* A lane at work ends its work; the repairs run with every batch.
LanesGoOn == (\E l \in Lanes : LaneSteps(l)) /\ Remembers(FALSE)
RepairsRun == Repairs /\ Remembers(FALSE)
PipelineFairness == WF_pipelineVars(LanesGoOn) /\ WF_pipelineVars(RepairsRun)

PipelineSpec == PipelineInit /\ [][PipelineNext]_pipelineVars /\ PipelineFairness

----------------------------------------------------------------------------
\* An address whose stage says it is on the board while the board does not have
\* it is picked by no lane: Deep asks for the board, the rest for other stages.
\* When no lane is at work that comes only of the steps Crosses names; every lane
\* by itself, on every path through it, keeps the two together.
LostNeedsCrossing == (Idle /\ stage = "COPY_POOL" /\ ~board.on) => crossed

\* The other way round the repairs do it: whatever crosses, fails or dies, the
\* address leaves the stages of an analysis, and is in COPY_POOL if it is on the
\* board.
BoardAgrees == []<>(stage \notin {"LIGHT", "FULL"} /\ (board.on => stage = "COPY_POOL"))

PipelineTypeOK ==
  /\ stage \in Stages /\ deepClass \in BOOLEAN
  /\ board \in [row : BOOLEAN, on : BOOLEAN, pending : BOOLEAN, copied : Copied,
                score : Scores, hard : Flags, due : BOOLEAN]
  /\ runs \in 0..MaxRuns /\ crossed \in BOOLEAN
=============================================================================

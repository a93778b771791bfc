---------------------------- MODULE CopyLotsProofs ----------------------------
(***************************************************************************)
(* The lots of a follower, for every number of buys, workers and           *)
(* operations: no share leaves a lot without a close, and shares are closed *)
(* twice only by transactions that overlap.  The proofs follow the two     *)
(* fields of a lot, rem and closed, and what the workers have read of them. *)
(***************************************************************************)
EXTENDS CopyLots, SumProofs

WorkFields == {"at", "kind", "key", "of", "want", "again", "gain", "next", "snap", "asked", "told",
               "seen", "todo", "sum", "total", "day"}
Nexts == {"done", "residual", "judge", "manualRest", "lots", "lot", "mark"}

\* A worker between a read of the lots and its write.
Taking == {"total", "commit"}
Reading == Taking \cup {"dust"}

LotSizes == rem \in [Buys -> Nat] /\ closed \in [Buys -> Nat] /\ lots \subseteq Buys
WorkShape ==
  /\ DOMAIN wk = Workers
  /\ \A w \in Workers : wk[w] = Idle \/ (DOMAIN wk[w] = WorkFields /\ wk[w].next \in Nexts)

\* What was read of a lot, with what is closed of it by now, covers its entry.
SnapCovers(w) ==
  wk[w].at \in Taking =>
    /\ wk[w].snap \in [Buys -> Nat]
    /\ \A b \in Buys : wk[w].snap[b] > 0 => b \in lots /\ EntrySize[b] <= wk[w].snap[b] + closed[b]

\* Of a lot that is about to be cleared no more than dust is not closed.
DustCovers(w) ==
  wk[w].at = "dust" =>
    \A b \in Buys : b \in wk[w].todo => EntrySize[b] <= closed[b] + Dust

\* Consumers of one day read the total one after the other's commit, so what one has read is
\* the total still, or the last write of it is of a page or of another day.
TotalsInv ==
  /\ day \in Nat \ {0}
  /\ \A w \in Workers : wk[w].at \in Taking => wk[w].day \in Nat \ {0}
  /\ \A w \in Workers : wk[w].at = "commit" => wk[w].total = summary \/ wrote # wk[w].day
  /\ \A v, w \in Workers : v # w /\ wk[v].at = "commit" /\ wk[w].at = "commit" => wk[v].day # wk[w].day

LotsInv == TotalsInv /\ LotSizes /\ WorkShape /\ (\A w \in Workers : SnapCovers(w) /\ DustCovers(w)) /\ LotAccounted
-----------------------------------------------------------------------------
LEMMA IdleAt == Idle.at = "idle"
BY DEF Idle

LEMMA LotsInitInv == LotsInit => LotsInv
<1> SUFFICES ASSUME LotsInit PROVE LotsInv
  OBVIOUS
<1>1. LotSizes /\ WorkShape
  BY DEF LotsInit, LotSizes, WorkShape, NoLots
<1>2. \A w \in Workers : SnapCovers(w) /\ DustCovers(w)
  BY DEF LotsInit, SnapCovers, DustCovers, Taking, Idle
<1>3. TotalsInv
  BY DEF LotsInit, TotalsInv, Taking, Idle
<1> QED
  BY <1>1, <1>2, <1>3 DEF LotsInit, LotsInv, LotAccounted

(* How workers move.                                                       *)

\* A worker takes a state in which it has read nothing of the lots.
LEMMA WorkMoves ==
  ASSUME WorkShape, NEW w \in Workers, NEW r, wk' = [wk EXCEPT ![w] = r],
         r = Idle \/ (DOMAIN r = WorkFields /\ r.next \in Nexts)
  PROVE  /\ WorkShape' /\ wk'[w] = r
         /\ \A v \in Workers : v # w => wk'[v] = wk[v]
BY DEF WorkShape

\* A call returns: the worker goes on where it said, or is done.
LEMMA GoMoves ==
  ASSUME WorkShape, NEW w \in Workers, wk[w] # Idle, NEW at, Go(w, at)
  PROVE  /\ WorkShape' /\ \A v \in Workers : v # w => wk'[v] = wk[v]
         /\ IF at = "done" THEN wk'[w] = Idle ELSE wk'[w].at = at
<1>1. CASE at = "done"
  BY <1>1, WorkMoves DEF Go
<1>2. CASE at # "done"
  <2> DEFINE r == [wk[w] EXCEPT !.at = at, !.snap = NoLots, !.want = 0, !.again = TRUE, !.next = "done",
                           !.total = 0, !.day = 0]
  <2>1. DOMAIN r = WorkFields /\ r.next \in Nexts /\ r.at = at
    BY DEF WorkShape, WorkFields, Nexts
  <2>2. wk' = [wk EXCEPT ![w] = r]
    BY <1>2 DEF Go
  <2> HIDE DEF r
  <2> QED
    BY <1>2, <2>1, <2>2, WorkMoves
<1> QED
  BY <1>1, <1>2

\* A consumer is called.
LEMMA CallShape ==
  ASSUME NEW s, DOMAIN s = WorkFields, NEW key, NEW of, NEW want, NEW again, NEW gain, NEW next \in Nexts
  PROVE  /\ DOMAIN Call(s, key, of, want, again, gain, next) = WorkFields
         /\ Call(s, key, of, want, again, gain, next).next \in Nexts
         /\ Call(s, key, of, want, again, gain, next).at = "read"
BY DEF Call, WorkFields

LEMMA WorkingShape ==
  ASSUME NEW kind, NEW key
  PROVE  /\ DOMAIN Working(kind, key) = WorkFields /\ Working(kind, key).next \in Nexts
         /\ Working(kind, key).at = "start"
BY DEF Working, WorkFields, Nexts

LEMMA TotalsStay ==
  ASSUME TotalsInv, UNCHANGED <<summary, wrote, day>>,
         \A v \in Workers : wk'[v] = wk[v] \/ wk'[v].at \notin Taking
  PROVE  TotalsInv'
BY DEF TotalsInv, Taking

\* No lot changes, and no worker reads one.
LEMMA LotsStay ==
  ASSUME LotsInv, UNCHANGED <<rem, closed, lots, summary, wrote, day>>, WorkShape',
         \A v \in Workers : wk'[v] = wk[v] \/ wk'[v].at \notin Reading
  PROVE  LotsInv'
<1>1. LotSizes' /\ LotAccounted'
  BY DEF LotsInv, LotSizes, LotAccounted
<1>2. ASSUME NEW v \in Workers PROVE SnapCovers(v)' /\ DustCovers(v)'
  <2>1. CASE wk'[v] = wk[v]
    BY <2>1 DEF LotsInv, SnapCovers, DustCovers, Taking
  <2>2. CASE wk'[v].at \notin Reading
    BY <2>2 DEF SnapCovers, DustCovers, Reading, Taking
  <2> QED
    BY <2>1, <2>2
<1>3. TotalsInv'
  BY TotalsStay DEF LotsInv, Reading
<1> QED
  BY <1>1, <1>2, <1>3 DEF LotsInv

\* A worker takes another state in which it has read nothing, and no lot changes.
LEMMA QuietWork ==
  ASSUME LotsInv, UNCHANGED <<rem, closed, lots, summary, wrote, day>>, NEW w \in Workers, NEW r, wk' = [wk EXCEPT ![w] = r],
         r = Idle \/ (DOMAIN r = WorkFields /\ r.next \in Nexts /\ r.at \notin Reading)
  PROVE  LotsInv'
<1>1. WorkShape' /\ wk'[w] = r /\ \A v \in Workers : v # w => wk'[v] = wk[v]
  BY WorkMoves DEF LotsInv
<1>2. r.at \notin Reading
  BY IdleAt DEF Reading, Taking
<1> QED
  BY <1>1, <1>2, LotsStay

LEMMA QuietGo ==
  ASSUME LotsInv, UNCHANGED <<rem, closed, lots, summary, wrote, day>>, NEW w \in Workers, wk[w] # Idle, NEW at, Go(w, at),
         at \notin Reading
  PROVE  LotsInv'
<1>1. /\ WorkShape' /\ \A v \in Workers : v # w => wk'[v] = wk[v]
      /\ IF at = "done" THEN wk'[w] = Idle ELSE wk'[w].at = at
  BY GoMoves DEF LotsInv
<1>2. wk'[w].at \notin Reading
  BY <1>1, IdleAt DEF Reading, Taking
<1> QED
  BY <1>1, <1>2, LotsStay

LEMMA QuietCall ==
  ASSUME LotsInv, UNCHANGED <<rem, closed, lots, summary, wrote, day>>, NEW w \in Workers, NEW s, DOMAIN s = WorkFields,
         NEW key, NEW of, NEW want, NEW again, NEW gain, NEW next \in Nexts,
         wk' = [wk EXCEPT ![w] = Call(s, key, of, want, again, gain, next)]
  PROVE  LotsInv'
<1> DEFINE r == Call(s, key, of, want, again, gain, next)
<1>1. DOMAIN r = WorkFields /\ r.next \in Nexts /\ r.at = "read" /\ wk' = [wk EXCEPT ![w] = r]
  BY CallShape
<1> HIDE DEF r
<1> QED
  BY <1>1, QuietWork DEF Reading, Taking

\* Lots are recorded: one that exists keeps its sizes, a new one is whole.
LEMMA RecordedKeeps ==
  ASSUME LotsInv, NEW S \in SUBSET Buys, Recorded(S), UNCHANGED <<closed, summary, wrote, day>>, WorkShape',
         \A v \in Workers : wk'[v] = wk[v] \/ wk'[v].at \notin Reading
  PROVE  LotsInv'
<1>1. rem' \in [Buys -> Nat] /\ lots' = lots \cup S /\ \A b \in lots : rem'[b] = rem[b]
  BY LotsAssumption DEF Recorded, LotsInv, LotSizes
<1>2. \A b \in S \ lots : rem'[b] = EntrySize[b]
  BY DEF Recorded
<1>3. LotSizes'
  BY <1>1 DEF LotsInv, LotSizes
<1>4. LotAccounted'
  <2> SUFFICES ASSUME NEW b \in lots'
               PROVE  EntrySize[b] <= rem'[b] + closed'[b] + (IF rem'[b] = 0 THEN Dust ELSE 0)
    BY DEF LotAccounted
  <2>1. CASE b \in lots
    BY <1>1, <2>1 DEF LotsInv, LotAccounted
  <2>2. CASE b \in S \ lots
    <3>1. EntrySize[b] \in Nat \ {0} /\ closed[b] \in Nat
      BY LotsAssumption, <2>2 DEF LotsInv, LotSizes
    <3> QED
      BY <1>2, <2>2, <3>1
  <2> QED
    BY <1>1, <2>1, <2>2
<1>5. ASSUME NEW v \in Workers PROVE SnapCovers(v)' /\ DustCovers(v)'
  <2>1. CASE wk'[v] = wk[v]
    BY <1>1, <2>1 DEF LotsInv, SnapCovers, DustCovers, Taking
  <2>2. CASE wk'[v].at \notin Reading
    BY <2>2 DEF SnapCovers, DustCovers, Reading, Taking
  <2> QED
    BY <2>1, <2>2
<1>6. TotalsInv'
  BY TotalsStay DEF LotsInv, Reading
<1> QED
  BY <1>3, <1>4, <1>5, <1>6 DEF LotsInv
-----------------------------------------------------------------------------
(* The actions that read or write lots.                                    *)

LEMMA ReadLotsInv ==
  ASSUME LotsInv, NEW w \in Workers, ReadLots(w) PROVE LotsInv'
<1>1. /\ wk[w].at = "read" /\ wk[w] # Idle /\ UNCHANGED <<rem, closed, lots, summary, wrote, day>>
      /\ DOMAIN wk[w] = WorkFields /\ wk[w].next \in Nexts
  BY IdleAt DEF ReadLots, LotsInv, WorkShape
<1>2. CASE Go(w, wk[w].next)
  BY <1>1, <1>2, QuietGo DEF Nexts, Reading, Taking
<1> DEFINE snap == [b \in Buys |-> IF b \in InScope(wk[w]) THEN rem[b] ELSE 0]
           r == [wk[w] EXCEPT !.at = "total", !.day = day, !.snap = snap]
<1>3. CASE wk' = [wk EXCEPT ![w].at = "total", ![w].day = day, ![w].snap = snap]
  <2>1. wk' = [wk EXCEPT ![w] = r]
    BY <1>3 DEF LotsInv, WorkShape
  <2>2. DOMAIN r = WorkFields /\ r.next \in Nexts /\ r.at = "total" /\ r.snap = snap /\ r.day = day
    BY <1>1 DEF WorkFields
  <2>3. \A b \in Buys : snap[b] \in Nat /\ (snap[b] > 0 => b \in lots /\ snap[b] = rem[b])
    BY DEF InScope, LotsInv, LotSizes
  <2>4. snap \in [Buys -> Nat]
    BY <2>3
  <2> HIDE DEF r, snap
  <2>5. WorkShape' /\ wk'[w] = r /\ \A v \in Workers : v # w => wk'[v] = wk[v]
    BY <2>1, <2>2, WorkMoves DEF LotsInv
  <2>6. SnapCovers(w)' /\ DustCovers(w)'
    <3>1. ASSUME NEW b \in Buys, snap[b] > 0
          PROVE  b \in lots /\ EntrySize[b] <= snap[b] + closed[b]
      <4>1. rem[b] # 0 /\ b \in lots /\ snap[b] = rem[b] /\ rem[b] \in Nat /\ closed[b] \in Nat
        BY <2>3, <3>1 DEF LotsInv, LotSizes
      <4> QED
        BY <4>1, LotsAssumption DEF LotsInv, LotAccounted
    <3> QED
      BY <1>1, <2>2, <2>4, <2>5, <3>1 DEF SnapCovers, DustCovers, Taking
  <2>7. ASSUME NEW v \in Workers, v # w PROVE SnapCovers(v)' /\ DustCovers(v)'
    BY <1>1, <2>5, <2>7 DEF LotsInv, SnapCovers, DustCovers, Taking
  <2>8. TotalsInv'
    BY <1>1, <2>2, <2>5 DEF LotsInv, TotalsInv, Taking
  <2> QED
    BY <1>1, <2>5, <2>6, <2>7, <2>8 DEF LotsInv, LotSizes, LotAccounted
<1> HIDE DEF snap, r
<1> QED
  BY <1>2, <1>3 DEF ReadLots, snap

LEMMA ReadTotalInv ==
  ASSUME LotsInv, NEW w \in Workers, ReadTotal(w) PROVE LotsInv'
<1> DEFINE r == [wk[w] EXCEPT !.at = "commit", !.total = summary]
<1>1. /\ wk[w].at = "total" /\ wk[w] # Idle /\ UNCHANGED <<rem, closed, lots, summary, wrote, day>>
      /\ DOMAIN wk[w] = WorkFields /\ wk[w].next \in Nexts
      /\ wk' = [wk EXCEPT ![w] = r]
  BY IdleAt DEF ReadTotal, LotsInv, WorkShape
<1>2. DOMAIN r = WorkFields /\ r.next \in Nexts /\ r.at = "commit" /\ r.snap = wk[w].snap
      /\ r.total = summary /\ r.day = wk[w].day
  BY <1>1 DEF WorkFields
<1> HIDE DEF r
<1>3. WorkShape' /\ wk'[w] = r /\ \A v \in Workers : v # w => wk'[v] = wk[v]
  BY <1>1, <1>2, WorkMoves DEF LotsInv
<1>4. SnapCovers(w)' /\ DustCovers(w)'
  BY <1>1, <1>2, <1>3 DEF LotsInv, SnapCovers, DustCovers, Taking
<1>5. ASSUME NEW v \in Workers, v # w PROVE SnapCovers(v)' /\ DustCovers(v)'
  BY <1>1, <1>3, <1>5 DEF LotsInv, SnapCovers, DustCovers, Taking
<1>6. \A v \in Workers : wk[v].at = "commit" => wk[v].day # wk[w].day
  BY DEF ReadTotal, Locks
<1>7. TotalsInv'
  BY <1>1, <1>2, <1>3, <1>6 DEF LotsInv, TotalsInv, Taking
<1> QED
  BY <1>1, <1>3, <1>4, <1>5, <1>7 DEF LotsInv, LotSizes, LotAccounted

\* What a commit takes of a lot is at most what was read of it, and is closed.
LEMMA CommitWrites ==
  ASSUME LotsInv, NEW w \in Workers, CommitLots(w)
  PROVE  \E t \in [Buys -> Nat] :
            /\ \A b \in Buys : t[b] <= wk[w].snap[b]
            /\ rem' = [b \in Buys |-> IF t[b] > 0 THEN wk[w].snap[b] - t[b] ELSE rem[b]]
            /\ closed' = [b \in Buys |-> closed[b] + t[b]]
<1>1. PICK t \in Takes(wk[w].snap, wk[w].want) :
         /\ rem' = [b \in Buys |-> IF t[b] > 0 THEN wk[w].snap[b] - t[b] ELSE rem[b]]
         /\ closed' = [b \in Buys |-> closed[b] + t[b]]
  BY DEF CommitLots
<1>2. t \in [Buys -> 0 .. MaxEntry] /\ \A b \in Buys : t[b] <= wk[w].snap[b]
  BY DEF Takes
<1>3. t \in [Buys -> Nat]
  BY <1>2
<1> QED
  BY <1>1, <1>2, <1>3

LEMMA CommitInv ==
  ASSUME LotsInv, NEW w \in Workers, CommitLots(w) PROVE LotsInv'
<1>1. /\ wk[w].at = "commit" /\ wk[w] # Idle /\ lots' = lots /\ Go(w, wk[w].next) /\ wk[w].next \in Nexts
      /\ wk[w].snap \in [Buys -> Nat]
  BY IdleAt DEF CommitLots, LotsInv, WorkShape, SnapCovers, Taking
<1>2. /\ WorkShape' /\ \A v \in Workers : v # w => wk'[v] = wk[v]
      /\ wk'[w].at \notin Reading
  BY <1>1, IdleAt, GoMoves DEF LotsInv, Nexts, Reading, Taking
<1>3. PICK t \in [Buys -> Nat] :
         /\ \A b \in Buys : t[b] <= wk[w].snap[b]
         /\ rem' = [b \in Buys |-> IF t[b] > 0 THEN wk[w].snap[b] - t[b] ELSE rem[b]]
         /\ closed' = [b \in Buys |-> closed[b] + t[b]]
  BY CommitWrites
<1>4. ASSUME NEW b \in Buys
      PROVE  /\ rem'[b] \in Nat /\ closed'[b] \in Nat /\ closed[b] <= closed'[b]
             /\ t[b] > 0 => b \in lots /\ EntrySize[b] <= rem'[b] + closed'[b]
             /\ ~(t[b] > 0) => rem'[b] = rem[b] /\ closed'[b] = closed[b]
  <2>1. t[b] \in Nat /\ wk[w].snap[b] \in Nat /\ rem[b] \in Nat /\ closed[b] \in Nat
        /\ t[b] <= wk[w].snap[b] /\ EntrySize[b] \in Nat
    BY <1>1, <1>3, LotsAssumption DEF LotsInv, LotSizes
  <2>2. closed'[b] = closed[b] + t[b]
    BY <1>3
  <2>3. CASE t[b] > 0
    <3>1. rem'[b] = wk[w].snap[b] - t[b]
      BY <1>3, <2>3
    <3>2. b \in lots /\ EntrySize[b] <= wk[w].snap[b] + closed[b]
      BY <1>1, <2>1, <2>3 DEF LotsInv, SnapCovers, Taking
    <3> QED
      BY <2>1, <2>2, <2>3, <3>1, <3>2
  <2>4. CASE ~(t[b] > 0)
    <3>1. rem'[b] = rem[b]
      BY <1>3, <2>4
    <3> QED
      BY <2>1, <2>2, <2>4, <3>1
  <2> QED
    BY <2>3, <2>4
<1>5. LotSizes'
  <2>1. rem' \in [Buys -> Nat] /\ closed' \in [Buys -> Nat]
    BY <1>3, <1>4
  <2> QED
    BY <1>1, <2>1 DEF LotsInv, LotSizes
<1>6. LotAccounted'
  <2> SUFFICES ASSUME NEW b \in lots
               PROVE  EntrySize[b] <= rem'[b] + closed'[b] + (IF rem'[b] = 0 THEN Dust ELSE 0)
    BY <1>1 DEF LotAccounted
  <2>1. b \in Buys /\ EntrySize[b] \in Nat
    BY LotsAssumption DEF LotsInv, LotSizes
  <2>2. CASE t[b] > 0
    BY <1>4, <2>1, <2>2, LotsAssumption
  <2>3. CASE ~(t[b] > 0)
    BY <1>4, <2>1, <2>3 DEF LotsInv, LotAccounted
  <2> QED
    BY <2>2, <2>3
<1>7. ASSUME NEW v \in Workers, v # w PROVE SnapCovers(v)' /\ DustCovers(v)'
  <2>1. wk'[v] = wk[v] /\ SnapCovers(v) /\ DustCovers(v)
    BY <1>2, <1>7 DEF LotsInv
  <2>2. wk[v].at \in Taking =>
          \A b \in Buys : wk[v].snap[b] > 0 => b \in lots /\ EntrySize[b] <= wk[v].snap[b] + closed'[b]
    <3> SUFFICES ASSUME wk[v].at \in Taking, NEW b \in Buys, wk[v].snap[b] > 0
                 PROVE  b \in lots /\ EntrySize[b] <= wk[v].snap[b] + closed'[b]
      OBVIOUS
    <3>1. wk[v].snap[b] \in Nat /\ b \in lots /\ EntrySize[b] <= wk[v].snap[b] + closed[b]
      BY <2>1 DEF SnapCovers
    <3>2. closed[b] \in Nat /\ closed'[b] \in Nat /\ closed[b] <= closed'[b] /\ EntrySize[b] \in Nat
      BY <1>4, LotsAssumption DEF LotsInv, LotSizes
    <3> QED
      BY <3>1, <3>2
  <2>3. ASSUME wk[v].at = "dust", NEW b \in Buys, b \in wk[v].todo
        PROVE  EntrySize[b] <= closed'[b] + Dust
    <3>1. EntrySize[b] <= closed[b] + Dust
      BY <2>1, <2>3 DEF DustCovers
    <3>2. closed[b] \in Nat /\ closed'[b] \in Nat /\ closed[b] <= closed'[b] /\ EntrySize[b] \in Nat /\ Dust \in Nat
      BY <1>4, LotsAssumption DEF LotsInv, LotSizes
    <3> QED
      BY <3>1, <3>2
  <2> QED
    BY <1>1, <2>1, <2>2, <2>3 DEF SnapCovers, DustCovers, Taking
<1>8. SnapCovers(w)' /\ DustCovers(w)'
  BY <1>2 DEF SnapCovers, DustCovers, Reading, Taking
<1>9. TotalsInv'
  <2>1. wrote' = wk[w].day /\ day' = day
    BY DEF CommitLots
  <2> QED
    BY <1>1, <1>2, <2>1 DEF LotsInv, TotalsInv, Reading, Taking
<1> QED
  BY <1>2, <1>5, <1>6, <1>7, <1>8, <1>9 DEF LotsInv

LEMMA DustReadInv ==
  ASSUME LotsInv, NEW w \in Workers, DustRead(w) PROVE LotsInv'
<1> DEFINE dust == {b \in lots : rem[b] \in 1 .. Dust}
           r == [Working("dust", NoKey) EXCEPT !.at = "dust", !.todo = dust]
<1>1. wk' = [wk EXCEPT ![w] = r] /\ UNCHANGED <<rem, closed, lots, summary, wrote, day>>
  BY DEF DustRead
<1>2. DOMAIN r = WorkFields /\ r.next \in Nexts /\ r.at = "dust" /\ r.todo = dust
  BY WorkingShape DEF WorkFields
<1>3. ASSUME NEW b \in dust PROVE EntrySize[b] <= closed[b] + Dust
  <2>1. b \in lots /\ rem[b] \in 1 .. Dust /\ closed[b] \in Nat /\ EntrySize[b] \in Nat /\ rem[b] # 0
    BY <1>3, LotsAssumption DEF LotsInv, LotSizes
  <2>2. EntrySize[b] <= rem[b] + closed[b]
    BY <2>1 DEF LotsInv, LotAccounted
  <2> QED
    BY <2>1, <2>2, LotsAssumption
<1> HIDE DEF r, dust
<1>4. WorkShape' /\ wk'[w] = r /\ \A v \in Workers : v # w => wk'[v] = wk[v]
  BY <1>1, <1>2, WorkMoves DEF LotsInv
<1>5. SnapCovers(w)' /\ DustCovers(w)'
  BY <1>1, <1>2, <1>3, <1>4 DEF SnapCovers, DustCovers, Taking
<1>6. ASSUME NEW v \in Workers, v # w PROVE SnapCovers(v)' /\ DustCovers(v)'
  BY <1>1, <1>4, <1>6 DEF LotsInv, SnapCovers, DustCovers, Taking
<1>7. TotalsInv'
  BY <1>1, <1>2, <1>4, TotalsStay DEF LotsInv, Taking
<1> QED
  BY <1>1, <1>4, <1>5, <1>6, <1>7 DEF LotsInv, LotSizes, LotAccounted

LEMMA DustClearInv ==
  ASSUME LotsInv, NEW w \in Workers, DustClear(w) PROVE LotsInv'
<1>1. /\ wk[w].at = "dust" /\ wk[w] # Idle /\ Go(w, "done") /\ UNCHANGED <<closed, lots, summary, wrote, day>>
      /\ rem' = [b \in Buys |-> IF b \in wk[w].todo THEN 0 ELSE rem[b]]
  BY IdleAt DEF DustClear
<1>2. /\ WorkShape' /\ \A v \in Workers : v # w => wk'[v] = wk[v]
      /\ wk'[w].at \notin Reading
  BY <1>1, IdleAt, GoMoves DEF LotsInv, Reading, Taking
<1>3. LotSizes'
  BY <1>1 DEF LotsInv, LotSizes
<1>4. LotAccounted'
  <2> SUFFICES ASSUME NEW b \in lots
               PROVE  EntrySize[b] <= rem'[b] + closed[b] + (IF rem'[b] = 0 THEN Dust ELSE 0)
    BY <1>1 DEF LotAccounted
  <2>1. b \in Buys /\ closed[b] \in Nat /\ EntrySize[b] \in Nat /\ Dust \in Nat
    BY LotsAssumption DEF LotsInv, LotSizes
  <2>2. CASE b \in wk[w].todo
    <3>1. rem'[b] = 0 /\ EntrySize[b] <= closed[b] + Dust
      BY <1>1, <2>1, <2>2 DEF LotsInv, DustCovers
    <3> QED
      BY <2>1, <3>1
  <2>3. CASE b \notin wk[w].todo
    BY <1>1, <2>1, <2>3 DEF LotsInv, LotAccounted
  <2> QED
    BY <2>2, <2>3
<1>5. ASSUME NEW v \in Workers PROVE SnapCovers(v)' /\ DustCovers(v)'
  <2>1. CASE v = w
    BY <1>2, <2>1 DEF SnapCovers, DustCovers, Reading, Taking
  <2>2. CASE v # w
    BY <1>1, <1>2, <2>2 DEF LotsInv, SnapCovers, DustCovers, Taking
  <2> QED
    BY <2>1, <2>2
<1>6. TotalsInv'
  BY <1>1, <1>2, TotalsStay DEF LotsInv, Reading
<1> QED
  BY <1>2, <1>3, <1>4, <1>5, <1>6 DEF LotsInv
-----------------------------------------------------------------------------
(* The callers of the consumers.                                           *)

LEMMA SellStartInv ==
  ASSUME LotsInv, bought \subseteq Buys, NEW w \in Workers, NEW r \in SellRows, SellStart(w, r)
  PROVE  LotsInv'
<1> DEFINE missing == {b \in bought : LotSub[b] = SellSub[r]}
<1>1. Recorded(missing) /\ missing \in SUBSET Buys /\ UNCHANGED <<closed, summary, wrote, day>>
  BY DEF SellStart
<1>2. \/ wk' = wk
      \/ \E seen, n :
            wk' = [wk EXCEPT ![w] = [Working("sell", r) EXCEPT !.at = "post", !.of = SellSub[r], !.seen = seen,
                                        !.asked = n]]
  BY DEF SellStart
<1> HIDE DEF missing
<1>3. ASSUME NEW seen, NEW n,
             wk' = [wk EXCEPT ![w] = [Working("sell", r) EXCEPT !.at = "post", !.of = SellSub[r], !.seen = seen,
                                        !.asked = n]]
      PROVE  WorkShape' /\ \A v \in Workers : wk'[v] = wk[v] \/ wk'[v].at \notin Reading
  <2> DEFINE x == [Working("sell", r) EXCEPT !.at = "post", !.of = SellSub[r], !.seen = seen, !.asked = n]
  <2>1. DOMAIN x = WorkFields /\ x.next \in Nexts /\ x.at = "post"
    BY WorkingShape DEF WorkFields
  <2>2. wk' = [wk EXCEPT ![w] = x]
    BY <1>3
  <2> HIDE DEF x
  <2> QED
    BY <2>1, <2>2, WorkMoves DEF LotsInv, Reading, Taking
<1>4. WorkShape' /\ \A v \in Workers : wk'[v] = wk[v] \/ wk'[v].at \notin Reading
  BY <1>2, <1>3 DEF LotsInv, WorkShape
<1> QED
  BY <1>1, <1>4, RecordedKeeps

LEMMA RecordInv ==
  ASSUME LotsInv, bought \subseteq Buys, NEW b \in Buys, RecordCopyBuyLot(b) PROVE LotsInv'
BY RecordedKeeps DEF RecordCopyBuyLot, LotsInv, WorkShape

LEMMA SellStepInv ==
  ASSUME LotsInv, NEW w \in Workers,
         SellRejected(w) \/ SellFilled(w) \/ SellResidual(w) \/ SellJudge(w) \/ SellRest(w)
  PROVE  LotsInv'
<1>1. UNCHANGED <<rem, closed, lots, summary, wrote, day>> /\ wk[w] # Idle /\ DOMAIN wk[w] = WorkFields /\ wk[w].next \in Nexts
  BY IdleAt DEF SellRejected, SellFilled, SellResidual, SellJudge, SellRest, LotsInv, WorkShape
<1>2. CASE SellRejected(w) \/ SellJudge(w)
  <2>1. Go(w, "done") \/ Go(w, "rest")
    BY <1>2 DEF SellRejected, SellJudge
  <2> QED
    BY <1>1, <2>1, QuietGo DEF Reading, Taking
<1>3. CASE SellFilled(w)
  <2>1. PICK told :
           \/ wk' = [wk EXCEPT ![w] = [Call(wk[w], wk[w].key, wk[w].of, told, TRUE, 1, "residual") EXCEPT !.told = told]]
           \/ wk' = [wk EXCEPT ![w].at = "rest", ![w].told = told]
    BY <1>3 DEF SellFilled
  <2>2. CASE wk' = [wk EXCEPT ![w] = [Call(wk[w], wk[w].key, wk[w].of, told, TRUE, 1, "residual") EXCEPT !.told = told]]
    <3> DEFINE c == Call(wk[w], wk[w].key, wk[w].of, told, TRUE, 1, "residual")
    <3>1. DOMAIN c = WorkFields /\ c.next \in Nexts /\ c.at = "read"
      BY <1>1 DEF Call, WorkFields, Nexts
    <3>2. wk' = [wk EXCEPT ![w] = [c EXCEPT !.told = told]]
      BY <2>2
    <3> HIDE DEF c
    <3> DEFINE x == [c EXCEPT !.told = told]
    <3>3. DOMAIN x = WorkFields /\ x.next \in Nexts /\ x.at = "read" /\ wk' = [wk EXCEPT ![w] = x]
      BY <3>1, <3>2 DEF WorkFields
    <3> HIDE DEF x
    <3> QED
      BY <1>1, <3>3, QuietWork DEF Reading, Taking
  <2>3. CASE wk' = [wk EXCEPT ![w].at = "rest", ![w].told = told]
    <3> DEFINE x == [wk[w] EXCEPT !.at = "rest", !.told = told]
    <3>1. DOMAIN x = WorkFields /\ x.next \in Nexts /\ x.at = "rest" /\ wk' = [wk EXCEPT ![w] = x]
      BY <1>1, <2>3 DEF WorkFields, LotsInv, WorkShape
    <3> HIDE DEF x
    <3> QED
      BY <1>1, <3>1, QuietWork DEF Reading, Taking
  <2> QED
    BY <2>1, <2>2, <2>3
<1>4. CASE SellResidual(w)
  <2>1. CASE ClosesResidual(wk[w], wk[w].seen)
    BY <1>1, <1>4, <2>1, QuietCall DEF SellResidual, Nexts
  <2>2. CASE ~ClosesResidual(wk[w], wk[w].seen)
    <3> DEFINE x == [wk[w] EXCEPT !.at = "judge"]
    <3>1. DOMAIN x = WorkFields /\ x.next \in Nexts /\ x.at = "judge" /\ wk' = [wk EXCEPT ![w] = x]
      BY <1>1, <1>4, <2>2 DEF SellResidual, WorkFields
    <3> HIDE DEF x
    <3> QED
      BY <1>1, <3>1, QuietWork DEF Reading, Taking
  <2> QED
    BY <2>1, <2>2
<1>5. CASE SellRest(w)
  BY <1>1, <1>5, QuietCall DEF SellRest, Nexts
<1> QED
  BY <1>2, <1>3, <1>4, <1>5

LEMMA SettlementStepInv ==
  ASSUME LotsInv, NEW w \in Workers,
         ManualClose(w) \/ ManualRest(w) \/ Redeem(w) \/ Expire(w) \/ ConsumeThrows(w) \/ Crash(w)
  PROVE  LotsInv'
<1>1. UNCHANGED <<rem, closed, lots, summary, wrote, day>>
  BY DEF ManualClose, ManualRest, Redeem, Expire, ConsumeThrows, Crash
<1>2. CASE ManualClose(w)
  <2>1. PICK e \in Execs, fill \in 1 .. acct :
          wk' = [wk EXCEPT ![w] = Call(Working("manual", e), e, "all", fill, FALSE, 1, "manualRest")]
    BY <1>2 DEF ManualClose
  <2> QED
    BY <1>1, <2>1, WorkingShape, QuietCall DEF Nexts
<1>3. CASE Redeem(w)
  <2>1. PICK e \in Execs :
          wk' = [wk EXCEPT ![w] = Call(Working("redeem", e), e, "all", SettleSize, FALSE, 1, "done")]
    BY <1>3 DEF Redeem
  <2> QED
    BY <1>1, <2>1, WorkingShape, QuietCall DEF Nexts
<1>4. CASE Expire(w)
  <2>1. PICK e \in Execs :
          wk' = [wk EXCEPT ![w] = Call(Working("expire", e), e, "all", SettleSize, TRUE, -1, "done")]
    BY <1>4 DEF Expire
  <2> QED
    BY <1>1, <2>1, WorkingShape, QuietCall DEF Nexts
<1>5. CASE ManualRest(w)
  <2>1. DOMAIN wk[w] = WorkFields
    BY <1>5, IdleAt DEF ManualRest, LotsInv, WorkShape
  <2>2. CASE acct <= Dust
    BY <1>1, <1>5, <2>1, <2>2, QuietCall DEF ManualRest, Nexts
  <2>3. CASE ~(acct <= Dust)
    BY <1>1, <1>5, <2>3, QuietWork DEF ManualRest
  <2> QED
    BY <2>2, <2>3
<1>6. CASE ConsumeThrows(w) \/ Crash(w)
  <2>1. wk[w] # Idle /\ Go(w, "done")
    BY <1>6, IdleAt DEF ConsumeThrows, Crash
  <2> QED
    BY <1>1, <2>1, QuietGo DEF Reading, Taking
<1> QED
  BY <1>2, <1>3, <1>4, <1>5, <1>6

LEMMA PageStartInv ==
  ASSUME LotsInv, NEW w \in Workers, PageStart(w) PROVE LotsInv'
<1>1. UNCHANGED <<rem, closed, lots, summary, wrote, day>>
  BY DEF PageStart
<1>2. CASE expired # {} /\ OpenAll > 0
  <2> DEFINE e == CHOOSE x \in expired : TRUE
  <2>1. wk' = [wk EXCEPT ![w] = Call(Working("page", e), e, "all", SettleSize, TRUE, -1, "lots")]
    BY <1>2 DEF PageStart
  <2> HIDE DEF e
  <2> QED
    BY <1>1, <2>1, WorkingShape, QuietCall DEF Nexts
<1>3. CASE ~(expired # {} /\ OpenAll > 0)
  <2> DEFINE x == [Working("page", NoKey) EXCEPT !.at = "lots"]
  <2>1. DOMAIN x = WorkFields /\ x.next \in Nexts /\ x.at = "lots"
    BY WorkingShape DEF WorkFields
  <2>2. wk' = [wk EXCEPT ![w] = x]
    BY <1>3 DEF PageStart
  <2> HIDE DEF x
  <2> QED
    BY <1>1, <2>1, <2>2, QuietWork DEF Reading, Taking
<1> QED
  BY <1>2, <1>3

LEMMA PageLotsInv ==
  ASSUME LotsInv, NEW w \in Workers, PageReadLots(w) \/ PageCloseLot(w) \/ PageReadRows(w)
  PROVE  LotsInv'
<1>1. UNCHANGED <<rem, closed, lots, summary, wrote, day>> /\ DOMAIN wk[w] = WorkFields /\ wk[w].next \in Nexts
  BY IdleAt DEF PageReadLots, PageCloseLot, PageReadRows, LotsInv, WorkShape
<1>2. ASSUME NEW at \in {"lot", "row"}, NEW todo, wk' = [wk EXCEPT ![w].at = at, ![w].todo = todo]
      PROVE  LotsInv'
  <2> DEFINE x == [wk[w] EXCEPT !.at = at, !.todo = todo]
  <2>1. DOMAIN x = WorkFields /\ x.next \in Nexts /\ x.at = at /\ wk' = [wk EXCEPT ![w] = x]
    BY <1>1, <1>2 DEF WorkFields, LotsInv, WorkShape
  <2> HIDE DEF x
  <2> QED
    BY <1>1, <2>1, QuietWork DEF Reading, Taking
<1>3. CASE PageReadLots(w) \/ PageReadRows(w)
  BY <1>2, <1>3 DEF PageReadLots, PageReadRows
<1>4. CASE PageCloseLot(w)
  <2>1. PICK x \in wk[w].todo :
          wk' = [wk EXCEPT ![w] = IF lastKey[x[1]] = NoKey THEN [wk[w] EXCEPT !.todo = wk[w].todo \ {x}]
                   ELSE Call([wk[w] EXCEPT !.todo = wk[w].todo \ {x}], lastKey[x[1]], LotSub[x[1]], x[2], TRUE, 1, "lot")]
    BY <1>4 DEF PageCloseLot
  <2> DEFINE rest == [wk[w] EXCEPT !.todo = wk[w].todo \ {x}]
  <2>2. DOMAIN rest = WorkFields /\ rest.next \in Nexts /\ rest.at = "lot"
    BY <1>1, <1>4 DEF WorkFields, PageCloseLot
  <2>3. wk' = [wk EXCEPT ![w] = IF lastKey[x[1]] = NoKey THEN rest
                 ELSE Call(rest, lastKey[x[1]], LotSub[x[1]], x[2], TRUE, 1, "lot")]
    BY <2>1
  <2> HIDE DEF rest
  <2>4. CASE lastKey[x[1]] = NoKey
    BY <1>1, <2>2, <2>3, <2>4, QuietWork DEF Reading, Taking
  <2>5. CASE lastKey[x[1]] # NoKey
    BY <1>1, <2>2, <2>3, <2>5, QuietCall DEF Nexts
  <2> QED
    BY <2>4, <2>5
<1> QED
  BY <1>3, <1>4

LEMMA PageRowInv ==
  ASSUME LotsInv, NEW w \in Workers, PageRow(w) PROVE LotsInv'
<1>1. UNCHANGED <<rem, closed, lots, summary, wrote, day>> /\ DOMAIN wk[w] = WorkFields /\ wk[w].next \in Nexts /\ wk[w].at = "row"
  BY IdleAt DEF PageRow, LotsInv, WorkShape
<1>2. PICK r \in wk[w].todo :
        LET rest == [wk[w] EXCEPT !.todo = wk[w].todo \ {r}, !.key = r, !.of = SellSub[r]]
            open == OpenOf(SellSub[r]) IN
        wk' = [wk EXCEPT ![w] =
                 IF sold[r].size = 0 THEN rest
                 ELSE IF open > Dust /\ ~ClosesResidual(wk[w], 0) THEN [rest EXCEPT !.at = "mark"]
                 ELSE Call(rest, r, SellSub[r], open, TRUE, 1, "mark")]
  BY DEF PageRow
<1> DEFINE rest == [wk[w] EXCEPT !.todo = wk[w].todo \ {r}, !.key = r, !.of = SellSub[r]]
           open == OpenOf(SellSub[r])
           marks == [rest EXCEPT !.at = "mark"]
<1>3. \/ wk' = [wk EXCEPT ![w] = rest]
      \/ wk' = [wk EXCEPT ![w] = marks]
      \/ wk' = [wk EXCEPT ![w] = Call(rest, r, SellSub[r], open, TRUE, 1, "mark")]
  BY <1>2
<1>4. DOMAIN rest = WorkFields /\ rest.next \in Nexts /\ rest.at = "row"
  BY <1>1 DEF WorkFields
<1> HIDE DEF rest
<1>5. DOMAIN marks = WorkFields /\ marks.next \in Nexts /\ marks.at = "mark"
  BY <1>4 DEF WorkFields
<1> HIDE DEF marks, open
<1>6. CASE wk' = [wk EXCEPT ![w] = rest]
  BY <1>1, <1>4, <1>6, QuietWork DEF Reading, Taking
<1>7. CASE wk' = [wk EXCEPT ![w] = marks]
  BY <1>1, <1>5, <1>7, QuietWork DEF Reading, Taking
<1>8. CASE wk' = [wk EXCEPT ![w] = Call(rest, r, SellSub[r], open, TRUE, 1, "mark")]
  BY <1>1, <1>4, <1>8, QuietCall DEF Nexts
<1> QED
  BY <1>3, <1>6, <1>7, <1>8

LEMMA PageEndInv ==
  ASSUME LotsInv, NEW w \in Workers, PageMarkRow(w) \/ PageSum(w) PROVE LotsInv'
<1>1. /\ UNCHANGED <<rem, closed, lots, summary, wrote, day>> /\ wk[w] # Idle /\ DOMAIN wk[w] = WorkFields /\ wk[w].next \in Nexts
  BY IdleAt DEF PageMarkRow, PageSum, LotsInv, WorkShape
<1>2. CASE Go(w, "row") \/ Go(w, "done")
  BY <1>1, <1>2, QuietGo DEF Reading, Taking
<1>3. CASE wk' = [wk EXCEPT ![w].at = "sum", ![w].sum = Realized]
  <2> DEFINE x == [wk[w] EXCEPT !.at = "sum", !.sum = Realized]
  <2>1. DOMAIN x = WorkFields /\ x.next \in Nexts /\ x.at = "sum" /\ wk' = [wk EXCEPT ![w] = x]
    BY <1>1, <1>3 DEF WorkFields, LotsInv, WorkShape
  <2> HIDE DEF x
  <2> QED
    BY <1>1, <2>1, QuietWork DEF Reading, Taking
<1> QED
  BY <1>2, <1>3 DEF PageMarkRow, PageSum

\* What a page writes is of no day: whoever has read the total is overtaken by no consumer of its own.
LEMMA PageWriteInv ==
  ASSUME LotsInv, NEW w \in Workers, PageWriteSum(w) PROVE LotsInv'
<1>1. wk[w] # Idle /\ Go(w, "done") /\ wrote' = 0 /\ UNCHANGED <<rem, closed, lots, day>>
  BY IdleAt DEF PageWriteSum
<1>2. WorkShape' /\ wk'[w] = Idle /\ \A v \in Workers : v # w => wk'[v] = wk[v]
  BY <1>1, GoMoves DEF LotsInv
<1>3. ASSUME NEW v \in Workers PROVE SnapCovers(v)' /\ DustCovers(v)'
  <2>1. CASE v = w
    BY <1>2, <2>1, IdleAt DEF SnapCovers, DustCovers, Taking
  <2>2. CASE v # w
    BY <1>1, <1>2, <2>2 DEF LotsInv, SnapCovers, DustCovers, Taking
  <2> QED
    BY <2>1, <2>2
<1>4. TotalsInv'
  BY <1>1, <1>2, IdleAt DEF LotsInv, TotalsInv, Taking
<1> QED
  BY <1>1, <1>2, <1>3, <1>4 DEF LotsInv, LotSizes, LotAccounted

LEMMA DayInv ==
  ASSUME LotsInv, DayBegins PROVE LotsInv'
<1>1. UNCHANGED <<rem, closed, lots, wk, summary, wrote>> /\ day' = day + 1
  BY DEF DayBegins
<1>2. TotalsInv'
  BY <1>1 DEF LotsInv, TotalsInv
<1> QED
  BY <1>1, <1>2 DEF LotsInv, LotSizes, WorkShape, LotAccounted, SnapCovers, DustCovers
-----------------------------------------------------------------------------
LEMMA BoughtNext == bought \subseteq Buys /\ [LotsNext]_lotVars => (bought \subseteq Buys)'
<1> SUFFICES ASSUME bought \subseteq Buys, [LotsNext]_lotVars PROVE bought' \subseteq Buys
  OBVIOUS
<1>1. ASSUME NEW w \in Workers, SellStep(w) PROVE bought' = bought
  BY <1>1 DEF SellStep, SellStart, SellRejected, SellFilled, SellResidual, SellJudge, SellRest
<1>2. ASSUME NEW w \in Workers, PageStep(w) PROVE bought' = bought
  BY <1>2 DEF PageStep, PageStart, PageReadLots, PageCloseLot, PageReadRows, PageRow, PageMarkRow, PageSum,
              PageWriteSum
<1>3. ASSUME NEW w \in Workers,
             \/ ReadLots(w) \/ ReadTotal(w) \/ CommitLots(w) \/ ConsumeThrows(w) \/ Crash(w)
             \/ ManualClose(w) \/ ManualRest(w) \/ Redeem(w) \/ Expire(w) \/ DustRead(w) \/ DustClear(w)
      PROVE  bought' = bought
  BY <1>3 DEF ReadLots, ReadTotal, CommitLots, ConsumeThrows, Crash, ManualClose, ManualRest, Redeem, Expire, DustRead,
              DustClear
<1>4. ASSUME NEW b \in Buys, BuyFilled(b) \/ RecordCopyBuyLot(b) PROVE bought' \subseteq Buys
  BY <1>4 DEF BuyFilled, RecordCopyBuyLot
<1>5. CASE UNCHANGED lotVars \/ DayBegins
  BY <1>5 DEF lotVars, DayBegins
<1> QED
  BY <1>1, <1>2, <1>3, <1>4, <1>5 DEF LotsNext

LEMMA LotsNextInv == LotsInv /\ bought \subseteq Buys /\ [LotsNext]_lotVars => LotsInv'
<1> SUFFICES ASSUME LotsInv, bought \subseteq Buys, [LotsNext]_lotVars PROVE LotsInv'
  OBVIOUS
<1>1. ASSUME NEW b \in Buys, BuyFilled(b) PROVE LotsInv'
  <2>1. UNCHANGED <<rem, closed, lots, wk, summary, wrote, day>>
    BY <1>1 DEF BuyFilled
  <2> QED
    BY <2>1, LotsStay DEF LotsInv, WorkShape
<1>2. ASSUME NEW w \in Workers, SellStep(w) PROVE LotsInv'
  BY <1>2, SellStartInv, SellStepInv DEF SellStep
<1>3. ASSUME NEW w \in Workers, PageStep(w) PROVE LotsInv'
  BY <1>3, PageStartInv, PageLotsInv, PageRowInv, PageEndInv, PageWriteInv DEF PageStep
<1>4. CASE UNCHANGED lotVars
  <2>1. UNCHANGED <<rem, closed, lots, wk, summary, wrote, day>>
    BY <1>4 DEF lotVars
  <2> QED
    BY <2>1, LotsStay DEF LotsInv, WorkShape
<1> QED
  BY <1>1, <1>2, <1>3, <1>4, DayInv, RecordInv, ReadLotsInv, ReadTotalInv, CommitInv, DustReadInv, DustClearInv, SettlementStepInv
     DEF LotsNext

LEMMA LotsInvariant == LotsSpec => [](LotsInv /\ bought \subseteq Buys)
<1>1. LotsInit => bought \subseteq Buys
  BY DEF LotsInit
<1> QED
  BY <1>1, LotsInitInv, LotsNextInv, BoughtNext, PTL DEF LotsSpec

\* However many consumers, pages and clearings of dust overlap, no share that was bought leaves its
\* lot without a close, up to the dust of one clearing.
THEOREM LotsAccounted == LotsSpec => []LotAccounted
<1>1. LotsInv => LotAccounted
  BY DEF LotsInv
<1> QED
  BY <1>1, LotsInvariant, PTL

\* A commit whose snapshot is still true of a lot moves shares from what remains to what is closed.
LEMMA CommitMoves ==
  ASSUME LotsInv, NEW w \in Workers, CommitLots(w), NEW b \in lots, Excess(b)' # Excess(b)
  PROVE  wk[w].snap[b] # rem[b]
<1>1. PICK t \in [Buys -> Nat] :
         /\ \A c \in Buys : t[c] <= wk[w].snap[c]
         /\ rem' = [c \in Buys |-> IF t[c] > 0 THEN wk[w].snap[c] - t[c] ELSE rem[c]]
         /\ closed' = [c \in Buys |-> closed[c] + t[c]]
  BY CommitWrites
<1>2. b \in Buys /\ t[b] \in Nat /\ rem[b] \in Nat /\ closed[b] \in Nat
  BY DEF LotsInv, LotSizes
<1>3. closed'[b] = closed[b] + t[b]
  BY <1>1, <1>2
<1> SUFFICES ASSUME wk[w].snap[b] = rem[b] PROVE FALSE
  OBVIOUS
<1>4. CASE t[b] > 0
  <2>1. rem'[b] = rem[b] - t[b]
    BY <1>1, <1>2, <1>4
  <2> QED
    BY <1>2, <1>3, <2>1 DEF Excess
<1>5. CASE ~(t[b] > 0)
  <2>1. rem'[b] = rem[b] /\ t[b] = 0
    BY <1>1, <1>2, <1>5
  <2> QED
    BY <1>2, <1>3, <2>1 DEF Excess
<1> QED
  BY <1>4, <1>5

\* A lot is closed twice, or given shares back, only by a transaction that read it before another
\* one changed it, and loses shares only to a clearing of dust.
THEOREM ExcessOverlaps == LotsSpec => ExcessNeedsOverlap
<1>1. ASSUME LotsInv, bought \subseteq Buys, [LotsNext]_lotVars, NEW b \in lots, Excess(b)' # Excess(b)
      PROVE  \E w \in Workers : /\ wk'[w] # wk[w]
                                /\ \/ wk[w].at = "commit" /\ wk[w].snap[b] # rem[b]
                                   \/ wk[w].at = "dust" /\ b \in wk[w].todo
  <2>1. ~UNCHANGED <<rem, closed>>
    BY <1>1 DEF Excess
  <2>2. ASSUME NEW S, Recorded(S), closed' = closed PROVE FALSE
    <3>1. b \in Buys
      BY <1>1 DEF LotsInv, LotSizes
    <3>2. rem'[b] = rem[b]
      BY <1>1, <2>2, <3>1 DEF Recorded
    <3> QED
      BY <1>1, <2>2, <3>2 DEF Excess
  <2>3. ASSUME NEW w \in Workers, CommitLots(w)
        PROVE  wk'[w] # wk[w] /\ wk[w].at = "commit" /\ wk[w].snap[b] # rem[b]
    <3>1. wk[w].at = "commit" /\ wk[w] # Idle /\ Go(w, wk[w].next)
      BY <2>3, IdleAt DEF CommitLots
    <3>2. wk[w].next \in Nexts
      BY <1>1, <3>1 DEF LotsInv, WorkShape
    <3>3. wk'[w] = Idle \/ wk'[w].at = wk[w].next
      BY <1>1, <3>1, GoMoves DEF LotsInv
    <3>4. wk'[w].at # "commit"
      BY <3>2, <3>3, IdleAt DEF Nexts
    <3> QED
      BY <1>1, <2>3, <3>1, <3>4, CommitMoves
  <2>4. ASSUME NEW w \in Workers, DustClear(w)
        PROVE  wk'[w] # wk[w] /\ wk[w].at = "dust" /\ b \in wk[w].todo
    <3>1. wk[w].at = "dust" /\ wk[w] # Idle /\ Go(w, "done") /\ closed' = closed
          /\ rem' = [c \in Buys |-> IF c \in wk[w].todo THEN 0 ELSE rem[c]]
      BY <2>4, IdleAt DEF DustClear
    <3>2. wk'[w] = Idle
      BY <1>1, <3>1, GoMoves DEF LotsInv
    <3>3. b \in Buys
      BY <1>1 DEF LotsInv, LotSizes
    <3>4. b \in wk[w].todo
      BY <1>1, <3>1, <3>3 DEF Excess
    <3> QED
      BY <3>1, <3>2, <3>4
  <2>5. ASSUME NEW w \in Workers, SellStep(w) PROVE FALSE
    <3>1. ASSUME NEW r \in SellRows, SellStart(w, r) PROVE FALSE
      <4>1. Recorded({c \in bought : LotSub[c] = SellSub[r]}) /\ closed' = closed
        BY <3>1 DEF SellStart
      <4> QED
        BY <4>1, <2>2
    <3> QED
      BY <2>1, <2>5, <3>1 DEF SellStep, SellRejected, SellFilled, SellResidual, SellJudge, SellRest
  <2>6. ASSUME NEW w \in Workers, PageStep(w) PROVE FALSE
    BY <2>1, <2>6 DEF PageStep, PageStart, PageReadLots, PageCloseLot, PageReadRows, PageRow, PageMarkRow,
                      PageSum, PageWriteSum
  <2>7. ASSUME NEW w \in Workers,
               \/ ReadLots(w) \/ ReadTotal(w) \/ ConsumeThrows(w) \/ Crash(w)
               \/ ManualClose(w) \/ ManualRest(w) \/ Redeem(w) \/ Expire(w) \/ DustRead(w)
        PROVE  FALSE
    BY <2>1, <2>7 DEF ReadLots, ReadTotal, ConsumeThrows, Crash, ManualClose, ManualRest, Redeem, Expire, DustRead
  <2>8. ASSUME NEW c \in Buys, BuyFilled(c) \/ RecordCopyBuyLot(c) PROVE FALSE
    <3>1. CASE BuyFilled(c)
      BY <2>1, <3>1 DEF BuyFilled
    <3>2. CASE RecordCopyBuyLot(c)
      <4>1. Recorded({c}) /\ closed' = closed
        BY <3>2 DEF RecordCopyBuyLot
      <4> QED
        BY <4>1, <2>2
    <3> QED
      BY <2>8, <3>1, <3>2
  <2>9. ~UNCHANGED lotVars /\ ~DayBegins
    BY <2>1 DEF lotVars, DayBegins
  <2> QED
    BY <1>1, <2>3, <2>4, <2>5, <2>6, <2>7, <2>8, <2>9 DEF LotsNext
<1>2. LotsInv /\ bought \subseteq Buys /\ [LotsNext]_lotVars =>
        [\A b \in lots :
          Excess(b)' # Excess(b) =>
             \E w \in Workers : /\ wk'[w] # wk[w]
                                /\ \/ wk[w].at = "commit" /\ wk[w].snap[b] # rem[b]
                                   \/ wk[w].at = "dust" /\ b \in wk[w].todo]_lotVars
  BY <1>1
<1> QED
  BY <1>2, LotsInvariant, PTL DEF LotsSpec, ExcessNeedsOverlap
-----------------------------------------------------------------------------
(* What is booked under the sell keys, and the total of it.                *)

Consuming == {"read", "total", "commit"}

\* A consumer that was called goes on where its caller said.
Phase(s) == IF s.at \in Consuming THEN s.next ELSE s.at
OfKey == Consuming \cup {"post", "residual", "judge", "rest", "manualRest"}
LotsLeft(s) == \A x \in s.todo : x[1] \in Buys
RowsLeft(s) == s.todo \subseteq SellRows

\* Shares are closed under the key of a row or of an execution; a page goes through the lots, then the rows.
KeyedWork(s) ==
  /\ s.at \in OfKey => s.key \in Keys
  /\ s.at \in Consuming => s.gain \in Int
  /\ s.at = "commit" => s.total \in Int
  /\ s.at = "post" => s.asked \in Int
  /\ s.at = "sum" => s.sum \in Int
  /\ Phase(s) = "lot" => LotsLeft(s)
  /\ Phase(s) \in {"row", "mark"} => RowsLeft(s)
AllKeyed == \A w \in Workers : KeyedWork(wk[w])

Sold == sold \in [Keys -> [size : Int, pnl : Int]]
Bought == lots \subseteq bought /\ bought \subseteq Buys
Closers == lastKey \in [Buys -> Keys \cup {NoKey}] /\ expired \subseteq used /\ used \subseteq Execs
Amounts == acct \in Nat /\ summary \in Int

ClosesInv == AllKeyed /\ Sold /\ Bought /\ Closers /\ Amounts

LEMMA RealizedTyped == Sold => Realized \in Int
<1> SUFFICES ASSUME Sold PROVE Realized \in Int
  OBVIOUS
<1>1. \A k \in Keys : [c \in Keys |-> sold[c].pnl][k] \in Int
  BY DEF Sold
<1> QED
  BY <1>1, LotsAssumption, SumTyped DEF Realized, SizeOf

LEMMA KeyedIdle == KeyedWork(Idle)
BY DEF KeyedWork, Idle, OfKey, Phase, Consuming

LEMMA KeyedMoves ==
  ASSUME WorkShape, AllKeyed, NEW w \in Workers, NEW r, wk' = [wk EXCEPT ![w] = r], KeyedWork(r)
  PROVE  AllKeyed'
<1>1. \A v \in Workers : wk'[v] = IF v = w THEN r ELSE wk[v]
  BY DEF WorkShape
<1> QED
  BY <1>1 DEF AllKeyed, KeyedWork, Phase, Consuming, LotsLeft, RowsLeft

LEMMA KeyedCall ==
  ASSUME NEW s, DOMAIN s = WorkFields, NEW key \in Keys, NEW of, NEW want, NEW again, NEW gain \in Int,
         NEW next \in Nexts, next = "lot" => LotsLeft(s), next = "mark" => RowsLeft(s)
  PROVE  KeyedWork(Call(s, key, of, want, again, gain, next))
<1> DEFINE c == Call(s, key, of, want, again, gain, next)
<1>1. /\ c.at = "read" /\ c.key = key /\ c.gain = gain /\ c.next = next /\ c.todo = s.todo
  BY DEF Call, WorkFields
<1> HIDE DEF c
<1>2. KeyedWork(c)
  BY <1>1 DEF KeyedWork, OfKey, Phase, Consuming, LotsLeft, RowsLeft, Nexts
<1> QED
  BY <1>2 DEF c

\* A worker goes on at another place, with the same key and the same list.
LEMMA KeyedGo ==
  ASSUME WorkShape, AllKeyed, NEW w \in Workers, wk[w] # Idle, NEW at, Go(w, at),
         at \notin Consuming \cup {"post", "sum"},
         at \in OfKey => wk[w].key \in Keys,
         at = "lot" => LotsLeft(wk[w]), at \in {"row", "mark"} => RowsLeft(wk[w])
  PROVE  AllKeyed'
<1>1. CASE at = "done"
  BY <1>1, KeyedMoves, KeyedIdle DEF Go
<1>2. CASE at # "done"
  <2> DEFINE r == [wk[w] EXCEPT !.at = at, !.snap = NoLots, !.want = 0, !.again = TRUE, !.next = "done",
                           !.total = 0, !.day = 0]
  <2>1. r.at = at /\ r.key = wk[w].key /\ r.todo = wk[w].todo
    BY DEF WorkShape, WorkFields
  <2>2. wk' = [wk EXCEPT ![w] = r]
    BY <1>2 DEF Go
  <2> HIDE DEF r
  <2>3. KeyedWork(r)
    BY <2>1 DEF KeyedWork, OfKey, Phase, Consuming, LotsLeft, RowsLeft
  <2> QED
    BY <2>2, <2>3, KeyedMoves
<1> QED
  BY <1>1, <1>2

\* A consumer returns to its caller.
LEMMA KeyedReturn ==
  ASSUME WorkShape, AllKeyed, NEW w \in Workers, wk[w].at \in Consuming, Go(w, wk[w].next)
  PROVE  AllKeyed'
<1>1. wk[w] # Idle /\ wk[w].next \in Nexts
  BY IdleAt DEF WorkShape, Consuming
<1>2. KeyedWork(wk[w]) /\ Phase(wk[w]) = wk[w].next /\ wk[w].at \in OfKey
  BY DEF AllKeyed, Phase, Consuming, OfKey, Consuming
<1>3. /\ wk[w].key \in Keys /\ wk[w].next \notin Consuming \cup {"post", "sum"}
      /\ wk[w].next = "lot" => LotsLeft(wk[w])
      /\ wk[w].next \in {"row", "mark"} => RowsLeft(wk[w])
  BY <1>1, <1>2 DEF KeyedWork, Nexts, Consuming
<1> QED
  BY <1>1, <1>3, KeyedGo
-----------------------------------------------------------------------------
(* One action after the other.                                             *)

\* Nothing of the closes changes but the place of a worker.
LEMMA ClosesStay ==
  ASSUME ClosesInv, AllKeyed', UNCHANGED <<sold, bought, lots, lastKey, expired, used, summary>>, acct' \in Nat
  PROVE  ClosesInv'
BY DEF ClosesInv, Sold, Bought, Closers, Amounts

LEMMA SellStartCloses ==
  ASSUME LotsInv, ClosesInv, NEW w \in Workers, NEW r \in SellRows, SellStart(w, r) PROVE ClosesInv'
<1> DEFINE missing == {b \in bought : LotSub[b] = SellSub[r]}
           sizes == [b \in Buys |-> IF b \in lots THEN rem[b] ELSE EntrySize[b]]
           open == SizeOf(sizes, missing)
<1>1. open \in Int
  <2>1. IsFiniteSet(missing) /\ \A b \in missing : sizes[b] \in Int
    BY LotsAssumption, FS_Subset DEF ClosesInv, Bought, LotsInv, LotSizes
  <2> HIDE DEF missing, sizes
  <2> QED
    BY <2>1, SumTyped DEF SizeOf
<1>2. \/ wk' = wk
      \/ \E seen \in {acct, NoKey} :
            wk' = [wk EXCEPT ![w] = [Working("sell", r) EXCEPT !.at = "post", !.of = SellSub[r], !.seen = seen,
                                        !.asked = IF seen = NoKey THEN open ELSE Smaller(open, seen)]]
  BY DEF SellStart
<1>3. lots' = lots \cup missing /\ UNCHANGED <<sold, bought, lastKey, expired, used, summary, acct>>
  BY DEF SellStart, Recorded
<1>4. Bought' /\ Sold' /\ Closers' /\ Amounts'
  BY <1>3 DEF ClosesInv, Bought, Sold, Closers, Amounts
<1> HIDE DEF open
<1>5. ASSUME NEW seen \in {acct, NoKey},
             wk' = [wk EXCEPT ![w] = [Working("sell", r) EXCEPT !.at = "post", !.of = SellSub[r], !.seen = seen,
                                        !.asked = IF seen = NoKey THEN open ELSE Smaller(open, seen)]]
      PROVE  AllKeyed'
  <2> DEFINE n == IF seen = NoKey THEN open ELSE Smaller(open, seen)
             x == [Working("sell", r) EXCEPT !.at = "post", !.of = SellSub[r], !.seen = seen, !.asked = n]
  <2>1. n \in Int
    BY <1>1 DEF Smaller, ClosesInv, Amounts
  <2> HIDE DEF n
  <2>2. x.at = "post" /\ x.key = r /\ x.asked = n
    BY DEF Working
  <2>3. wk' = [wk EXCEPT ![w] = x]
    BY <1>5 DEF n
  <2> HIDE DEF x
  <2>4. KeyedWork(x)
    BY <2>1, <2>2 DEF KeyedWork, Keys, Phase, Consuming
  <2> QED
    BY <2>3, <2>4, KeyedMoves DEF LotsInv, ClosesInv
<1>6. AllKeyed'
  BY <1>2, <1>5 DEF ClosesInv, AllKeyed
<1> QED
  BY <1>4, <1>6 DEF ClosesInv

LEMMA SellStepCloses ==
  ASSUME LotsInv, ClosesInv, NEW w \in Workers,
         SellRejected(w) \/ SellFilled(w) \/ SellResidual(w) \/ SellJudge(w) \/ SellRest(w)
  PROVE  ClosesInv'
<1>1. /\ UNCHANGED <<sold, bought, lots, lastKey, expired, used, summary>>
      /\ wk[w].at \in {"post", "residual", "judge", "rest"}
      /\ wk[w] # Idle /\ DOMAIN wk[w] = WorkFields
  BY IdleAt DEF SellRejected, SellFilled, SellResidual, SellJudge, SellRest, LotsInv, WorkShape
<1>2. WorkShape /\ AllKeyed /\ KeyedWork(wk[w]) /\ wk[w].key \in Keys
  BY <1>1 DEF LotsInv, ClosesInv, AllKeyed, KeyedWork, OfKey, Consuming
<1>3. ASSUME NEW want, NEW next \in {"residual", "judge", "done"}
      PROVE  KeyedWork(Call(wk[w], wk[w].key, wk[w].of, want, TRUE, 1, next))
  <2>1. 1 \in Int /\ next \in Nexts /\ next # "lot" /\ next # "mark"
    BY DEF Nexts
  <2> QED
    BY <1>1, <1>2, <2>1, KeyedCall
<1>4. CASE SellRejected(w) \/ SellJudge(w)
  <2>1. (Go(w, "done") \/ Go(w, "rest")) /\ acct' = acct
    BY <1>4 DEF SellRejected, SellJudge
  <2>2. AllKeyed'
    BY <1>1, <1>2, <2>1, KeyedGo DEF Consuming
  <2> QED
    BY <1>1, <2>1, <2>2, ClosesStay DEF ClosesInv, Amounts
<1>5. CASE SellFilled(w)
  <2>1. PICK fill \in 1 .. Smaller(wk[w].asked, acct) : acct' = acct - fill /\ \E told :
           \/ wk' = [wk EXCEPT ![w] = [Call(wk[w], wk[w].key, wk[w].of, told, TRUE, 1, "residual") EXCEPT !.told = told]]
           \/ wk' = [wk EXCEPT ![w].at = "rest", ![w].told = told]
    BY <1>5 DEF SellFilled
  <2>2. PICK told :
           \/ wk' = [wk EXCEPT ![w] = [Call(wk[w], wk[w].key, wk[w].of, told, TRUE, 1, "residual") EXCEPT !.told = told]]
           \/ wk' = [wk EXCEPT ![w].at = "rest", ![w].told = told]
    BY <2>1
  <2>3. acct' \in Nat
    <3>1. wk[w].asked \in Int /\ acct \in Nat
      BY <1>2, <1>5 DEF SellFilled, KeyedWork, ClosesInv, Amounts
    <3> QED
      BY <2>1, <3>1 DEF Smaller
  <2>4. CASE wk' = [wk EXCEPT ![w] = [Call(wk[w], wk[w].key, wk[w].of, told, TRUE, 1, "residual") EXCEPT !.told = told]]
    <3> DEFINE c == Call(wk[w], wk[w].key, wk[w].of, told, TRUE, 1, "residual")
               x == [c EXCEPT !.told = told]
    <3>1. KeyedWork(c)
      BY <1>3
    <3>2. DOMAIN c = WorkFields
      BY <1>1, CallShape DEF Nexts
    <3> HIDE DEF c
    <3>3. KeyedWork(x)
      BY <3>1, <3>2 DEF KeyedWork, Phase, Consuming, LotsLeft, RowsLeft, WorkFields
    <3>4. wk' = [wk EXCEPT ![w] = x]
      BY <2>4 DEF c
    <3> HIDE DEF x
    <3> QED
      BY <1>1, <1>2, <2>3, <3>3, <3>4, KeyedMoves, ClosesStay
  <2>5. CASE wk' = [wk EXCEPT ![w].at = "rest", ![w].told = told]
    <3> DEFINE x == [wk[w] EXCEPT !.at = "rest", !.told = told]
    <3>1. x.at = "rest" /\ x.key = wk[w].key /\ wk' = [wk EXCEPT ![w] = x]
      BY <1>1, <1>2, <2>5 DEF WorkFields, WorkShape
    <3> HIDE DEF x
    <3>2. KeyedWork(x)
      BY <1>2, <3>1 DEF KeyedWork, Phase, Consuming
    <3> QED
      BY <1>1, <1>2, <2>3, <3>1, <3>2, KeyedMoves, ClosesStay
  <2> QED
    BY <2>2, <2>4, <2>5
<1>6. CASE SellResidual(w)
  <2>1. acct' \in Nat
    BY <1>6 DEF SellResidual, ClosesInv, Amounts
  <2>2. CASE ClosesResidual(wk[w], wk[w].seen)
    <3>1. wk' = [wk EXCEPT ![w] = Call(wk[w], wk[w].key, wk[w].of, OpenOf(wk[w].of), TRUE, 1, "judge")]
      BY <1>6, <2>2 DEF SellResidual
    <3>2. KeyedWork(Call(wk[w], wk[w].key, wk[w].of, OpenOf(wk[w].of), TRUE, 1, "judge"))
      BY <1>3
    <3>3. AllKeyed'
      BY <1>2, <3>1, <3>2, KeyedMoves
    <3> QED
      BY <1>1, <2>1, <3>3, ClosesStay
  <2>3. CASE ~ClosesResidual(wk[w], wk[w].seen)
    <3> DEFINE x == [wk[w] EXCEPT !.at = "judge"]
    <3>1. x.at = "judge" /\ x.key = wk[w].key /\ wk' = [wk EXCEPT ![w] = x]
      BY <1>1, <1>6, <2>3 DEF SellResidual, WorkFields
    <3> HIDE DEF x
    <3>2. KeyedWork(x)
      BY <1>2, <3>1 DEF KeyedWork, Phase, Consuming
    <3> QED
      BY <1>1, <1>2, <2>1, <3>1, <3>2, KeyedMoves, ClosesStay
  <2> QED
    BY <2>2, <2>3
<1>7. CASE SellRest(w)
  <2>1. /\ acct' \in Nat
        /\ wk' = [wk EXCEPT ![w] = Call(wk[w], wk[w].key, wk[w].of, Smaller(OpenOf(wk[w].of), wk[w].told), TRUE, 1, "done")]
    BY <1>7 DEF SellRest, ClosesInv, Amounts
  <2>2. KeyedWork(Call(wk[w], wk[w].key, wk[w].of, Smaller(OpenOf(wk[w].of), wk[w].told), TRUE, 1, "done"))
    BY <1>3
  <2>3. AllKeyed'
    BY <1>2, <2>1, <2>2, KeyedMoves
  <2> QED
    BY <1>1, <2>1, <2>3, ClosesStay
<1> QED
  BY <1>4, <1>5, <1>6, <1>7

\* A new execution of a manual close, a redeem or a worthless settlement.
LEMMA ExecCloses ==
  ASSUME LotsInv, ClosesInv, NEW w \in Workers, NEW e \in Execs, NEW kind, NEW want, NEW again, NEW gain \in Int,
         NEW next \in {"done", "manualRest", "lots"},
         wk' = [wk EXCEPT ![w] = Call(Working(kind, e), e, "all", want, again, gain, next)],
         UNCHANGED <<sold, bought, lots, lastKey, summary>>, acct' \in Nat, Closers'
  PROVE  ClosesInv'
<1>1. KeyedWork(Call(Working(kind, e), e, "all", want, again, gain, next))
  BY WorkingShape, KeyedCall DEF Keys, Nexts
<1>2. AllKeyed'
  BY <1>1, KeyedMoves DEF LotsInv, ClosesInv
<1> QED
  BY <1>2 DEF ClosesInv, Sold, Bought, Amounts

LEMMA SettlementCloses ==
  ASSUME LotsInv, ClosesInv, NEW w \in Workers,
         ManualClose(w) \/ ManualRest(w) \/ Redeem(w) \/ Expire(w) \/ ConsumeThrows(w) \/ Crash(w)
  PROVE  ClosesInv'
<1>1. UNCHANGED <<sold, bought, lots, lastKey, summary>> /\ WorkShape /\ AllKeyed
  BY DEF ManualClose, ManualRest, Redeem, Expire, ConsumeThrows, Crash, LotsInv, ClosesInv
<1>2. CASE ManualClose(w)
  <2>1. PICK e \in Execs, fill \in 1 .. acct :
          /\ NewExec(e) /\ acct' = acct - fill
          /\ wk' = [wk EXCEPT ![w] = Call(Working("manual", e), e, "all", fill, FALSE, 1, "manualRest")]
    BY <1>2 DEF ManualClose
  <2>2. acct' \in Nat
    BY <2>1 DEF ClosesInv, Amounts
  <2>3. Closers'
    BY <1>2, <2>1 DEF ManualClose, NewExec, ClosesInv, Closers
  <2>4. 1 \in Int /\ "manualRest" \in {"done", "manualRest", "lots"}
    OBVIOUS
  <2> QED
    BY <1>1, <2>1, <2>2, <2>3, <2>4, ExecCloses
<1>3. CASE Redeem(w)
  <2>1. PICK e \in Execs :
          /\ NewExec(e)
          /\ wk' = [wk EXCEPT ![w] = Call(Working("redeem", e), e, "all", SettleSize, FALSE, 1, "done")]
    BY <1>3 DEF Redeem
  <2>2. Closers' /\ acct' \in Nat
    BY <1>3, <2>1 DEF Redeem, NewExec, ClosesInv, Closers
  <2>3. 1 \in Int /\ "done" \in {"done", "manualRest", "lots"}
    OBVIOUS
  <2> QED
    BY <1>1, <2>1, <2>2, <2>3, ExecCloses
<1>4. CASE Expire(w)
  <2>1. PICK e \in Execs :
          /\ NewExec(e) /\ expired' = {e}
          /\ wk' = [wk EXCEPT ![w] = Call(Working("expire", e), e, "all", SettleSize, TRUE, -1, "done")]
    BY <1>4 DEF Expire
  <2>2. Closers' /\ acct' \in Nat /\ -1 \in Int
    BY <1>4, <2>1 DEF Expire, NewExec, ClosesInv, Closers, Amounts
  <2>3. "done" \in {"done", "manualRest", "lots"}
    OBVIOUS
  <2> QED
    BY <1>1, <2>1, <2>2, <2>3, ExecCloses
<1>5. CASE ManualRest(w)
  <2>1. /\ DOMAIN wk[w] = WorkFields /\ wk[w].at = "manualRest" /\ acct' \in Nat
        /\ UNCHANGED <<expired, used>>
    BY <1>5, IdleAt DEF ManualRest, LotsInv, WorkShape, ClosesInv, Amounts
  <2>2. wk[w].key \in Keys
    BY <2>1 DEF ClosesInv, AllKeyed, KeyedWork, OfKey, Consuming
  <2>3. CASE acct <= Dust
    <3>1. wk' = [wk EXCEPT ![w] = Call(wk[w], wk[w].key, "all", OpenAll, TRUE, 1, "done")]
      BY <1>5, <2>3 DEF ManualRest
    <3>2. KeyedWork(Call(wk[w], wk[w].key, "all", OpenAll, TRUE, 1, "done"))
      <4>1. 1 \in Int /\ "done" \in Nexts /\ "done" # "lot" /\ "done" # "mark"
        BY DEF Nexts
      <4> QED
        BY <2>1, <2>2, <4>1, KeyedCall
    <3>3. AllKeyed'
      BY <1>1, <3>1, <3>2, KeyedMoves
    <3> QED
      BY <1>1, <2>1, <3>3, ClosesStay
  <2>4. CASE ~(acct <= Dust)
    <3>1. wk' = [wk EXCEPT ![w] = Idle]
      BY <1>5, <2>4 DEF ManualRest
    <3> QED
      BY <1>1, <2>1, <3>1, KeyedIdle, KeyedMoves, ClosesStay
  <2> QED
    BY <2>3, <2>4
<1>6. CASE ConsumeThrows(w) \/ Crash(w)
  <2>1. wk[w] # Idle /\ Go(w, "done") /\ acct' \in Nat /\ UNCHANGED <<expired, used>>
    BY <1>6, IdleAt DEF ConsumeThrows, Crash, ClosesInv, Amounts
  <2>2. AllKeyed'
    BY <1>1, <2>1, KeyedGo DEF OfKey, Consuming
  <2> QED
    BY <1>1, <2>1, <2>2, ClosesStay
<1> QED
  BY <1>2, <1>3, <1>4, <1>5, <1>6

LEMMA PageLotsCloses ==
  ASSUME LotsInv, ClosesInv, NEW w \in Workers, PageStart(w) \/ PageReadLots(w) \/ PageCloseLot(w) \/ PageReadRows(w)
  PROVE  ClosesInv'
<1>1. /\ UNCHANGED <<sold, bought, lots, lastKey, expired, used, summary>> /\ acct' \in Nat
      /\ WorkShape /\ AllKeyed /\ KeyedWork(wk[w])
  BY DEF PageStart, PageReadLots, PageCloseLot, PageReadRows, LotsInv, ClosesInv, AllKeyed, Amounts
<1>2. ASSUME NEW r, wk' = [wk EXCEPT ![w] = r], KeyedWork(r) PROVE ClosesInv'
  BY <1>1, <1>2, KeyedMoves, ClosesStay
<1>3. CASE PageStart(w)
  <2>1. CASE expired # {} /\ OpenAll > 0
    <3> DEFINE e == CHOOSE x \in expired : TRUE
    <3>1. e \in Execs
      BY <2>1 DEF ClosesInv, Closers
    <3>2. wk' = [wk EXCEPT ![w] = Call(Working("page", e), e, "all", SettleSize, TRUE, -1, "lots")]
      BY <1>3, <2>1 DEF PageStart
    <3> HIDE DEF e
    <3>3. Closers' /\ -1 \in Int /\ "lots" \in {"done", "manualRest", "lots"}
      BY <1>1 DEF ClosesInv, Closers
    <3> QED
      BY <1>1, <3>1, <3>2, <3>3, ExecCloses
  <2>2. CASE ~(expired # {} /\ OpenAll > 0)
    <3> DEFINE x == [Working("page", NoKey) EXCEPT !.at = "lots"]
    <3>1. x.at = "lots"
      BY DEF Working
    <3>2. wk' = [wk EXCEPT ![w] = x]
      BY <1>3, <2>2 DEF PageStart
    <3> HIDE DEF x
    <3>3. KeyedWork(x)
      BY <3>1 DEF KeyedWork, OfKey, Phase, Consuming
    <3> QED
      BY <1>2, <3>2, <3>3
  <2> QED
    BY <2>1, <2>2
<1>4. CASE PageReadLots(w)
  <2> DEFINE todo == {<<b, rem[b]>> : b \in {c \in lots : rem[c] > Dust}}
             x == [wk[w] EXCEPT !.at = "lot", !.todo = todo]
  <2>1. wk' = [wk EXCEPT ![w] = x] /\ DOMAIN wk[w] = WorkFields
    BY <1>1, <1>4, IdleAt DEF PageReadLots, WorkShape
  <2>2. x.at = "lot" /\ x.todo = todo
    BY <2>1 DEF WorkFields
  <2>3. \A y \in todo : y[1] \in Buys
    BY DEF LotsInv, LotSizes
  <2> HIDE DEF x, todo
  <2>4. KeyedWork(x)
    BY <2>2, <2>3 DEF KeyedWork, OfKey, Phase, Consuming, LotsLeft
  <2> QED
    BY <1>2, <2>1, <2>4
<1>5. CASE PageReadRows(w)
  <2> DEFINE todo == {r \in SellRows : row[r].status = "failed"}
             x == [wk[w] EXCEPT !.at = "row", !.todo = todo]
  <2>1. wk' = [wk EXCEPT ![w] = x] /\ DOMAIN wk[w] = WorkFields
    BY <1>1, <1>5, IdleAt DEF PageReadRows, WorkShape
  <2>2. x.at = "row" /\ x.todo = todo /\ todo \subseteq SellRows
    BY <2>1 DEF WorkFields
  <2> HIDE DEF x, todo
  <2>3. KeyedWork(x)
    BY <2>2 DEF KeyedWork, OfKey, Phase, Consuming, RowsLeft
  <2> QED
    BY <1>2, <2>1, <2>3
<1>6. CASE PageCloseLot(w)
  <2>1. PICK x \in wk[w].todo :
          wk' = [wk EXCEPT ![w] = IF lastKey[x[1]] = NoKey THEN [wk[w] EXCEPT !.todo = wk[w].todo \ {x}]
                   ELSE Call([wk[w] EXCEPT !.todo = wk[w].todo \ {x}], lastKey[x[1]], LotSub[x[1]], x[2], TRUE, 1, "lot")]
    BY <1>6 DEF PageCloseLot
  <2> DEFINE rest == [wk[w] EXCEPT !.todo = wk[w].todo \ {x}]
  <2>2. wk[w].at = "lot" /\ DOMAIN wk[w] = WorkFields
    BY <1>1, <1>6, IdleAt DEF PageCloseLot, WorkShape
  <2>3. LotsLeft(wk[w])
    BY <1>1, <2>2 DEF KeyedWork, Phase, Consuming
  <2>4. DOMAIN rest = WorkFields /\ rest.at = "lot" /\ rest.todo = wk[w].todo \ {x}
    BY <2>2 DEF WorkFields
  <2>5. wk' = [wk EXCEPT ![w] = IF lastKey[x[1]] = NoKey THEN rest
                 ELSE Call(rest, lastKey[x[1]], LotSub[x[1]], x[2], TRUE, 1, "lot")]
    BY <2>1
  <2> HIDE DEF rest
  <2>6. LotsLeft(rest)
    BY <2>3, <2>4 DEF LotsLeft
  <2>7. CASE lastKey[x[1]] = NoKey
    <3>1. KeyedWork(rest)
      BY <2>4, <2>6 DEF KeyedWork, OfKey, Phase, Consuming
    <3> QED
      BY <1>2, <2>5, <2>7, <3>1
  <2>8. CASE lastKey[x[1]] # NoKey
    <3>1. lastKey[x[1]] \in Keys
      BY <2>3, <2>8 DEF LotsLeft, ClosesInv, Closers
    <3>2. 1 \in Int /\ "lot" \in Nexts /\ "lot" # "mark"
      BY DEF Nexts
    <3>3. KeyedWork(Call(rest, lastKey[x[1]], LotSub[x[1]], x[2], TRUE, 1, "lot"))
      BY <2>4, <2>6, <3>1, <3>2, KeyedCall
    <3> QED
      BY <1>2, <2>5, <2>8, <3>3
  <2> QED
    BY <2>7, <2>8
<1> QED
  BY <1>3, <1>4, <1>5, <1>6

LEMMA PageRowCloses ==
  ASSUME LotsInv, ClosesInv, NEW w \in Workers, PageRow(w) PROVE ClosesInv'
<1>1. /\ UNCHANGED <<sold, bought, lots, lastKey, expired, used, summary>> /\ acct' \in Nat
      /\ WorkShape /\ AllKeyed /\ KeyedWork(wk[w]) /\ wk[w].at = "row" /\ DOMAIN wk[w] = WorkFields
  BY IdleAt DEF PageRow, LotsInv, WorkShape, ClosesInv, AllKeyed, Amounts
<1>2. ASSUME NEW r, wk' = [wk EXCEPT ![w] = r], KeyedWork(r) PROVE ClosesInv'
  BY <1>1, <1>2, KeyedMoves, ClosesStay
<1>3. PICK r \in wk[w].todo :
        LET rest == [wk[w] EXCEPT !.todo = wk[w].todo \ {r}, !.key = r, !.of = SellSub[r]]
            open == OpenOf(SellSub[r]) IN
        wk' = [wk EXCEPT ![w] =
                 IF sold[r].size = 0 THEN rest
                 ELSE IF open > Dust /\ ~ClosesResidual(wk[w], 0) THEN [rest EXCEPT !.at = "mark"]
                 ELSE Call(rest, r, SellSub[r], open, TRUE, 1, "mark")]
  BY DEF PageRow
<1> DEFINE rest == [wk[w] EXCEPT !.todo = wk[w].todo \ {r}, !.key = r, !.of = SellSub[r]]
           open == OpenOf(SellSub[r])
           marks == [rest EXCEPT !.at = "mark"]
<1>4. \/ wk' = [wk EXCEPT ![w] = rest]
      \/ wk' = [wk EXCEPT ![w] = marks]
      \/ wk' = [wk EXCEPT ![w] = Call(rest, r, SellSub[r], open, TRUE, 1, "mark")]
  BY <1>3
<1>5. RowsLeft(wk[w])
  BY <1>1 DEF KeyedWork, Phase, Consuming
<1>6. r \in Keys /\ DOMAIN rest = WorkFields /\ rest.at = "row" /\ rest.todo = wk[w].todo \ {r}
  BY <1>1, <1>5 DEF WorkFields, RowsLeft, Keys
<1> HIDE DEF rest
<1>7. RowsLeft(rest)
  BY <1>5, <1>6 DEF RowsLeft
<1>8. marks.at = "mark" /\ marks.todo = rest.todo
  BY <1>6 DEF WorkFields
<1> HIDE DEF marks, open
<1>9. KeyedWork(rest) /\ KeyedWork(marks)
  BY <1>6, <1>7, <1>8 DEF KeyedWork, OfKey, Phase, Consuming, RowsLeft
<1>10. KeyedWork(Call(rest, r, SellSub[r], open, TRUE, 1, "mark"))
  <2>1. 1 \in Int /\ "mark" \in Nexts /\ "mark" # "lot"
    BY DEF Nexts
  <2> QED
    BY <1>6, <1>7, <2>1, KeyedCall
<1> QED
  BY <1>2, <1>4, <1>9, <1>10

LEMMA PageEndCloses ==
  ASSUME LotsInv, ClosesInv, NEW w \in Workers, PageMarkRow(w) \/ PageSum(w) \/ PageWriteSum(w)
  PROVE  ClosesInv'
<1>1. /\ UNCHANGED <<sold, bought, lots, lastKey, expired, used>> /\ acct' \in Nat
      /\ WorkShape /\ AllKeyed /\ KeyedWork(wk[w]) /\ wk[w] # Idle /\ DOMAIN wk[w] = WorkFields
  BY IdleAt DEF PageMarkRow, PageSum, PageWriteSum, LotsInv, WorkShape, ClosesInv, AllKeyed, Amounts
<1>2. CASE PageMarkRow(w)
  <2>1. wk[w].at = "mark" /\ Go(w, "row") /\ summary' = summary
    BY <1>2 DEF PageMarkRow
  <2>2. RowsLeft(wk[w])
    BY <1>1, <2>1 DEF KeyedWork, Phase, Consuming
  <2>3. AllKeyed'
    BY <1>1, <2>1, <2>2, KeyedGo DEF OfKey, Consuming
  <2> QED
    BY <1>1, <2>1, <2>3, ClosesStay
<1>3. CASE Go(w, "done")
  <2>1. AllKeyed'
    BY <1>1, <1>3, KeyedGo DEF OfKey, Consuming
  <2>2. summary' \in Int
    BY <1>1 DEF PageMarkRow, PageSum, PageWriteSum, KeyedWork, ClosesInv, Amounts
  <2> QED
    BY <1>1, <2>1, <2>2 DEF ClosesInv, Sold, Bought, Closers, Amounts
<1>4. CASE PageSum(w) /\ wk' = [wk EXCEPT ![w].at = "sum", ![w].sum = Realized]
  <2> DEFINE x == [wk[w] EXCEPT !.at = "sum", !.sum = Realized]
  <2>1. wk' = [wk EXCEPT ![w] = x] /\ summary' = summary
    BY <1>1, <1>4 DEF WorkShape, PageSum
  <2>2. x.at = "sum" /\ x.sum \in Int
    BY <1>1, RealizedTyped DEF WorkFields, ClosesInv
  <2> HIDE DEF x
  <2>3. KeyedWork(x)
    BY <2>2 DEF KeyedWork, OfKey, Phase, Consuming
  <2> QED
    BY <1>1, <2>1, <2>3, KeyedMoves, ClosesStay
<1> QED
  BY <1>2, <1>3, <1>4 DEF PageSum, PageWriteSum

LEMMA ReadLotsCloses ==
  ASSUME LotsInv, ClosesInv, NEW w \in Workers, ReadLots(w) PROVE ClosesInv'
<1>1. /\ UNCHANGED <<sold, bought, lots, lastKey, expired, used, summary>> /\ acct' \in Nat
      /\ WorkShape /\ AllKeyed /\ KeyedWork(wk[w]) /\ wk[w].at = "read" /\ DOMAIN wk[w] = WorkFields
  BY IdleAt DEF ReadLots, LotsInv, WorkShape, ClosesInv, AllKeyed, Amounts
<1>2. CASE Go(w, wk[w].next)
  <2>1. AllKeyed'
    BY <1>1, <1>2, KeyedReturn DEF Consuming
  <2> QED
    BY <1>1, <2>1, ClosesStay
<1> DEFINE snap == [b \in Buys |-> IF b \in InScope(wk[w]) THEN rem[b] ELSE 0]
           r == [wk[w] EXCEPT !.at = "total", !.day = day, !.snap = snap]
<1>3. CASE wk' = [wk EXCEPT ![w].at = "total", ![w].day = day, ![w].snap = snap]
  <2>1. wk' = [wk EXCEPT ![w] = r]
    BY <1>1, <1>3 DEF WorkShape
  <2>2. /\ r.at = "total" /\ r.key = wk[w].key /\ r.gain = wk[w].gain /\ r.next = wk[w].next
        /\ r.todo = wk[w].todo
    BY <1>1 DEF WorkFields
  <2> HIDE DEF r, snap
  <2>3. KeyedWork(r)
    BY <1>1, <2>2 DEF KeyedWork, OfKey, Phase, Consuming, LotsLeft, RowsLeft
  <2> QED
    BY <1>1, <2>1, <2>3, KeyedMoves, ClosesStay
<1> HIDE DEF snap, r
<1> QED
  BY <1>2, <1>3 DEF ReadLots, snap

LEMMA ReadTotalCloses ==
  ASSUME LotsInv, ClosesInv, NEW w \in Workers, ReadTotal(w) PROVE ClosesInv'
<1> DEFINE r == [wk[w] EXCEPT !.at = "commit", !.total = summary]
<1>1. /\ UNCHANGED <<sold, bought, lots, lastKey, expired, used, summary>> /\ acct' \in Nat
      /\ WorkShape /\ AllKeyed /\ KeyedWork(wk[w]) /\ wk[w].at = "total" /\ DOMAIN wk[w] = WorkFields
  BY IdleAt DEF ReadTotal, LotsInv, WorkShape, ClosesInv, AllKeyed, Amounts
<1>2. /\ r.at = "commit" /\ r.key = wk[w].key /\ r.gain = wk[w].gain /\ r.next = wk[w].next
      /\ r.todo = wk[w].todo /\ r.total = summary /\ wk' = [wk EXCEPT ![w] = r]
  BY <1>1 DEF WorkFields, ReadTotal
<1> HIDE DEF r
<1>3. summary \in Int
  BY DEF ClosesInv, Amounts
<1>4. KeyedWork(r)
  BY <1>1, <1>2, <1>3 DEF KeyedWork, OfKey, Phase, Consuming, LotsLeft, RowsLeft
<1> QED
  BY <1>1, <1>2, <1>4, KeyedMoves, ClosesStay

\* A commit adds the same profit to the total it has read and to the closes of its key.
LEMMA CommitBooks ==
  ASSUME LotsInv, ClosesInv, NEW w \in Workers, CommitLots(w)
  PROVE  /\ Sold' /\ summary' \in Int /\ lastKey' \in [Buys -> Keys \cup {NoKey}]
         /\ summary' - Realized' = wk[w].total - Realized
<1>1. wk[w].key \in Keys /\ wk[w].gain \in Int /\ wk[w].total \in Int /\ wk[w].at = "commit"
  BY DEF CommitLots, ClosesInv, AllKeyed, KeyedWork, OfKey, Consuming
<1>2. PICK t \in Takes(wk[w].snap, wk[w].want) :
         /\ lastKey' = [b \in Buys |-> IF t[b] > 0 THEN wk[w].key ELSE lastKey[b]]
         /\ sold' = [sold EXCEPT ![wk[w].key] =
                       [size |-> sold[wk[w].key].size + SizeOf(t, Buys),
                        pnl |-> sold[wk[w].key].pnl + SizeOf(t, Buys) * wk[w].gain]]
         /\ summary' = wk[w].total + SizeOf(t, Buys) * wk[w].gain
  BY DEF CommitLots
<1> DEFINE key == wk[w].key
           size == SizeOf(t, Buys)
           profit == size * wk[w].gain
           f == [k \in Keys |-> sold[k].pnl]
<1>3. size \in Int
  <2>1. \A b \in Buys : t[b] \in Int
    BY DEF Takes
  <2> QED
    BY <2>1, LotsAssumption, SumTyped DEF SizeOf
<1>4. profit \in Int
  BY <1>1, <1>3
<1>5. /\ sold' = [sold EXCEPT ![key] = [size |-> sold[key].size + size, pnl |-> sold[key].pnl + profit]]
      /\ summary' = wk[w].total + profit
  BY <1>2
<1> HIDE DEF size, profit
<1>6. \A k \in Keys : sold[k].size \in Int /\ sold[k].pnl \in Int
  BY DEF ClosesInv, Sold
<1>7. sold' \in [Keys -> [size : Int, pnl : Int]]
  BY <1>1, <1>3, <1>4, <1>5, <1>6 DEF ClosesInv, Sold
<1>8. [k \in Keys |-> sold'[k].pnl] = [f EXCEPT ![key] = f[key] + profit]
  BY <1>1, <1>4, <1>5, <1>6 DEF ClosesInv, Sold
<1>9. f \in [Keys -> Int]
  BY <1>6
<1>10. Realized' = Realized + profit
  <2>1. /\ Realized = SumFunctionOnSet(f, Keys)
        /\ Realized' = SumFunctionOnSet([f EXCEPT ![key] = f[key] + profit], Keys)
    BY <1>8 DEF Realized, SizeOf
  <2> HIDE DEF f, key
  <2>2. key \in Keys
    BY <1>1 DEF key
  <2>3. SumFunctionOnSet([f EXCEPT ![key] = f[key] + profit], Keys) = SumFunctionOnSet(f, Keys) + profit
    BY <1>4, <1>9, <2>2, LotsAssumption, SumBooks
  <2> QED
    BY <2>1, <2>3
<1>11. Realized \in Int /\ wk[w].total \in Int
  BY <1>1, RealizedTyped DEF ClosesInv, Amounts
<1>12. lastKey' \in [Buys -> Keys \cup {NoKey}]
  BY <1>1, <1>2 DEF ClosesInv, Closers
<1> QED
  BY <1>4, <1>5, <1>7, <1>10, <1>11, <1>12 DEF Sold

LEMMA CommitCloses ==
  ASSUME LotsInv, ClosesInv, NEW w \in Workers, CommitLots(w) PROVE ClosesInv'
<1>1. /\ UNCHANGED <<bought, lots, expired, used, acct>> /\ wk[w].at = "commit" /\ Go(w, wk[w].next)
      /\ WorkShape /\ AllKeyed
  BY DEF CommitLots, LotsInv, ClosesInv
<1>2. AllKeyed'
  BY <1>1, KeyedReturn DEF Consuming
<1> QED
  BY <1>1, <1>2, CommitBooks DEF ClosesInv, Bought, Closers, Amounts

LEMMA DustCloses ==
  ASSUME LotsInv, ClosesInv, NEW w \in Workers, DustRead(w) \/ DustClear(w) PROVE ClosesInv'
<1>1. /\ UNCHANGED <<sold, bought, lots, lastKey, expired, used, summary>> /\ acct' \in Nat
      /\ WorkShape /\ AllKeyed
  BY DEF DustRead, DustClear, LotsInv, ClosesInv, Amounts
<1>2. CASE DustRead(w)
  <2> DEFINE dust == {b \in lots : rem[b] \in 1 .. Dust}
             r == [Working("dust", NoKey) EXCEPT !.at = "dust", !.todo = dust]
  <2>1. wk' = [wk EXCEPT ![w] = r]
    BY <1>2 DEF DustRead
  <2>2. r.at = "dust"
    BY DEF Working
  <2> HIDE DEF r
  <2>3. KeyedWork(r)
    BY <2>2 DEF KeyedWork, OfKey, Phase, Consuming
  <2> QED
    BY <1>1, <2>1, <2>3, KeyedMoves, ClosesStay
<1>3. CASE DustClear(w)
  <2>1. Go(w, "done") /\ wk[w] # Idle
    BY <1>3, IdleAt DEF DustClear
  <2>2. AllKeyed'
    BY <1>1, <2>1, KeyedGo DEF OfKey, Consuming
  <2> QED
    BY <1>1, <2>2, ClosesStay
<1> QED
  BY <1>2, <1>3

LEMMA BuyCloses ==
  ASSUME ClosesInv, NEW b \in Buys, BuyFilled(b) \/ RecordCopyBuyLot(b) PROVE ClosesInv'
<1>1. UNCHANGED <<sold, lastKey, expired, used, summary, wk>>
  BY DEF BuyFilled, RecordCopyBuyLot
<1>2. Bought'
  BY DEF BuyFilled, RecordCopyBuyLot, Recorded, ClosesInv, Bought
<1>3. acct' \in Nat
  BY LotsAssumption DEF BuyFilled, RecordCopyBuyLot, ClosesInv, Amounts
<1> QED
  BY <1>1, <1>2, <1>3 DEF ClosesInv, AllKeyed, Sold, Closers, Amounts

LEMMA ClosesInit == LotsInit => ClosesInv
<1> SUFFICES ASSUME LotsInit PROVE ClosesInv
  OBVIOUS
<1>1. AllKeyed
  BY KeyedIdle DEF LotsInit, AllKeyed
<1>2. Sold /\ Bought /\ Closers /\ Amounts
  BY DEF LotsInit, Sold, Bought, Closers, Amounts
<1> QED
  BY <1>1, <1>2 DEF ClosesInv

LEMMA ClosesNext == LotsInv /\ ClosesInv /\ [LotsNext]_lotVars => ClosesInv'
<1> SUFFICES ASSUME LotsInv, ClosesInv, [LotsNext]_lotVars PROVE ClosesInv'
  OBVIOUS
<1>1. ASSUME NEW w \in Workers, SellStep(w) PROVE ClosesInv'
  BY <1>1, SellStartCloses, SellStepCloses DEF SellStep
<1>2. ASSUME NEW w \in Workers, PageStep(w) PROVE ClosesInv'
  BY <1>2, PageLotsCloses, PageRowCloses, PageEndCloses DEF PageStep
<1>3. CASE UNCHANGED lotVars \/ DayBegins
  BY <1>3 DEF lotVars, DayBegins, ClosesInv, AllKeyed, Sold, Bought, Closers, Amounts
<1> QED
  BY <1>1, <1>2, <1>3, BuyCloses, ReadLotsCloses, ReadTotalCloses, CommitCloses, DustCloses, SettlementCloses DEF LotsNext

LEMMA ClosesInvariant == LotsSpec => [](LotsInv /\ bought \subseteq Buys /\ ClosesInv)
BY ClosesInit, ClosesNext, LotsInvariant, PTL DEF LotsSpec

\* Every lot, key and amount keeps its type: the account never sells shares it does not hold, and a
\* lot is last closed under the key of a row or of an execution.
THEOREM LotsTyped == LotsSpec => []LotsTypeOK
<1>1. LotsInv /\ ClosesInv => LotsTypeOK
  BY DEF LotsInv, TotalsInv, LotSizes, ClosesInv, Bought, Closers, Amounts, LotsTypeOK
<1> QED
  BY <1>1, ClosesInvariant, PTL

\* A commit books its profit in the closes and in the total it has read alike, and consumers of one day
\* read the total only after the other's commit: the total departs from the closes only when a page
\* writes a sum made old by a commit, or a consumer writes over a page or a consumer of another day.
THEOREM SummaryDrifts == LotsSpec => SummaryDriftNeedsOverlap
<1> DEFINE PageOvertaken(w) == /\ wk[w].at = "sum" /\ wk'[w] = Idle
                               /\ summary' = Realized' \/ wk[w].sum # Realized
           CommitOvertaken(w) == /\ wk[w].at = "commit" /\ wk'[w] # wk[w]
                                 /\ wk[w].total # summary /\ wrote # wk[w].day
<1>1. ASSUME LotsInv, ClosesInv, [LotsNext]_lotVars, summary' - Realized' # summary - Realized
      PROVE  \E w \in Workers : PageOvertaken(w) \/ CommitOvertaken(w)
  <2>1. sold' = sold => Realized' = Realized
    BY DEF Realized
  <2>2. ASSUME NEW w \in Workers, PageWriteSum(w) PROVE PageOvertaken(w)
    <3>1. wk[w].at = "sum" /\ summary' = wk[w].sum /\ sold' = sold /\ Go(w, "done") /\ wk[w] # Idle
      BY <2>2, IdleAt DEF PageWriteSum
    <3>2. wk'[w] = Idle
      BY <1>1, <3>1, GoMoves DEF LotsInv
    <3> QED
      BY <2>1, <3>1, <3>2
  <2>3. ~UNCHANGED <<sold, summary>>
    BY <1>1, <2>1
  <2>4. ASSUME NEW w \in Workers, CommitLots(w) PROVE CommitOvertaken(w)
    <3>1. wk[w].at = "commit" /\ wk[w] # Idle /\ Go(w, wk[w].next) /\ wk[w].next \in Nexts
      BY <1>1, <2>4, IdleAt DEF CommitLots, LotsInv, WorkShape
    <3>2. wk'[w] # wk[w]
      BY <1>1, <3>1, IdleAt, GoMoves DEF LotsInv, Nexts
    <3>3. wk[w].total # summary
      BY <1>1, <2>4, CommitBooks
    <3>4. wrote # wk[w].day
      BY <1>1, <3>1, <3>3 DEF LotsInv, TotalsInv
    <3> QED
      BY <3>1, <3>2, <3>3, <3>4
  <2>5. ASSUME NEW w \in Workers, SellStep(w) PROVE FALSE
    BY <2>3, <2>5 DEF SellStep, SellStart, SellRejected, SellFilled, SellResidual, SellJudge, SellRest
  <2>6. ASSUME NEW w \in Workers, PageStep(w), ~PageWriteSum(w) PROVE FALSE
    BY <2>3, <2>6 DEF PageStep, PageStart, PageReadLots, PageCloseLot, PageReadRows, PageRow, PageMarkRow, PageSum
  <2>7. ASSUME NEW w \in Workers,
               \/ ReadLots(w) \/ ReadTotal(w) \/ ConsumeThrows(w) \/ Crash(w)
               \/ ManualClose(w) \/ ManualRest(w) \/ Redeem(w) \/ Expire(w) \/ DustRead(w) \/ DustClear(w)
        PROVE  FALSE
    BY <2>3, <2>7 DEF ReadLots, ReadTotal, ConsumeThrows, Crash, ManualClose, ManualRest, Redeem, Expire, DustRead,
                      DustClear
  <2>8. ASSUME NEW c \in Buys, BuyFilled(c) \/ RecordCopyBuyLot(c) PROVE FALSE
    BY <2>3, <2>8 DEF BuyFilled, RecordCopyBuyLot
  <2>9. ~UNCHANGED lotVars /\ ~DayBegins
    BY <2>3 DEF lotVars, DayBegins
  <2>10. \E w \in Workers : CommitLots(w) \/ PageWriteSum(w)
    <3> HIDE DEF PageOvertaken, CommitOvertaken
    <3> QED
      BY <1>1, <2>5, <2>6, <2>7, <2>8, <2>9 DEF LotsNext
  <2> HIDE DEF PageOvertaken, CommitOvertaken
  <2> QED
    BY <2>2, <2>4, <2>10
<1>2. LotsInv /\ ClosesInv /\ [LotsNext]_lotVars =>
        [summary' - Realized' # summary - Realized =>
          \E w \in Workers :
             \/ /\ wk[w].at = "sum" /\ wk'[w] = Idle
                /\ summary' = Realized' \/ wk[w].sum # Realized
             \/ /\ wk[w].at = "commit" /\ wk'[w] # wk[w]
                /\ wk[w].total # summary /\ wrote # wk[w].day]_lotVars
  BY <1>1
<1> QED
  BY <1>2, ClosesInvariant, PTL DEF LotsSpec, SummaryDriftNeedsOverlap
=============================================================================

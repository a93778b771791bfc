----------------------------- MODULE MCCopyLots -----------------------------
EXTENDS CopyLots, TLC
MCEntrySize == [b \in Buys |-> IF b = 1 THEN 1 ELSE 3]
MCLotSub == [b \in Buys |-> "s1"]
MCSellSub == [r \in SellRows |-> "s1"]
\* Requests run the same code, and an execution is known by its id alone.
MCSymmetry == Permutations(Workers) \cup Permutations(Execs)
=============================================================================

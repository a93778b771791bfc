--------------------------- MODULE MCCopyDispatch ---------------------------
(* Small instances of CopyDispatch for TLC. *)
EXTENDS CopyDispatch

CONSTANTS t1, s1, s2, u1, a1, w1, w2

OneUser == [s \in Subs |-> u1]
AllBuy == [t \in Trades |-> "BUY"]
AllSell == [t \in Trades |-> "SELL"]
=============================================================================

---------------------------- MODULE MCShopStock ----------------------------
EXTENDS ShopStock, TLC

CONSTANTS o1, o2, o3, v1, v2, v3, ref1, ref2

\* All the cancellations and two reviews are of o1.
MCTarget == [c \in Reviews \cup Admins |-> IF c = v3 THEN o2 ELSE o1]

\* The retry of a review names the same payment, or (a hand-made call) another.
MCSameKey == [v \in Reviews |-> ref1]
MCOtherKey == [v \in Reviews |-> IF v = v2 THEN ref2 ELSE ref1]

\* o1 needs two batches; not all the orders can be served.
MCInitial == <<1, 2>>
MCNeed == [o \in Orders |-> IF o = o1 THEN 2 ELSE IF o = o2 THEN 1 ELSE 0]
MCShortNeed == [o \in Orders |-> IF o = o3 THEN 1 ELSE 2]
=============================================================================

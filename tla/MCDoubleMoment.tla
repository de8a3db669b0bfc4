--------------------------- MODULE MCDoubleMoment ---------------------------
(* An instance of DoubleMoment for TLC. *)
EXTENDS DoubleMoment

CONSTANTS c1, c2, j1, j2, j3

(* c1 can pay for any job, c2 for the first only *)
MCRedeems == {<<c1, j1>>, <<c1, j2>>, <<c1, j3>>, <<c2, j1>>}

(* the redeem route is called for a job nobody bills *)
MCDirect == {<<c1, j3>>}

MCDiscounts == {[job |-> j1, id |-> 1, kind |-> "coupon"], [job |-> j1, id |-> 2, kind |-> "manual"],
                [job |-> j1, id |-> 3, kind |-> "plain"]}

(* the last is longer than the limit *)
MCExtends == {[claim |-> c1, from |-> 3, to |-> 4], [claim |-> c1, from |-> 3, to |-> 5],
              [claim |-> c1, from |-> 3, to |-> 6]}
=============================================================================

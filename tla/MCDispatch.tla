----------------------------- MODULE MCDispatch -----------------------------
(* Small instances of Dispatch: two jobs at one time, or one job and two   *)
(* therapists.                                                             *)
EXTENDS Dispatch

CONSTANTS j1, j2, t1, t2, k1, k2

Request(op, j, t, k) == [op |-> op, job |-> j, who |-> t, key |-> k]

Both == {<<j1, j2>>, <<j2, j1>>}
Everyone == [j \in Jobs |-> Therapists]
None == [j \in {} |-> t1]
FirstTherapist == [j \in Legacy |-> t1]

(* one therapist after two jobs *)
TwoJobs ==
    {Request("accept", j, t1, k1) : j \in {j1, j2}}
        \union {Request(op, j1, t1, k1) : op \in {"start", "complete"}}
        \union {Request("match", j, Nobody, k1) : j \in {j1, j2}}
        \union {Request("cancel", j1, Nobody, k1)}

(* two therapists after the first job; the first has a job from before *)
Race ==
    {Request("accept", j1, t, k1) : t \in {t1, t2}}
        \union {Request(op, j1, t1, k1) : op \in {"start", "complete"}}
        \union {Request("match", j1, Nobody, k1), Request("decline", j1, t2, k1),
                Request("cancel", j1, Nobody, k1), Request("start", j2, t1, k1)}

(* the first job accepted from a second device *)
SecondKey == TwoJobs \union {Request("accept", j1, t1, k2)}
=============================================================================

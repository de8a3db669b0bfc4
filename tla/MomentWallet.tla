---------------------------- MODULE MomentWallet ----------------------------
(***************************************************************************)
(* What Double Moment promises a client: a claim pays for two jobs and no  *)
(* more, a job is paid for by one claim and once, and a job that had       *)
(* another discount is never paid for with credits, nor the other way      *)
(* round.  What a job was given is never taken back.                       *)
(***************************************************************************)
EXTENDS Naturals, FiniteSets

CONSTANTS Claims, Jobs, Moments

VARIABLES
    given,          \* the jobs each claim was used for
    settled,        \* those whose debit is complete
    discounted      \* the jobs with another discount

vars == <<given, settled, discounted>>

Init ==
    /\ given = [c \in Claims |-> {}]
    /\ settled = {}
    /\ discounted = {}

Paid(j) == \E c \in Claims : j \in given[c]

Give(c, j) ==
    /\ ~Paid(j)
    /\ j \notin discounted
    /\ Cardinality(given[c]) < Moments
    /\ given' = [given EXCEPT ![c] = @ \union {j}]
    /\ UNCHANGED <<settled, discounted>>

Settle(j) ==
    /\ Paid(j)
    /\ settled' = settled \union {j}
    /\ UNCHANGED <<given, discounted>>

Discount(j) ==
    /\ ~Paid(j)
    /\ discounted' \in {discounted \union {j}, discounted \ {j}}
    /\ UNCHANGED <<given, settled>>

Next == \E j \in Jobs : Settle(j) \/ Discount(j) \/ \E c \in Claims : Give(c, j)

Spec == Init /\ [][Next]_vars
=============================================================================

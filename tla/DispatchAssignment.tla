------------------------- MODULE DispatchAssignment -------------------------
(***************************************************************************)
(* What dispatching promises, without the two kinds of coordinator, the    *)
(* requests or Airtable: a job is offered, the first therapist to take it  *)
(* keeps it until it is over, and nobody holds two jobs at one time.       *)
(***************************************************************************)
CONSTANTS Jobs, Therapists, Overlaps, Nobody

VARIABLES state, winner

vars == <<state, winner>>

Live == {"ACCEPTED", "IN_PROGRESS"}

Free(t, j) ==
    \A k \in Jobs : winner[k] = t /\ state[k] \in Live => <<j, k>> \notin Overlaps

Offer(j) ==
    /\ state[j] = "NONE"
    /\ state' = [state EXCEPT ![j] = "OFFERED"]
    /\ UNCHANGED winner

Take(j, t) ==
    /\ state[j] = "OFFERED"
    /\ Free(t, j)
    /\ state' = [state EXCEPT ![j] = "ACCEPTED"]
    /\ winner' = [winner EXCEPT ![j] = t]

Begin(j) ==
    /\ state[j] = "ACCEPTED"
    /\ state' = [state EXCEPT ![j] = "IN_PROGRESS"]
    /\ UNCHANGED winner

Finish(j) ==
    /\ state[j] = "IN_PROGRESS"
    /\ state' = [state EXCEPT ![j] = "COMPLETED"]
    /\ UNCHANGED winner

Withdraw(j) ==
    /\ state[j] \in {"OFFERED"} \union Live
    /\ state' = [state EXCEPT ![j] = "CANCELLED"]
    /\ UNCHANGED winner

Next == \E j \in Jobs :
    Offer(j) \/ (\E t \in Therapists : Take(j, t)) \/ Begin(j) \/ Finish(j) \/ Withdraw(j)

Init ==
    /\ state \in [Jobs -> {"NONE", "ACCEPTED"}]
    /\ winner \in [Jobs -> Therapists \union {Nobody}]
    /\ \A j \in Jobs : state[j] = "NONE" <=> winner[j] = Nobody

Spec == Init /\ [][Next]_vars
=============================================================================

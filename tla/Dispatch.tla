------------------------------ MODULE Dispatch ------------------------------
(***************************************************************************)
(* Dispatching a massage job (mms-worker/src/my-mms-dispatch-runtime.mjs). *)
(* Every job has a Durable Object that holds its state, its winner and the *)
(* answers already given; every therapist has another that holds the       *)
(* windows of the jobs they took; Airtable holds a projection of both that *)
(* the handlers read first.  A handler crosses the three by remote calls,  *)
(* other handlers run between any two of them, and a handler may stop      *)
(* between any two (an eviction, or the answer of a call lost).            *)
(***************************************************************************)
EXTENDS Naturals, FiniteSets

CONSTANTS
    Jobs, Therapists, Nobody,
    Candidates,     \* the therapists matchTherapists finds for each job
    Overlaps,       \* pairs of jobs whose service windows overlap
    Legacy,         \* jobs accepted before the schedule coordinators existed
    LegacyOwner,    \* who accepted each of them
    Requests,       \* the requests that may be sent: [op, job, who, key]
    MaxInFlight,    \* bound: requests in progress at one time
    MaxFaults       \* bound: handlers that stop in the middle

Ops == {"match", "accept", "decline", "start", "complete", "cancel"}

ASSUME OverlapsAssumption ==
    /\ Overlaps \subseteq Jobs \X Jobs
    /\ \A j, k \in Jobs : <<j, k>> \in Overlaps => <<k, j>> \in Overlaps

ASSUME PeopleAssumption ==
    /\ Nobody \notin Therapists
    /\ Candidates \in [Jobs -> (SUBSET Therapists) \ {{}}]
    /\ \A r \in Requests :
        /\ r.op \in Ops
        /\ r.job \in Jobs
        /\ r.who = (IF r.op \in {"match", "cancel"} THEN Nobody ELSE r.who)
        /\ r.op \notin {"match", "cancel"} => r.who \in Therapists

ASSUME LegacyAssumption ==
    /\ Legacy \subseteq Jobs
    /\ LegacyOwner \in [Legacy -> Therapists]
    /\ \A j, k \in Legacy : j # k /\ LegacyOwner[j] = LegacyOwner[k] => <<j, k>> \notin Overlaps

ASSUME BoundsAssumption == MaxInFlight \in Nat \ {0} /\ MaxFaults \in Nat

VARIABLES
    job,        \* the dispatch coordinator of each job: its state and winner
    offer,      \* its offer to each therapist
    answered,   \* the answers it remembers, by request key
    expired,    \* whether the time of the job's offers is over
    window,     \* each therapist's schedule coordinator: the row of each job
    rows,       \* how many Airtable rows the job has
    row,        \* what they say: the status and the accepted therapist
    offerRows,  \* how many Airtable rows the offer to each therapist has
    call,       \* the handler of each request
    faults      \* how many handlers stopped in the middle

authority == <<job, offer, answered>>
airtable == <<rows, row, offerRows>>
vars == <<job, offer, answered, expired, window, rows, row, offerRows, call, faults>>

-----------------------------------------------------------------------------
(* The rows and records.  A window is HELD for its service time, SEEDED    *)
(* (the code's ACTIVE with the service time, of a job found in Airtable),  *)
(* ACTIVE for all time while in service, or RELEASED for good.             *)

JobStates == {"NONE", "OFFERED", "ACCEPTED", "IN_PROGRESS", "COMPLETED", "CANCELLED"}
OfferStates == {"none", "OFFERED", "ACCEPTED", "TAKEN", "DECLINED", "EXPIRED", "CANCELLED"}
WindowStates == {"none", "HELD", "SEEDED", "ACTIVE", "RELEASED"}
RowStates == {"Offered", "Accepted", "In Progress", "Completed", "Cancelled"}
Answers == {"CHECKING", "TAKEN", "CANCELLED", "ACCEPTED", "DECLINED", "EXPIRED",
            "IN_PROGRESS", "COMPLETED"}
Results == [state : Answers, winner : Therapists \union {Nobody}]

Idle == [pc |-> "idle", active |-> [j \in Jobs |-> "none"], done |-> {}, late |-> FALSE,
         result |-> [state |-> "CHECKING", winner |-> Nobody]]

Live == {"ACCEPTED", "IN_PROGRESS"}
Blocking == {"HELD", "SEEDED", "ACTIVE"}

InFlight == {r \in Requests : call[r].pc # "idle"}

Init ==
    /\ job = [j \in Jobs |-> IF j \in Legacy
                THEN [state |-> "ACCEPTED", winner |-> LegacyOwner[j]]
                ELSE [state |-> "NONE", winner |-> Nobody]]
    /\ offer = [j \in Jobs |-> [t \in Therapists |->
                IF j \notin Legacy THEN "none"
                ELSE IF LegacyOwner[j] = t THEN "ACCEPTED" ELSE "TAKEN"]]
    /\ answered = [j \in Jobs |-> {}]
    /\ expired = [j \in Jobs |-> FALSE]
    /\ window = [t \in Therapists |-> [j \in Jobs |-> "none"]]
    /\ rows = [j \in Jobs |-> IF j \in Legacy THEN 1 ELSE 0]
    /\ row = [j \in Jobs |-> IF j \in Legacy
                THEN [status |-> "Accepted", owner |-> LegacyOwner[j]]
                ELSE [status |-> "Offered", owner |-> Nobody]]
    /\ offerRows = [j \in Jobs |-> [t \in Therapists |-> IF j \in Legacy THEN 1 ELSE 0]]
    /\ call = [r \in Requests |-> Idle]
    /\ faults = 0

-----------------------------------------------------------------------------
(* What a handler reads before it acts.                                    *)

(* readSharedMmsJob: the one row of the job, which must name the winner    *)
Readable(j) ==
    /\ rows[j] = 1
    /\ job[j].state # "NONE"
    /\ job[j].winner # Nobody => row[j].owner = job[j].winner

(* findOwnedJob, and the answer JOB_CANCELLED *)
Owned(j, t) ==
    /\ Readable(j)
    /\ job[j].winner = t
    /\ job[j].state # "CANCELLED"

(* mutant: only the jobs in service are listed *)
ListedInService(t, j) == [k \in Jobs |->
    IF k # j /\ rows[k] # 0 /\ row[k].owner = t /\ row[k].status = "In Progress" THEN "ACTIVE"
    ELSE "none"]

(* listActiveTherapistSchedules: what Airtable says the therapist holds *)
Listed(t, j) == [k \in Jobs |->
    IF k = j \/ rows[k] = 0 \/ row[k].owner # t THEN "none"
    ELSE IF row[k].status = "Accepted" THEN "SEEDED"
    ELSE IF row[k].status = "In Progress" THEN "ACTIVE"
    ELSE "none"]

At(r, op, pc) == r.op \in op /\ call[r].pc = pc
Goes(r, pc) == call' = [call EXCEPT ![r].pc = pc]
Ends(r) == call' = [call EXCEPT ![r] = Idle]
Enters(r, pc) ==
    /\ call[r].pc = "idle"
    /\ Cardinality(InFlight) < MaxInFlight
    /\ Goes(r, pc)

-----------------------------------------------------------------------------
(* dispatchPrebooking: the job's row, its offers' rows one by one, then    *)
(* the coordinator.  A job whose row exists is answered as a duplicate.    *)

MatchLook(r) ==
    /\ r.op = "match"
    /\ rows[r.job] = 0
    /\ Enters(r, "create")
    /\ UNCHANGED <<authority, expired, window, airtable, faults>>

CreateJob(r) ==
    /\ At(r, {"match"}, "create")
    /\ rows' = [rows EXCEPT ![r.job] = @ + 1]
    /\ Goes(r, "offers")
    /\ UNCHANGED <<authority, expired, window, row, offerRows, faults>>

CreateOffer(r) ==
    /\ At(r, {"match"}, "offers")
    /\ \E t \in Candidates[r.job] \ call[r].done :
        /\ offerRows' = [offerRows EXCEPT ![r.job][t] = @ + 1]
        /\ call' = [call EXCEPT ![r].done = @ \union {t},
                                ![r].pc = IF call[r].done \union {t} = Candidates[r.job]
                                          THEN "initialize" ELSE "offers"]
    /\ UNCHANGED <<authority, expired, window, rows, row, faults>>

Initialize(r) ==
    LET j == r.job IN
    /\ At(r, {"match"}, "initialize")
    /\ job' = [job EXCEPT ![j].state = IF @ = "NONE" THEN "OFFERED" ELSE @]
    /\ offer' = IF job[j].state \in {"NONE", "OFFERED"}
                THEN [offer EXCEPT ![j] = [t \in Therapists |->
                            IF @[t] = "none" /\ t \in Candidates[j] THEN "OFFERED" ELSE @[t]]]
                ELSE offer
    /\ Ends(r)
    /\ UNCHANGED <<answered, expired, window, airtable, faults>>

-----------------------------------------------------------------------------
(* The therapist's schedule coordinator.                                   *)

(* mutant: a window that is only held blocks nothing *)
ConflictInService(held, j) == \E k \in Jobs \ {j} : held[k] = "ACTIVE"

(* the rows of a therapist once the jobs Airtable listed are seeded *)
Seeded(t, active) ==
    [k \in Jobs |-> IF window[t][k] = "none" THEN active[k] ELSE window[t][k]]

Conflict(held, j) ==
    \E k \in Jobs \ {j} : held[k] = "ACTIVE" \/ (held[k] \in Blocking /\ <<j, k>> \in Overlaps)

(* reserve: an existing row, even a released one, is answered RESERVED *)
Reserved(held, j) ==
    IF held[j] = "none" /\ ~Conflict(held, j) THEN [held EXCEPT ![j] = "HELD"] ELSE held

Released(t, j) ==
    [window EXCEPT ![t][j] = IF @ = "none" THEN @ ELSE "RELEASED"]

(* restoreScheduledWindow *)
Restored(t, j) ==
    [window EXCEPT ![t][j] = IF @ \in {"ACTIVE", "SEEDED"} THEN "HELD" ELSE @]

-----------------------------------------------------------------------------
(* Accepting and starting begin alike: read, list, reserve.                *)

Open(r) ==
    /\ \/ /\ r.op = "accept"
          /\ offerRows[r.job][r.who] = 1
          /\ Readable(r.job)
          /\ job[r.job].state # "CANCELLED"
       \/ r.op = "start" /\ Owned(r.job, r.who)
    /\ Enters(r, "list")
    /\ UNCHANGED <<authority, expired, window, airtable, faults>>

List(r) ==
    /\ At(r, {"accept", "start"}, "list")
    /\ call' = [call EXCEPT
         ![r].pc = "reserve",
         ![r].late = expired[r.job],
         ![r].active = Listed(r.who, r.job)]
    /\ UNCHANGED <<authority, expired, window, airtable, faults>>

Reserve(r) ==
    LET held == Seeded(r.who, call[r].active) IN
    /\ At(r, {"accept", "start"}, "reserve")
    /\ window' = [window EXCEPT ![r.who] = Reserved(held, r.job)]
    /\ IF Reserved(held, r.job)[r.job] = "none" THEN Ends(r)
       ELSE Goes(r, IF r.op = "accept" THEN "claim" ELSE "mark")
    /\ UNCHANGED <<authority, expired, airtable, faults>>

(* mutant: the window is not marked *)
MarkNothing(r) ==
    /\ At(r, {"start"}, "mark")
    /\ Goes(r, "transition")
    /\ UNCHANGED <<authority, expired, window, airtable, faults>>

(* markInProgress *)
Mark(r) ==
    /\ At(r, {"start"}, "mark")
    /\ IF window[r.who][r.job] \in Blocking
       THEN window' = [window EXCEPT ![r.who][r.job] = "ACTIVE"] /\ Goes(r, "transition")
       ELSE Ends(r) /\ UNCHANGED window
    /\ UNCHANGED <<authority, expired, airtable, faults>>

-----------------------------------------------------------------------------
(* The job's coordinator.  It answers a key it has seen as it did before.  *)

Replay(r) == {a \in answered[r.job] : a.op = r.op /\ a.who = r.who /\ a.key = r.key}

Remember(r, result) ==
    answered' = IF Replay(r) # {} THEN answered
                ELSE [answered EXCEPT ![r.job] = @ \union
                        {[op |-> r.op, who |-> r.who, key |-> r.key, result |-> result]}]

(* what accept answers a key it has not seen *)
AcceptState(j, t, late) ==
    LET o == offer[j][t] IN
    IF job[j].state = "NONE" THEN "CHECKING"
    ELSE IF o = "none" THEN "TAKEN"
    ELSE IF job[j].state = "CANCELLED" THEN "CANCELLED"
    ELSE IF job[j].winner # Nobody THEN (IF job[j].winner = t THEN job[j].state ELSE "TAKEN")
    ELSE IF o = "DECLINED" THEN "DECLINED"
    ELSE IF o = "EXPIRED" \/ late THEN "EXPIRED"
    ELSE IF o # "OFFERED" THEN o
    ELSE "ACCEPTED"

Wins(j, t, late) ==
    /\ job[j].winner = Nobody
    /\ offer[j][t] = "OFFERED"
    /\ AcceptState(j, t, late) = "ACCEPTED"

(* the offers after an accept: the others are taken, or this one has expired *)
OffersAfter(j, t, late) ==
    IF Wins(j, t, late)
    THEN [u \in Therapists |-> IF offer[j][u] # "OFFERED" THEN offer[j][u]
                               ELSE IF u = t THEN "ACCEPTED" ELSE "TAKEN"]
    ELSE IF job[j].winner = Nobody /\ AcceptState(j, t, late) = "EXPIRED"
    THEN [offer[j] EXCEPT ![t] = "EXPIRED"]
    ELSE offer[j]

(* mutant: every answer of an accept is projected *)
AfterProjecting(r, state) == IF state = "CHECKING" THEN "idle" ELSE "project"

(* mutant: the loser of an accept keeps its window *)
AfterKeeping(r, state) ==
    IF r.op = "accept" THEN (IF state = "ACCEPTED" THEN "project" ELSE "idle")
    ELSE IF state \in {"IN_PROGRESS", "COMPLETED"} THEN "project" ELSE "settle"

(* where a handler goes with the coordinator's answer *)
After(r, state) ==
    CASE r.op = "accept" -> IF state = "ACCEPTED" THEN "project"
                            ELSE IF state = "CHECKING" THEN "idle" ELSE "settle"
      [] r.op = "start" -> IF state = "IN_PROGRESS" THEN "project" ELSE "settle"
      [] r.op = "complete" -> IF state = "COMPLETED" THEN "settle" ELSE "project"

Takes(r, result) ==
    call' = [call EXCEPT ![r] = IF After(r, result.state) = "idle" THEN Idle
                                ELSE [@ EXCEPT !.pc = After(r, result.state), !.result = result]]

Accept(r) ==
    LET j == r.job
        t == r.who
        s == AcceptState(j, t, call[r].late)
        fresh == [state |-> s, winner |-> IF Wins(j, t, call[r].late) THEN t ELSE job[j].winner]
    IN
    /\ At(r, {"accept"}, "claim")
    /\ Remember(r, fresh)
    /\ IF Replay(r) # {}
       THEN /\ \E a \in Replay(r) : Takes(r, a.result)
            /\ UNCHANGED <<job, offer>>
       ELSE /\ Takes(r, fresh)
            /\ job' = IF Wins(j, t, call[r].late)
                      THEN [job EXCEPT ![j] = [state |-> "ACCEPTED", winner |-> t]] ELSE job
            /\ offer' = [offer EXCEPT ![j] = OffersAfter(j, t, call[r].late)]
    /\ UNCHANGED <<expired, window, airtable, faults>>

(* complete reads the job, then asks the coordinator *)
CompleteOpen(r) ==
    /\ r.op = "complete"
    /\ Owned(r.job, r.who)
    /\ Enters(r, "transition")
    /\ UNCHANGED <<authority, expired, window, airtable, faults>>

From(op) == IF op = "start" THEN "ACCEPTED" ELSE "IN_PROGRESS"
To(op) == IF op = "start" THEN "IN_PROGRESS" ELSE "COMPLETED"

Transition(r) ==
    LET j == r.job
        moves == job[j].state = From(r.op)
        s == IF job[j].winner # r.who THEN "TAKEN" ELSE IF moves THEN To(r.op) ELSE job[j].state
        fresh == [state |-> s, winner |-> Nobody]
    IN
    /\ At(r, {"start", "complete"}, "transition")
    /\ Remember(r, fresh)
    /\ IF Replay(r) # {}
       THEN /\ \E a \in Replay(r) : Takes(r, a.result)
            /\ UNCHANGED job
       ELSE /\ Takes(r, fresh)
            /\ job' = IF job[j].winner = r.who /\ moves
                      THEN [job EXCEPT ![j].state = To(r.op)] ELSE job
    /\ UNCHANGED <<offer, expired, window, airtable, faults>>

Decline(r) ==
    LET j == r.job
        t == r.who
        o == offer[j][t]
        s == IF job[j].state = "NONE" THEN "CHECKING"
             ELSE IF o = "none" THEN "TAKEN"
             ELSE IF job[j].winner # Nobody THEN (IF job[j].winner = t THEN job[j].state ELSE "TAKEN")
             ELSE IF expired[j] THEN "EXPIRED"
             ELSE IF o = "OFFERED" THEN "DECLINED" ELSE o
        answers == job[j].winner = Nobody /\ s \in {"EXPIRED", "DECLINED"}
    IN
    /\ r.op = "decline"
    /\ offerRows[j][t] = 1
    /\ Replay(r) = {}
    /\ Remember(r, [state |-> s, winner |-> Nobody])
    /\ offer' = IF answers THEN [offer EXCEPT ![j][t] = s] ELSE offer
    /\ UNCHANGED <<job, expired, window, airtable, call, faults>>

(* cancel is asked of the coordinator at once; nothing is read before *)
Cancel(r) ==
    LET j == r.job
        fresh == [state |-> IF job[j].state = "NONE" THEN "CHECKING"
                            ELSE IF job[j].state = "COMPLETED" THEN "COMPLETED" ELSE "CANCELLED",
                  winner |-> job[j].winner]
        withdraws == job[j].state \in {"OFFERED"} \union Live
        result == IF Replay(r) = {} THEN fresh ELSE (CHOOSE a \in Replay(r) : TRUE).result
    IN
    /\ r.op = "cancel"
    /\ call[r].pc = "idle"
    /\ Cardinality(InFlight) < MaxInFlight
    /\ Remember(r, fresh)
    /\ call' = [call EXCEPT ![r].result = result,
                            ![r].pc = IF result.state = "CANCELLED" /\ result.winner # Nobody
                                      THEN "settle" ELSE "project"]
    /\ IF Replay(r) = {} /\ withdraws
       THEN /\ job' = [job EXCEPT ![j].state = "CANCELLED"]
            /\ offer' = [offer EXCEPT ![j] = [t \in Therapists |->
                            IF @[t] \in {"OFFERED", "ACCEPTED"} THEN "CANCELLED" ELSE @[t]]]
       ELSE UNCHANGED <<job, offer>>
    /\ UNCHANGED <<expired, window, airtable, faults>>

-----------------------------------------------------------------------------
(* After the coordinator has answered: the schedule, then Airtable.        *)

(* mutant: the coordinator's names of the states *)
RowStatusRaw == [ACCEPTED |-> "ACCEPTED", IN_PROGRESS |-> "IN_PROGRESS",
                 COMPLETED |-> "COMPLETED", CANCELLED |-> "CANCELLED"]

Settle(r) ==
    LET t == IF r.op = "cancel" THEN call[r].result.winner ELSE r.who
        over == r.op # "start" \/ call[r].result.state \in {"COMPLETED", "CANCELLED"}
    IN
    /\ call[r].pc = "settle"
    /\ window' = IF over THEN Released(t, r.job) ELSE Restored(t, r.job)
    /\ IF r.op = "accept" THEN Ends(r) ELSE Goes(r, "project")
    /\ UNCHANGED <<authority, expired, airtable, faults>>

RowStatus == [ACCEPTED |-> "Accepted", IN_PROGRESS |-> "In Progress",
              COMPLETED |-> "Completed", CANCELLED |-> "Cancelled"]

(* projectAcceptResult, projectJobState: a job with two rows is an error *)
Project(r) ==
    LET j == r.job
        s == call[r].result.state
    IN
    /\ call[r].pc = "project"
    /\ row' = IF rows[j] # 1 \/ s \notin DOMAIN RowStatus THEN row
              ELSE IF r.op = "accept" THEN [row EXCEPT ![j] = [status |-> "Accepted", owner |-> r.who]]
              ELSE [row EXCEPT ![j].status = RowStatus[s]]
    /\ Ends(r)
    /\ UNCHANGED <<authority, expired, window, rows, offerRows, faults>>

-----------------------------------------------------------------------------
(* Time passes, and handlers stop.                                         *)

Expire(j) ==
    /\ ~expired[j]
    /\ job[j].state = "OFFERED"
    /\ expired' = [expired EXCEPT ![j] = TRUE]
    /\ UNCHANGED <<authority, window, airtable, call, faults>>

Stop(r) ==
    /\ call[r].pc # "idle"
    /\ faults < MaxFaults
    /\ faults' = faults + 1
    /\ Ends(r)
    /\ UNCHANGED <<authority, expired, window, airtable>>

Begins(r) == MatchLook(r) \/ Open(r) \/ CompleteOpen(r) \/ Cancel(r) \/ Decline(r)

Steps(r) ==
    \/ CreateJob(r) \/ CreateOffer(r) \/ Initialize(r)
    \/ List(r) \/ Reserve(r) \/ Mark(r)
    \/ Accept(r) \/ Transition(r)
    \/ Settle(r) \/ Project(r)

Next ==
    \/ \E r \in Requests : Begins(r) \/ Steps(r) \/ Stop(r)
    \/ \E j \in Jobs : Expire(j)

(* A handler that has begun goes on, and so does a client, which sends a   *)
(* request again until it is answered; nobody has to decline or to cancel. *)
Fairness ==
    \A r \in Requests :
        /\ WF_vars(Steps(r))
        /\ r.op \in {"accept", "start", "complete"} => SF_vars(Open(r) \/ CompleteOpen(r))

Spec == Init /\ [][Next]_vars /\ Fairness

-----------------------------------------------------------------------------
(* Properties *)

CallType(r) ==
    /\ call[r].pc \in {"idle", "create", "offers", "initialize", "list", "reserve", "mark",
                       "claim", "transition", "settle", "project"}
    /\ call[r].active \in [Jobs -> {"none", "SEEDED", "ACTIVE"}]
    /\ call[r].done \subseteq Therapists
    /\ call[r].late \in BOOLEAN
    /\ call[r].result \in Results

(* Every variable keeps the shape the code gives it. *)
TypeOK ==
    /\ job \in [Jobs -> [state : JobStates, winner : Therapists \union {Nobody}]]
    /\ offer \in [Jobs -> [Therapists -> OfferStates]]
    /\ \A j \in Jobs : \A a \in answered[j] : a.result \in Results
    /\ expired \in [Jobs -> BOOLEAN]
    /\ window \in [Therapists -> [Jobs -> WindowStates]]
    /\ rows \in [Jobs -> Nat]
    /\ row \in [Jobs -> [status : RowStates, owner : Therapists \union {Nobody}]]
    /\ offerRows \in [Jobs -> [Therapists -> Nat]]
    /\ \A r \in Requests : CallType(r)
    /\ faults \in 0..MaxFaults

Owns(t, j) == job[j].winner = t /\ job[j].state \in Live

(* No therapist is given two jobs whose service windows overlap, whatever  *)
(* handlers run between a reservation, a claim and a release.              *)
NoDoubleBooking ==
    \A t \in Therapists : \A j, k \in Jobs :
        j # k /\ Owns(t, j) /\ Owns(t, k) => <<j, k>> \notin Overlaps

(* While a service is in progress its window blocks every other job.       *)
ServiceBlocks ==
    \A t \in Therapists : \A j \in Jobs :
        job[j].winner = t /\ job[j].state = "IN_PROGRESS" => window[t][j] = "ACTIVE"

(* Whoever has a job still holds its window, and blocks every other job    *)
(* with it while in service: no handler that lost, was late, or was sent   *)
(* again has released it.                                                  *)
OwnerKeepsWindow ==
    /\ \A t \in Therapists : \A j \in Jobs \ Legacy : Owns(t, j) => window[t][j] \in Blocking
    /\ ServiceBlocks

(* Airtable follows the coordinator: it never names a therapist who did    *)
(* not win, nor a state the job has not reached.                           *)
RowFollows ==
    \A j \in Jobs :
        /\ row[j].owner # Nobody => row[j].owner = job[j].winner
        /\ row[j].status = "In Progress" => job[j].state \in {"IN_PROGRESS", "COMPLETED", "CANCELLED"}
        /\ row[j].status = "Completed" => job[j].state = "COMPLETED"
        /\ row[j].status = "Cancelled" => job[j].state = "CANCELLED"

(* As long as no handler stops, a window held for a job that went to       *)
(* another therapist, or is over, is released in the end.                  *)
LosersLetGo ==
    [](faults = 0) =>
    \A t \in Therapists : \A j \in Jobs \ Legacy :
        (window[t][j] \in Blocking /\ (job[j].state \in {"COMPLETED", "CANCELLED"}
                                        \/ job[j].winner \notin {t, Nobody}))
            ~> (window[t][j] = "RELEASED")

(* A job the coordinator gave to a therapist can be worked on in the end:  *)
(* its row names its winner, or it is over.                                *)
WinnerCanWork ==
    \A j \in Jobs : (job[j].state = "ACCEPTED") ~> (row[j].owner = job[j].winner \/ job[j].state = "CANCELLED")

Assignment == INSTANCE DispatchAssignment WITH
    state <- [j \in Jobs |-> job[j].state], winner <- [j \in Jobs |-> job[j].winner]

(* The coordinators, the requests and Airtable together implement the      *)
(* promise: the first to take a job keeps it, and only who is free takes.  *)
KeepsAssignment == Assignment!Spec
=============================================================================

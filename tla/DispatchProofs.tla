--------------------------- MODULE DispatchProofs ---------------------------
(***************************************************************************)
(* Proofs about Dispatch, for any jobs, therapists, overlaps, candidates,  *)
(* jobs from before the schedule coordinators, requests, retries and       *)
(* handlers that stop anywhere.  That an owner keeps its window needs that *)
(* a therapist accepts a job with one request key: with a second key the   *)
(* window of a service in progress is released (run dispatch_second_key).  *)
(* The types, that Airtable follows the coordinators, and that no window   *)
(* is left to nobody, need no such assumption.                             *)
(***************************************************************************)
EXTENDS Dispatch, TLAPS

(* a therapist accepts a job with one key, and one from before already has *)
OneKey ==
    \A r \in Requests : r.op = "accept" =>
        /\ r.job \notin Legacy
        /\ \A s \in Requests :
            s.op = "accept" /\ s.job = r.job /\ s.who = r.who => s.key = r.key

-----------------------------------------------------------------------------
(* The inductive invariant.                                                *)

Places == {"idle", "create", "offers", "initialize", "list", "reserve", "mark",
           "claim", "transition", "settle", "project"}
Calls == [pc : Places,
          active : [Jobs -> {"none", "SEEDED", "ACTIVE"}],
          done : SUBSET Therapists, late : BOOLEAN, result : Results]

Answer(a) ==
    /\ a.result \in Results
    /\ a.op = "accept" => a.who \in Therapists

Shape ==
    /\ job \in [Jobs -> [state : JobStates, winner : Therapists \union {Nobody}]]
    /\ offer \in [Jobs -> [Therapists -> OfferStates]]
    /\ answered = [j \in Jobs |-> answered[j]]
    /\ \A j \in Jobs : \A a \in answered[j] : Answer(a)
    /\ expired \in [Jobs -> BOOLEAN]
    /\ window \in [Therapists -> [Jobs -> WindowStates]]
    /\ rows \in [Jobs -> Nat]
    /\ row \in [Jobs -> [status : RowStates, owner : Therapists \union {Nobody}]]
    /\ offerRows \in [Jobs -> [Therapists -> Nat]]
    /\ call \in [Requests -> Calls]
    /\ faults \in 0..MaxFaults

Over == {"COMPLETED", "CANCELLED"}
Begun == {"IN_PROGRESS"} \union Over

(* a job has a winner exactly while it is, or was, taken *)
JobOK(j) ==
    /\ job[j].winner = Nobody => job[j].state \in {"NONE", "OFFERED", "CANCELLED"}
    /\ job[j].winner # Nobody => job[j].state \in {"ACCEPTED"} \union Begun
    /\ job[j].winner = Nobody => \A t \in Therapists : offer[j][t] # "ACCEPTED"
    /\ job[j].state # "NONE" => \A t \in Candidates[j] : offer[j][t] # "none"
    /\ j \in Legacy => job[j].winner = LegacyOwner[j]

(* a job in state s has not therapist t, whose offer is o, and never will again *)
Gone(s, o, t) ==
    /\ s.state # "NONE"
    /\ \/ s.winner \notin {t, Nobody}
       \/ s.state \in Over
       \/ s.winner = Nobody /\ o # "OFFERED"

Lost(t, j) == Gone(job[j], offer[j][t], t)

(* what an answer of the coordinator says is true, now and later; that who *)
(* is not told ACCEPTED has lost the job is so only while there is one key *)
Sound(op, t, s, o, result) ==
    /\ op # "accept" =>
        /\ result.state = "COMPLETED" => s.state = "COMPLETED"
        /\ result.state = "CANCELLED" => s.state = "CANCELLED"
        /\ result.state = "IN_PROGRESS" => s.state \in Begun
    /\ op = "start" => result.state \in Begun
    /\ op = "accept" /\ result.state = "ACCEPTED" => s.winner = t
    /\ OneKey /\ op = "accept" /\ result.state \notin {"ACCEPTED", "CHECKING"} => Gone(s, o, t)

AnsweredOK ==
    \A j \in Jobs : \A a \in answered[j] :
        a.op # "decline" => Sound(a.op, a.who, job[j], offer[j][a.who], a.result)

(* whoever has a job has an answer to the accept *)
WinnerAnswered ==
    \A r \in Requests : r.op = "accept" /\ job[r.job].winner = r.who => Replay(r) # {}

(* the therapist has, or may still get, the job and holds its time *)
Holds(t, j) ==
    /\ ~Lost(t, j)
    /\ window[t][j] \in Blocking \/ (j \in Legacy /\ LegacyOwner[j] = t)

WindowOK ==
    \A t \in Therapists : \A j \in Jobs :
        /\ window[t][j] = "RELEASED" => Lost(t, j)
        /\ job[j].winner = t /\ j \notin Legacy => window[t][j] # "none"
        /\ job[j].winner = t /\ job[j].state = "IN_PROGRESS" => window[t][j] = "ACTIVE"
        /\ \A k \in Jobs \ {j} : Holds(t, j) /\ Holds(t, k) => <<j, k>> \notin Overlaps

RowOK(j) ==
    /\ row[j].owner # Nobody => row[j].owner = job[j].winner
    /\ row[j].status = "In Progress" => job[j].state \in Begun
    /\ row[j].status = "Completed" => job[j].state = "COMPLETED"
    /\ row[j].status = "Cancelled" => job[j].state = "CANCELLED"
    /\ j \in Legacy => rows[j] # 0 /\ row[j].owner = LegacyOwner[j] /\ row[j].status # "Offered"

(* the jobs a handler listed are the therapist's, and none is missing *)
ListOK(r) ==
    \A k \in Jobs :
        /\ call[r].active[k] # "none" => job[k].winner = r.who
        /\ k \in Legacy \ {r.job} /\ LegacyOwner[k] = r.who /\ window[r.who][k] = "none"
             => Lost(r.who, k) \/ call[r].active[k] # "none"

CallOK(r) ==
    /\ r.op = "start" /\ call[r].pc \in {"list", "reserve", "mark", "transition"}
         => job[r.job].winner = r.who
    /\ call[r].pc = "reserve" => r.op \in {"accept", "start"} /\ ListOK(r)
    /\ r.op = "accept" /\ call[r].pc = "claim" => window[r.who][r.job] # "none"
    /\ r.op = "start" /\ call[r].pc = "transition" => window[r.who][r.job] \in {"ACTIVE", "RELEASED"}
    /\ call[r].pc \in {"settle", "project"} =>
        /\ r.op \notin {"match", "decline"}
        /\ Sound(r.op, r.who, job[r.job], offer[r.job][r.who], call[r].result)
    /\ call[r].pc = "settle" =>
        /\ r.op = "accept" => call[r].result.state \notin {"ACCEPTED", "CHECKING"}
        /\ r.op = "start" => call[r].result.state # "IN_PROGRESS"
        /\ r.op = "complete" => call[r].result.state = "COMPLETED"
        /\ r.op = "cancel" => call[r].result.state = "CANCELLED" /\ call[r].result.winner # Nobody
    /\ call[r].pc = "project" /\ r.op = "accept" => call[r].result.state = "ACCEPTED"

IInv ==
    /\ Shape
    /\ \A j \in Jobs : JobOK(j)
    /\ AnsweredOK
    /\ OneKey => WinnerAnswered /\ WindowOK
    /\ \A j \in Jobs : RowOK(j)
    /\ \A r \in Requests : CallOK(r)

-----------------------------------------------------------------------------
(* What no step undoes: an answer that was true stays true.                *)

AheadJob(s, s2) ==
    /\ s.winner # Nobody => s2.winner = s.winner
    /\ s.state # "NONE" => s2.state # "NONE"
    /\ s.state \in Over => s2.state = s.state
    /\ s.state = "IN_PROGRESS" => s2.state \in Begun

AheadOffer(s, s2, o, o2, t) ==
    s.state # "NONE" /\ o # "OFFERED" =>
        o2 # "OFFERED" /\ (s.winner = Nobody => s2.winner # t)

Progress ==
    \A j \in Jobs :
        /\ AheadJob(job[j], job'[j])
        /\ \A t \in Therapists : AheadOffer(job[j], job'[j], offer[j][t], offer'[j][t], t)

WindowKept ==
    \A t \in Therapists : \A j \in Jobs :
        /\ window[t][j] # "none" => window'[t][j] # "none"
        /\ window[t][j] \in {"ACTIVE", "RELEASED"} => window'[t][j] \in {"ACTIVE", "RELEASED"}

LEMMA GoneForGood ==
    ASSUME NEW s, NEW s2, NEW o, NEW o2, NEW t,
           AheadJob(s, s2), AheadOffer(s, s2, o, o2, t), Gone(s, o, t)
    PROVE  Gone(s2, o2, t)
BY DEF AheadJob, AheadOffer, Gone, Over

LEMMA SoundForGood ==
    ASSUME NEW s, NEW s2, NEW o, NEW o2, NEW op, NEW t, NEW result,
           AheadJob(s, s2), op = "accept" => t # Nobody /\ AheadOffer(s, s2, o, o2, t),
           Sound(op, t, s, o, result)
    PROVE  Sound(op, t, s2, o2, result)
<1>1. OneKey /\ op = "accept" /\ result.state \notin {"ACCEPTED", "CHECKING"} => Gone(s2, o2, t)
  BY GoneForGood DEF Sound
<1> QED
  BY <1>1 DEF Sound, AheadJob, Begun, Over

LEMMA ProgressStill ==
    ASSUME UNCHANGED authority PROVE Progress
BY PeopleAssumption DEF PeopleAssumption, authority, Progress, AheadJob, AheadOffer, Over, Begun

LEMMA WindowStill ==
    ASSUME UNCHANGED window PROVE WindowKept
BY DEF WindowKept

LEMMA AuthorityStill ==
    ASSUME UNCHANGED authority, \A j \in Jobs : JobOK(j), AnsweredOK
    PROVE  (\A j \in Jobs : JobOK(j)') /\ AnsweredOK' /\ (WinnerAnswered => WinnerAnswered')
<1>1. \A j \in Jobs : JobOK(j)'
  BY DEF authority, JobOK
<1>2. AnsweredOK'
  BY DEF authority, AnsweredOK
<1>3. WinnerAnswered => WinnerAnswered'
  BY DEF authority, WinnerAnswered, Replay
<1> QED
  BY <1>1, <1>2, <1>3

LEMMA LostForGood ==
    ASSUME Progress, NEW j \in Jobs, NEW t \in Therapists, Lost(t, j)
    PROVE  Lost(t, j)'
BY GoneForGood DEF Progress, Lost

LEMMA RowStill ==
    ASSUME Progress, UNCHANGED row, NEW j \in Jobs, RowOK(j),
           rows[j] # 0 => rows'[j] # 0
    PROVE  RowOK(j)'
BY DEF Progress, AheadJob, RowOK, Over, Begun

LEMMA WindowWhereJobsMove ==
    ASSUME Shape, WindowOK, Progress, UNCHANGED window,
           \A t \in Therapists : \A j \in Jobs \ Legacy :
               job'[j].winner = t /\ job[j].winner # t => window[t][j] # "none",
           \A t \in Therapists : \A j \in Jobs :
               job'[j].winner = t /\ job'[j].state = "IN_PROGRESS" => window[t][j] = "ACTIVE"
    PROVE  WindowOK'
<1> SUFFICES ASSUME NEW t \in Therapists, NEW j \in Jobs
             PROVE  /\ window'[t][j] = "RELEASED" => Lost(t, j)'
                    /\ job'[j].winner = t /\ j \notin Legacy => window'[t][j] # "none"
                    /\ job'[j].winner = t /\ job'[j].state = "IN_PROGRESS"
                         => window'[t][j] = "ACTIVE"
                    /\ \A k \in Jobs \ {j} : Holds(t, j)' /\ Holds(t, k)' => <<j, k>> \notin Overlaps
  BY DEF WindowOK
<1>1. \A k \in Jobs : Holds(t, k)' => Holds(t, k)
  BY LostForGood DEF Holds
<1>2. window'[t][j] = "RELEASED" => Lost(t, j)'
  BY LostForGood DEF WindowOK
<1> QED
  BY <1>1, <1>2 DEF WindowOK

LEMMA CallStill ==
    ASSUME Progress, WindowKept, NEW r \in Requests, CallOK(r), call'[r] = call[r]
    PROVE  CallOK(r)'
<1>1. /\ r.job \in Jobs
      /\ r.op \notin {"match", "cancel"} => r.who \in Therapists
      /\ Nobody \notin Therapists
  BY PeopleAssumption DEF PeopleAssumption
<1>2. /\ AheadJob(job[r.job], job'[r.job])
      /\ r.who \in Therapists =>
            AheadOffer(job[r.job], job'[r.job], offer[r.job][r.who], offer'[r.job][r.who], r.who)
  BY <1>1 DEF Progress
<1>3. call[r].pc = "reserve" => ListOK(r)'
  <2> SUFFICES ASSUME call[r].pc = "reserve", NEW k \in Jobs
               PROVE  /\ call[r].active[k] # "none" => job'[k].winner = r.who
                      /\ k \in Legacy \ {r.job} /\ LegacyOwner[k] = r.who /\ window'[r.who][k] = "none"
                           => Lost(r.who, k)' \/ call[r].active[k] # "none"
    BY DEF ListOK
  <2>1. r.who \in Therapists /\ r.who # Nobody /\ ListOK(r)
    BY <1>1 DEF CallOK
  <2>2. Lost(r.who, k) => Lost(r.who, k)'
    BY <2>1, LostForGood
  <2>3. AheadJob(job[k], job'[k])
    BY DEF Progress
  <2> QED
    BY <2>1, <2>2, <2>3 DEF ListOK, AheadJob, WindowKept
<1>4. call[r].pc \in {"settle", "project"} =>
        Sound(r.op, r.who, job'[r.job], offer'[r.job][r.who], call[r].result)
  <2> SUFFICES ASSUME call[r].pc \in {"settle", "project"}
               PROVE  Sound(r.op, r.who, job'[r.job], offer'[r.job][r.who], call[r].result)
    OBVIOUS
  <2>1. Sound(r.op, r.who, job[r.job], offer[r.job][r.who], call[r].result)
    BY DEF CallOK
  <2> QED
    BY <1>1, <1>2, <2>1, SoundForGood
<1>5. r.op = "start" => /\ job[r.job].winner = r.who => job'[r.job].winner = r.who
                        /\ r.who \in Therapists
  BY <1>1, <1>2 DEF AheadJob
<1>6. r.op = "accept" => r.who \in Therapists
  BY <1>1
<1> QED
  BY <1>1, <1>3, <1>4, <1>5, <1>6 DEF CallOK, WindowKept

(* the handlers that did not move *)
LEMMA CallsStill ==
    ASSUME Progress, WindowKept, \A s \in Requests : CallOK(s),
           NEW r \in Requests, CallOK(r)', \A s \in Requests \ {r} : call'[s] = call[s]
    PROVE  \A s \in Requests : CallOK(s)'
BY CallStill

LEMMA AnswerForGood ==
    ASSUME Shape, Progress, AnsweredOK, NEW j \in Jobs, NEW a \in answered[j], a.op # "decline"
    PROVE  Sound(a.op, a.who, job'[j], offer'[j][a.who], a.result)
<1>1. Answer(a) /\ Sound(a.op, a.who, job[j], offer[j][a.who], a.result)
  BY DEF Shape, AnsweredOK
<1>2. AheadJob(job[j], job'[j])
  BY DEF Progress
<1>3. a.op = "accept" => /\ a.who # Nobody
                         /\ AheadOffer(job[j], job'[j], offer[j][a.who], offer'[j][a.who], a.who)
  BY <1>1, PeopleAssumption DEF PeopleAssumption, Answer, Progress
<1> QED
  BY <1>1, <1>2, <1>3, SoundForGood

(* answers are remembered, never forgotten *)
LEMMA AnsweredStill ==
    ASSUME Shape, Progress, AnsweredOK, NEW r \in Requests, NEW result \in Results,
           Remember(r, result),
           r.op # "decline" => Sound(r.op, r.who, job'[r.job], offer'[r.job][r.who], result)
    PROVE  /\ AnsweredOK'
           /\ answered' = [j \in Jobs |-> answered'[j]]
           /\ \A j \in Jobs : \A a \in answered'[j] : Answer(a)
           /\ \A j \in Jobs : answered[j] \subseteq answered'[j]
           /\ Replay(r)' # {}
<1> DEFINE new == [op |-> r.op, who |-> r.who, key |-> r.key, result |-> result]
<1>1. r.job \in Jobs /\ (r.op = "accept" => r.who \in Therapists) /\ Nobody \notin Therapists
  BY PeopleAssumption DEF PeopleAssumption
<1>2. /\ answered' = [j \in Jobs |-> answered'[j]]
      /\ \A j \in Jobs : answered[j] \subseteq answered'[j]
      /\ \A j \in Jobs : \A a \in answered'[j] : a \in answered[j] \/ (j = r.job /\ a = new)
  <2>1. answered = [j \in Jobs |-> answered[j]]
    BY DEF Shape
  <2>2. CASE Replay(r) # {}
    BY <2>1, <2>2 DEF Remember
  <2>3. CASE Replay(r) = {}
    BY <2>1, <2>3, <1>1 DEF Remember
  <2> QED
    BY <2>2, <2>3
<1>3. Answer(new)
  BY <1>1 DEF Answer
<1>4. ASSUME NEW j \in Jobs, NEW a \in answered'[j]
      PROVE  /\ Answer(a)
             /\ a.op # "decline" => Sound(a.op, a.who, job'[j], offer'[j][a.who], a.result)
  <2>1. CASE j = r.job /\ a = new
    BY <2>1, <1>3
  <2>2. CASE a \in answered[j]
    <3>1. Answer(a)
      BY <2>2 DEF Shape
    <3>2. a.op # "decline" => Sound(a.op, a.who, job'[j], offer'[j][a.who], a.result)
      BY <2>2, AnswerForGood
    <3> QED
      BY <3>1, <3>2
  <2> QED
    BY <1>2, <2>1, <2>2
<1>5. Replay(r)' # {}
  <2>1. CASE Replay(r) # {}
    BY <2>1, <1>1, <1>2 DEF Replay
  <2>2. CASE Replay(r) = {}
    <3>1. new \in answered'[r.job]
      BY <2>2, <1>1 DEF Remember, Shape
    <3>2. new \in Replay(r)'
      BY <3>1 DEF Replay
    <3> QED
      BY <3>2
  <2> QED
    BY <2>1, <2>2
<1> QED
  BY <1>2, <1>4, <1>5 DEF AnsweredOK

LEMMA WinnerStillAnswered ==
    ASSUME WinnerAnswered, \A j \in Jobs : answered[j] \subseteq answered'[j],
           \A j \in Jobs : job'[j].winner \in {job[j].winner, Nobody}
    PROVE  WinnerAnswered'
<1> SUFFICES ASSUME NEW r \in Requests, r.op = "accept", job'[r.job].winner = r.who
             PROVE  Replay(r)' # {}
  BY DEF WinnerAnswered
<1>1. r.job \in Jobs /\ r.who # Nobody
  BY PeopleAssumption DEF PeopleAssumption
<1>2. Replay(r) # {}
  BY <1>1 DEF WinnerAnswered
<1> QED
  BY <1>1, <1>2 DEF Replay

-----------------------------------------------------------------------------
(* The handler that moved.                                                 *)

LEMMA GoesTyped ==
    ASSUME Shape, NEW r \in Requests, NEW pc \in Places, Goes(r, pc)
    PROVE  /\ call' \in [Requests -> Calls]
           /\ call'[r] = [call[r] EXCEPT !.pc = pc]
           /\ call'[r].pc = pc
           /\ call'[r].active = call[r].active
           /\ call'[r].result = call[r].result
           /\ \A s \in Requests \ {r} : call'[s] = call[s]
<1>1. call[r] \in Calls
  BY DEF Shape
<1>2. [call[r] EXCEPT !.pc = pc] \in Calls
  BY <1>1 DEF Calls
<1>3. call' = [call EXCEPT ![r] = [call[r] EXCEPT !.pc = pc]]
  BY DEF Goes
<1> QED
  BY <1>1, <1>2, <1>3 DEF Shape, Calls

LEMMA EndsTyped ==
    ASSUME Shape, NEW r \in Requests, Ends(r)
    PROVE  /\ call' \in [Requests -> Calls]
           /\ CallOK(r)'
           /\ \A s \in Requests \ {r} : call'[s] = call[s]
<1>1. Idle \in Calls /\ Idle.pc = "idle"
  BY DEF Idle, Calls, Places, Results, Answers
<1>2. call' = [call EXCEPT ![r] = Idle]
  BY DEF Ends
<1>3. call'[r].pc = "idle" /\ \A s \in Requests \ {r} : call'[s] = call[s]
  BY <1>1, <1>2 DEF Shape
<1>4. call' \in [Requests -> Calls]
  BY <1>1, <1>2 DEF Shape
<1> QED
  BY <1>3, <1>4 DEF CallOK

(* a step that changes neither the coordinators nor what a row says *)
LEMMA QuietStep ==
    ASSUME IInv, NEW r \in Requests, UNCHANGED <<authority, window, row>>,
           \A j \in Jobs : rows[j] # 0 => rows'[j] # 0,
           Shape', CallOK(r)', \A s \in Requests \ {r} : call'[s] = call[s]
    PROVE  IInv'
<1>1. Progress /\ WindowKept
  BY ProgressStill, WindowStill
<1>2. (\A j \in Jobs : JobOK(j)') /\ AnsweredOK' /\ (OneKey => WinnerAnswered')
  BY AuthorityStill DEF IInv
<1>3. OneKey => WindowOK'
  BY DEF IInv, WindowOK, Holds, Lost, authority
<1>4. \A j \in Jobs : RowOK(j)'
  BY <1>1, RowStill DEF IInv
<1>5. \A s \in Requests : CallOK(s)'
  BY <1>1, CallsStill DEF IInv
<1> QED
  BY <1>2, <1>3, <1>4, <1>5 DEF IInv

LEMMA MatchLookStep ==
    ASSUME IInv, NEW r \in Requests, MatchLook(r) PROVE IInv'
<1>1. Goes(r, "create") /\ Shape /\ "create" \in Places /\ r.op = "match"
  BY DEF MatchLook, Enters, IInv, Places
<1>2. /\ call' \in [Requests -> Calls] /\ call'[r].pc = "create"
      /\ \A s \in Requests \ {r} : call'[s] = call[s]
  BY <1>1, GoesTyped
<1>3. Shape'
  BY <1>1, <1>2 DEF MatchLook, Shape, authority, airtable
<1>4. CallOK(r)'
  BY <1>1, <1>2 DEF CallOK
<1> QED
  BY <1>2, <1>3, <1>4, QuietStep DEF MatchLook, airtable

LEMMA CreateJobStep ==
    ASSUME IInv, NEW r \in Requests, CreateJob(r) PROVE IInv'
<1>1. Goes(r, "offers") /\ Shape /\ "offers" \in Places /\ r.job \in Jobs
  BY PeopleAssumption DEF CreateJob, IInv, Places, PeopleAssumption
<1>2. /\ call' \in [Requests -> Calls] /\ call'[r].pc = "offers"
      /\ \A s \in Requests \ {r} : call'[s] = call[s]
  BY <1>1, GoesTyped
<1>3. rows' \in [Jobs -> Nat] /\ \A j \in Jobs : rows[j] # 0 => rows'[j] # 0
  BY <1>1 DEF CreateJob, Shape
<1>4. Shape'
  BY <1>1, <1>2, <1>3 DEF CreateJob, Shape, authority
<1>5. CallOK(r)'
  BY <1>2 DEF CallOK
<1> QED
  BY <1>2, <1>3, <1>4, <1>5, QuietStep DEF CreateJob

LEMMA CreateOfferStep ==
    ASSUME IInv, NEW r \in Requests, CreateOffer(r) PROVE IInv'
<1> DEFINE j == r.job
<1>1. Shape /\ j \in Jobs /\ Candidates[j] \subseteq Therapists
  BY PeopleAssumption DEF IInv, PeopleAssumption
<1>2. PICK t \in Candidates[j] \ call[r].done :
        /\ offerRows' = [offerRows EXCEPT ![j][t] = @ + 1]
        /\ call' = [call EXCEPT ![r].done = @ \union {t},
                                ![r].pc = IF call[r].done \union {t} = Candidates[j]
                                          THEN "initialize" ELSE "offers"]
  BY DEF CreateOffer
<1> DEFINE c == [call[r] EXCEPT !.done = @ \union {t},
                                !.pc = IF call[r].done \union {t} = Candidates[j]
                                       THEN "initialize" ELSE "offers"]
<1>3. call[r] \in Calls
  BY <1>1 DEF Shape
<1>4. c \in Calls /\ c.pc \in {"initialize", "offers"}
  BY <1>1, <1>3 DEF Calls, Places
<1>5. call' = [call EXCEPT ![r] = c]
  BY <1>2
<1>6. call' \in [Requests -> Calls] /\ call'[r] = c /\ \A s \in Requests \ {r} : call'[s] = call[s]
  BY <1>1, <1>4, <1>5 DEF Shape
<1>7. offerRows' \in [Jobs -> [Therapists -> Nat]]
  BY <1>1, <1>2 DEF Shape
<1>8. Shape'
  BY <1>1, <1>6, <1>7 DEF CreateOffer, Shape, authority
<1>9. CallOK(r)'
  BY <1>4, <1>6 DEF CallOK
<1> QED
  BY <1>6, <1>8, <1>9, QuietStep DEF CreateOffer

LEMMA OpenStep ==
    ASSUME IInv, NEW r \in Requests, Open(r) PROVE IInv'
<1>1. Goes(r, "list") /\ Shape /\ "list" \in Places
  BY DEF Open, Enters, IInv, Places
<1>2. /\ call' \in [Requests -> Calls] /\ call'[r].pc = "list"
      /\ \A s \in Requests \ {r} : call'[s] = call[s]
  BY <1>1, GoesTyped
<1>3. Shape'
  BY <1>1, <1>2 DEF Open, Shape, authority, airtable
<1>4. r.op = "start" => job'[r.job].winner = r.who
  BY DEF Open, Owned, authority
<1>5. CallOK(r)'
  BY <1>2, <1>4 DEF CallOK
<1> QED
  BY <1>2, <1>3, <1>5, QuietStep DEF Open, airtable

LEMMA CompleteOpenStep ==
    ASSUME IInv, NEW r \in Requests, CompleteOpen(r) PROVE IInv'
<1>1. Goes(r, "transition") /\ Shape /\ "transition" \in Places /\ r.op = "complete"
  BY DEF CompleteOpen, Enters, IInv, Places
<1>2. /\ call' \in [Requests -> Calls] /\ call'[r].pc = "transition"
      /\ \A s \in Requests \ {r} : call'[s] = call[s]
  BY <1>1, GoesTyped
<1>3. Shape'
  BY <1>1, <1>2 DEF CompleteOpen, Shape, authority, airtable
<1>4. CallOK(r)'
  BY <1>1, <1>2 DEF CallOK
<1> QED
  BY <1>2, <1>3, <1>4, QuietStep DEF CompleteOpen, airtable

LEMMA StopStep ==
    ASSUME IInv, NEW r \in Requests, Stop(r) PROVE IInv'
<1>1. /\ call' \in [Requests -> Calls]
      /\ CallOK(r)'
      /\ \A s \in Requests \ {r} : call'[s] = call[s]
  BY EndsTyped DEF Stop, IInv
<1>2. faults' \in 0..MaxFaults
  BY BoundsAssumption DEF BoundsAssumption, Stop, IInv, Shape
<1>3. Shape'
  BY <1>1, <1>2 DEF Stop, IInv, Shape, authority, airtable
<1> QED
  BY <1>1, <1>3, QuietStep DEF Stop, airtable

LEMMA ExpireStep ==
    ASSUME IInv, NEW j \in Jobs, Expire(j) PROVE IInv'
<1>1. expired' \in [Jobs -> BOOLEAN]
  BY DEF Expire, IInv, Shape
<1>2. Shape'
  BY <1>1 DEF Expire, IInv, Shape, authority, airtable
<1>3. Progress /\ WindowKept
  BY ProgressStill, WindowStill DEF Expire
<1>4. (\A k \in Jobs : JobOK(k)') /\ AnsweredOK' /\ (OneKey => WinnerAnswered')
  BY AuthorityStill DEF IInv, Expire
<1>5. OneKey => WindowOK'
  BY DEF Expire, IInv, WindowOK, Holds, Lost, authority
<1>6. \A k \in Jobs : RowOK(k)'
  BY <1>3, RowStill DEF IInv, Expire, airtable
<1>7. \A r \in Requests : CallOK(r)'
  BY <1>3, CallStill DEF IInv, Expire
<1> QED
  BY <1>2, <1>4, <1>5, <1>6, <1>7 DEF IInv

LEMMA ListStep ==
    ASSUME IInv, NEW r \in Requests, List(r) PROVE IInv'
<1> DEFINE t == r.who
           c == [call[r] EXCEPT !.pc = "reserve", !.late = expired[r.job],
                                !.active = Listed(t, r.job)]
<1>1. /\ Shape /\ r.job \in Jobs /\ t \in Therapists /\ t # Nobody
      /\ r.op \in {"accept", "start"}
  BY PeopleAssumption DEF IInv, PeopleAssumption, List, At
<1>2. Listed(t, r.job) \in [Jobs -> {"none", "SEEDED", "ACTIVE"}]
  BY DEF Listed
<1>3. call[r] \in Calls /\ expired[r.job] \in BOOLEAN
  BY <1>1 DEF Shape
<1>4. c \in Calls /\ c.pc = "reserve" /\ c.active = Listed(t, r.job)
  BY <1>2, <1>3 DEF Calls, Places
<1>5. call' = [call EXCEPT ![r] = c]
  BY DEF List
<1>6. call' \in [Requests -> Calls] /\ call'[r] = c /\ \A s \in Requests \ {r} : call'[s] = call[s]
  BY <1>1, <1>4, <1>5 DEF Shape
<1>7. Shape'
  BY <1>1, <1>6 DEF List, Shape, authority, airtable
<1>8. ASSUME NEW k \in Jobs
      PROVE  /\ Listed(t, r.job)[k] # "none" => job[k].winner = t
             /\ k \in Legacy \ {r.job} /\ LegacyOwner[k] = t
                  => Lost(t, k) \/ Listed(t, r.job)[k] # "none"
  <2>1. RowOK(k) /\ row[k].status \in RowStates
    BY DEF IInv, Shape
  <2>2. Listed(t, r.job)[k] # "none" => job[k].winner = t
    BY <1>1, <2>1 DEF Listed, RowOK
  <2>3. CASE k \in Legacy \ {r.job} /\ LegacyOwner[k] = t
    <3>1. rows[k] # 0 /\ row[k].owner = t /\ row[k].status # "Offered"
      BY <2>1, <2>3 DEF RowOK
    <3>2. row[k].status \in {"Completed", "Cancelled"} => Lost(t, k)
      BY <2>1 DEF RowOK, Lost, Gone, Over
    <3>3. row[k].status \in {"Accepted", "In Progress"} => Listed(t, r.job)[k] # "none"
      BY <2>3, <3>1 DEF Listed
    <3> QED
      BY <2>1, <2>2, <3>1, <3>2, <3>3 DEF RowStates
  <2> QED
    BY <2>2, <2>3
<1>9. ListOK(r)'
  BY <1>4, <1>6, <1>8 DEF ListOK, List, authority, Lost
<1>10. CallOK(r)'
  <2>1. r.op = "start" => job[r.job].winner = t
    BY DEF List, At, IInv, CallOK
  <2> QED
    BY <1>1, <1>4, <1>6, <1>9, <2>1 DEF CallOK, List, authority
<1> QED
  BY <1>6, <1>7, <1>10, QuietStep DEF List, airtable

LEMMA RowStatusOf ==
    /\ DOMAIN RowStatus = {"ACCEPTED", "IN_PROGRESS", "COMPLETED", "CANCELLED"}
    /\ RowStatus["ACCEPTED"] = "Accepted" /\ RowStatus["IN_PROGRESS"] = "In Progress"
    /\ RowStatus["COMPLETED"] = "Completed" /\ RowStatus["CANCELLED"] = "Cancelled"
BY DEF RowStatus

LEMMA ProjectStep ==
    ASSUME IInv, NEW r \in Requests, Project(r) PROVE IInv'
<1> DEFINE j == r.job
           s == call[r].result.state
<1>1. /\ Shape /\ j \in Jobs /\ (r.op = "accept" => r.who \in Therapists)
      /\ Nobody \notin Therapists
  BY PeopleAssumption DEF IInv, PeopleAssumption
<1>2. /\ call' \in [Requests -> Calls]
      /\ CallOK(r)'
      /\ \A q \in Requests \ {r} : call'[q] = call[q]
  BY EndsTyped DEF Project, IInv
<1>3. Sound(r.op, r.who, job[j], offer[j][r.who], call[r].result) /\ (r.op = "accept" => s = "ACCEPTED")
  BY DEF Project, IInv, CallOK
<1>4. row \in [Jobs -> [status : RowStates, owner : Therapists \union {Nobody}]]
  BY <1>1 DEF Shape
<1>5. row' \in [Jobs -> [status : RowStates, owner : Therapists \union {Nobody}]]
  <2>1. s \in DOMAIN RowStatus => RowStatus[s] \in RowStates
    BY RowStatusOf DEF RowStates
  <2>2. CASE row' = row
    BY <2>2, <1>4
  <2>3. CASE r.op = "accept" /\ row' = [row EXCEPT ![j] = [status |-> "Accepted", owner |-> r.who]]
    BY <2>3, <1>1, <1>4 DEF RowStates
  <2>4. CASE s \in DOMAIN RowStatus /\ row' = [row EXCEPT ![j].status = RowStatus[s]]
    BY <2>1, <2>4, <1>1, <1>4
  <2> QED
    BY <2>2, <2>3, <2>4 DEF Project
<1>6. Shape'
  BY <1>1, <1>2, <1>5 DEF Project, Shape, authority
<1>7. ASSUME NEW k \in Jobs PROVE RowOK(k)'
  <2>1. RowOK(k) /\ JobOK(k) /\ job' = job /\ rows' = rows
    BY DEF IInv, Project, authority
  <2>2. CASE row'[k] = row[k]
    BY <2>1, <2>2 DEF RowOK
  <2>3. CASE k = j /\ r.op = "accept" /\ row'[k] = [status |-> "Accepted", owner |-> r.who]
    <3>1. job[k].winner = r.who
      BY <1>3, <2>3 DEF Sound
    <3>2. k \in Legacy => LegacyOwner[k] = r.who
      BY <2>1, <3>1 DEF JobOK
    <3>3. row'[k].status = "Accepted" /\ row'[k].owner = r.who
      BY <2>3
    <3>4. k \in Legacy => rows'[k] # 0
      BY <2>1 DEF RowOK
    <3> QED
      BY <2>1, <3>1, <3>2, <3>3, <3>4 DEF RowOK
  <2>4. CASE k = j /\ r.op # "accept" /\ s \in DOMAIN RowStatus
             /\ row'[k] = [row[k] EXCEPT !.status = RowStatus[s]]
    <3>1. row'[k].owner = row[k].owner /\ row'[k].status = RowStatus[s]
      BY <2>4, <1>4
    <3>2. /\ s = "COMPLETED" => job[k].state = "COMPLETED"
          /\ s = "CANCELLED" => job[k].state = "CANCELLED"
          /\ s = "IN_PROGRESS" => job[k].state \in Begun
      BY <1>3, <2>4 DEF Sound
    <3>3. /\ RowStatus[s] # "Offered"
          /\ RowStatus[s] = "In Progress" => s = "IN_PROGRESS"
          /\ RowStatus[s] = "Completed" => s = "COMPLETED"
          /\ RowStatus[s] = "Cancelled" => s = "CANCELLED"
      BY <2>4, RowStatusOf
    <3> QED
      BY <2>1, <3>1, <3>2, <3>3 DEF RowOK
  <2> QED
    BY <1>1, <1>4, <2>2, <2>3, <2>4 DEF Project
<1>8. Progress /\ WindowKept
  BY ProgressStill, WindowStill DEF Project
<1>9. (\A k \in Jobs : JobOK(k)') /\ AnsweredOK' /\ (OneKey => WinnerAnswered')
  BY AuthorityStill DEF IInv, Project
<1>10. OneKey => WindowOK'
  BY DEF Project, IInv, WindowOK, Holds, Lost, authority
<1>11. \A q \in Requests : CallOK(q)'
  BY <1>2, <1>8, CallsStill DEF IInv
<1> QED
  BY <1>6, <1>7, <1>9, <1>10, <1>11 DEF IInv

-----------------------------------------------------------------------------
(* The steps that change a therapist's windows.                            *)

LEMMA ScheduleStep ==
    ASSUME IInv, NEW r \in Requests, UNCHANGED <<authority, airtable>>,
           Shape', WindowKept, OneKey => WindowOK', CallOK(r)',
           \A s \in Requests \ {r} : call'[s] = call[s]
    PROVE  IInv'
<1>1. Progress
  BY ProgressStill
<1>2. (\A j \in Jobs : JobOK(j)') /\ AnsweredOK' /\ (OneKey => WinnerAnswered')
  BY AuthorityStill DEF IInv
<1>3. \A j \in Jobs : RowOK(j)'
  BY <1>1, RowStill DEF IInv, airtable
<1>4. \A s \in Requests : CallOK(s)'
  BY <1>1, CallsStill DEF IInv
<1> QED
  BY <1>2, <1>3, <1>4 DEF IInv

(* what a reservation makes of a therapist's windows *)
LEMMA ReservedWindows ==
    ASSUME Shape, NEW t \in Therapists, NEW j \in Jobs,
           NEW active \in [Jobs -> {"none", "SEEDED", "ACTIVE"}],
           NEW k \in Jobs
    PROVE  /\ Seeded(t, active)[k] = IF window[t][k] = "none" THEN active[k] ELSE window[t][k]
           /\ Reserved(Seeded(t, active), j) \in [Jobs -> WindowStates]
           /\ Reserved(Seeded(t, active), j)[k] =
                IF k = j /\ Seeded(t, active)[j] = "none" /\ ~Conflict(Seeded(t, active), j)
                THEN "HELD" ELSE Seeded(t, active)[k]
<1> DEFINE held == Seeded(t, active)
<1>1. held = [i \in Jobs |-> IF window[t][i] = "none" THEN active[i] ELSE window[t][i]]
  BY DEF Seeded
<1>2. window[t] \in [Jobs -> WindowStates]
  BY DEF Shape
<1>3. held \in [Jobs -> WindowStates]
  BY <1>1, <1>2 DEF WindowStates
<1>4. held[k] = IF window[t][k] = "none" THEN active[k] ELSE window[t][k]
  BY <1>1
<1> HIDE DEF held
<1>5. Reserved(held, j) \in [Jobs -> WindowStates]
  BY <1>3 DEF Reserved, WindowStates
<1>6. Reserved(held, j)[k] = IF k = j /\ held[j] = "none" /\ ~Conflict(held, j) THEN "HELD" ELSE held[k]
  BY <1>3 DEF Reserved
<1> QED
  BY <1>4, <1>5, <1>6 DEF held

LEMMA ReserveStep ==
    ASSUME IInv, NEW r \in Requests, Reserve(r) PROVE IInv'
<1> DEFINE t == r.who
           j == r.job
           active == call[r].active
           held == Seeded(t, active)
           new == Reserved(held, j)
<1>1. /\ Shape /\ j \in Jobs /\ t \in Therapists /\ t # Nobody
      /\ r.op \in {"accept", "start"}
      /\ active \in [Jobs -> {"none", "SEEDED", "ACTIVE"}]
  BY PeopleAssumption DEF IInv, PeopleAssumption, Reserve, At, Shape, Calls
<1>2. ListOK(r) /\ (r.op = "start" => job[j].winner = t)
  BY DEF IInv, CallOK, Reserve, At
<1>3. window' = [window EXCEPT ![t] = new] /\ UNCHANGED authority
  BY DEF Reserve
<1>4. /\ new \in [Jobs -> WindowStates]
      /\ \A k \in Jobs :
            /\ held[k] = IF window[t][k] = "none" THEN active[k] ELSE window[t][k]
            /\ new[k] = IF k = j /\ held[j] = "none" /\ ~Conflict(held, j) THEN "HELD" ELSE held[k]
  BY <1>1, ReservedWindows
<1> HIDE DEF new, held
<1>5. /\ window' \in [Therapists -> [Jobs -> WindowStates]]
      /\ window'[t] = new
      /\ \A u \in Therapists \ {t} : window'[u] = window[u]
  BY <1>1, <1>3, <1>4 DEF Shape
<1>6. WindowKept
  BY <1>4, <1>5 DEF WindowKept
<1>7. ASSUME OneKey, NEW k \in Jobs, Holds(t, k)'
      PROVE  Holds(t, k) \/ (k = j /\ ~Conflict(held, j))
  <2>1. ~Lost(t, k) /\ (new[k] \in Blocking \/ (k \in Legacy /\ LegacyOwner[k] = t))
    BY <1>3, <1>5, <1>7 DEF Holds, Lost, authority
  <2>2. CASE new[k] = window[t][k]
    BY <2>1, <2>2 DEF Holds
  <2>3. CASE k # j /\ window[t][k] = "none" /\ active[k] # "none"
    <3>1. job[k].winner = t
      BY <1>2, <2>3 DEF ListOK
    <3>2. k \in Legacy /\ LegacyOwner[k] = t
      BY <1>1, <1>7, <2>3, <3>1 DEF IInv, WindowOK, JobOK
    <3> QED
      BY <2>1, <3>2 DEF Holds
  <2>4. CASE k = j /\ window[t][j] = "none" /\ active[j] # "none"
    <3>1. job[k].winner = t
      BY <1>2, <2>4 DEF ListOK
    <3>2. k \in Legacy /\ LegacyOwner[k] = t
      BY <1>1, <1>7, <2>4, <3>1 DEF IInv, WindowOK, JobOK
    <3> QED
      BY <2>1, <3>2 DEF Holds
  <2> QED
    BY <1>4, <2>2, <2>3, <2>4
<1>8. ASSUME OneKey, NEW k \in Jobs \ {j}, Holds(t, k), ~Conflict(held, j)
      PROVE  <<j, k>> \notin Overlaps
  <2>1. held[k] \in Blocking
    <3>1. CASE window[t][k] \in Blocking
      BY <1>4, <3>1 DEF Blocking
    <3>2. CASE window[t][k] = "none"
      <4>1. active[k] # "none"
        BY <1>2, <1>8, <3>2 DEF ListOK, Holds, Blocking
      <4> QED
        BY <1>1, <1>4, <3>2, <4>1 DEF Blocking
    <3>3. window[t][k] # "RELEASED"
      BY <1>1, <1>8 DEF IInv, WindowOK, Holds
    <3>4. window[t][k] \in WindowStates
      BY <1>1 DEF Shape
    <3> QED
      BY <3>1, <3>2, <3>3, <3>4 DEF WindowStates, Blocking
  <2> QED
    BY <1>8, <2>1 DEF Conflict
<1>9. OneKey => WindowOK'
  <2> SUFFICES ASSUME OneKey, NEW u \in Therapists, NEW k \in Jobs
               PROVE  /\ window'[u][k] = "RELEASED" => Lost(u, k)'
                      /\ job'[k].winner = u /\ k \notin Legacy => window'[u][k] # "none"
                      /\ job'[k].winner = u /\ job'[k].state = "IN_PROGRESS" => window'[u][k] = "ACTIVE"
                      /\ \A l \in Jobs \ {k} : Holds(u, k)' /\ Holds(u, l)' => <<k, l>> \notin Overlaps
    BY DEF WindowOK
  <2>1. CASE u # t
    BY <1>3, <1>5, <2>1 DEF IInv, WindowOK, Holds, Lost, authority
  <2>2. CASE u = t
    <3>1. /\ window'[t][k] = "RELEASED" => Lost(t, k)'
          /\ job'[k].winner = t /\ k \notin Legacy => window'[t][k] # "none"
          /\ job'[k].winner = t /\ job'[k].state = "IN_PROGRESS" => window'[t][k] = "ACTIVE"
      <4>1. /\ window[t][k] = "RELEASED" => Lost(t, k)
            /\ job[k].winner = t /\ k \notin Legacy => window[t][k] # "none"
            /\ job[k].winner = t /\ job[k].state = "IN_PROGRESS" => window[t][k] = "ACTIVE"
        BY <1>1 DEF IInv, WindowOK
      <4>2. active[k] \in {"none", "SEEDED", "ACTIVE"}
        BY <1>1
      <4> QED
        BY <1>3, <1>4, <1>5, <4>1, <4>2 DEF authority, Lost
    <3>2. ASSUME NEW l \in Jobs \ {k}, Holds(t, k)', Holds(t, l)'
          PROVE  <<k, l>> \notin Overlaps
      <4>1. Holds(t, k) \/ (k = j /\ ~Conflict(held, j))
        BY <1>7, <3>2
      <4>2. Holds(t, l) \/ (l = j /\ ~Conflict(held, j))
        BY <1>7, <3>2
      <4>3. CASE Holds(t, k) /\ Holds(t, l)
        BY <1>1, <4>3 DEF IInv, WindowOK
      <4>4. CASE k = j /\ ~Conflict(held, j) /\ Holds(t, l)
        BY <1>8, <4>4
      <4>5. CASE l = j /\ ~Conflict(held, j) /\ Holds(t, k)
        BY <1>8, <4>5, OverlapsAssumption DEF OverlapsAssumption
      <4> QED
        BY <4>1, <4>2, <4>3, <4>4, <4>5
    <3> QED
      BY <2>2, <3>1, <3>2
  <2> QED
    BY <2>1, <2>2
<1>10. /\ call' \in [Requests -> Calls]
       /\ CallOK(r)'
       /\ \A s \in Requests \ {r} : call'[s] = call[s]
  <2>1. CASE new[j] = "none" /\ Ends(r)
    BY <1>1, <2>1, EndsTyped
  <2>2. CASE new[j] # "none" /\ Goes(r, IF r.op = "accept" THEN "claim" ELSE "mark")
    <3> DEFINE pc == IF r.op = "accept" THEN "claim" ELSE "mark"
    <3>1. pc \in Places
      BY DEF Places
    <3>2. /\ call' \in [Requests -> Calls] /\ call'[r].pc = pc
          /\ \A s \in Requests \ {r} : call'[s] = call[s]
      BY <1>1, <2>2, <3>1, GoesTyped
    <3>3. CallOK(r)'
      BY <1>1, <1>2, <1>3, <1>5, <2>2, <3>2 DEF CallOK, authority
    <3> QED
      BY <3>2, <3>3
  <2> QED
    BY <2>1, <2>2 DEF Reserve, new, held
<1>11. Shape'
  BY <1>1, <1>3, <1>5, <1>10 DEF Reserve, Shape, authority, airtable
<1> QED
  BY <1>6, <1>9, <1>10, <1>11, ScheduleStep DEF Reserve

LEMMA MarkStep ==
    ASSUME IInv, NEW r \in Requests, Mark(r) PROVE IInv'
<1> DEFINE t == r.who
           j == r.job
<1>1. /\ Shape /\ j \in Jobs /\ t \in Therapists /\ r.op = "start"
  BY PeopleAssumption DEF IInv, PeopleAssumption, Mark, At
<1>2. job[j].winner = t /\ UNCHANGED <<authority, airtable>>
  BY DEF IInv, CallOK, Mark, At
<1>3. CASE window[t][j] \in Blocking /\ window' = [window EXCEPT ![t][j] = "ACTIVE"]
           /\ Goes(r, "transition")
  <2>1. /\ window' \in [Therapists -> [Jobs -> WindowStates]]
        /\ \A u \in Therapists : \A k \in Jobs :
              window'[u][k] = IF u = t /\ k = j THEN "ACTIVE" ELSE window[u][k]
    BY <1>1, <1>3 DEF Shape, WindowStates
  <2>2. WindowKept
    BY <2>1 DEF WindowKept
  <2>3. /\ call' \in [Requests -> Calls] /\ call'[r].pc = "transition"
        /\ \A s \in Requests \ {r} : call'[s] = call[s]
    BY <1>1, <1>3, GoesTyped DEF Places
  <2>4. Shape'
    BY <1>1, <1>2, <2>1, <2>3 DEF Mark, Shape, authority, airtable
  <2>5. ASSUME NEW u \in Therapists, NEW k \in Jobs
        PROVE  Holds(u, k)' = Holds(u, k) /\ Lost(u, k)' = Lost(u, k)
    BY <1>2, <1>3, <2>1 DEF Holds, Lost, authority, Blocking
  <2>6. OneKey => WindowOK'
    BY <1>2, <2>1, <2>5 DEF IInv, WindowOK, authority
  <2>7. CallOK(r)'
    BY <1>1, <1>2, <2>1, <2>3 DEF CallOK, authority
  <2> QED
    BY <1>2, <2>2, <2>3, <2>4, <2>6, <2>7, ScheduleStep
<1>4. CASE Ends(r) /\ UNCHANGED window
  <2>1. /\ call' \in [Requests -> Calls] /\ CallOK(r)'
        /\ \A s \in Requests \ {r} : call'[s] = call[s]
    BY <1>1, <1>4, EndsTyped
  <2>2. Shape'
    BY <1>1, <1>2, <1>4, <2>1 DEF Mark, Shape, authority, airtable
  <2> QED
    BY <1>2, <1>4, <2>1, <2>2, QuietStep DEF airtable
<1> QED
  BY <1>3, <1>4 DEF Mark

(* who settles releases the window it was answered about *)
LEMMA SettledWindows ==
    ASSUME IInv, NEW r \in Requests, Settle(r)
    PROVE  LET t == IF r.op = "cancel" THEN call[r].result.winner ELSE r.who
           IN  /\ t \in Therapists
               /\ window' \in [Therapists -> [Jobs -> WindowStates]]
               /\ \A u \in Therapists : \A k \in Jobs :
                     window'[u][k] = IF u = t /\ k = r.job /\ window[u][k] # "none"
                                     THEN "RELEASED" ELSE window[u][k]
<1> DEFINE t == IF r.op = "cancel" THEN call[r].result.winner ELSE r.who
           j == r.job
           result == call[r].result
<1>1. /\ Shape /\ j \in Jobs /\ r.op \in Ops
      /\ r.op \notin {"match", "cancel"} => r.who \in Therapists
      /\ result \in Results
  BY PeopleAssumption DEF IInv, PeopleAssumption, Shape, Calls
<1>2. /\ CallOK(r) /\ call[r].pc = "settle" /\ r.op \notin {"match", "decline"}
      /\ Sound(r.op, r.who, job[j], offer[j][r.who], result)
  BY DEF IInv, CallOK, Settle
<1>3. t \in Therapists
  BY <1>1, <1>2 DEF CallOK, Results
<1>4. window' = Released(t, j)
  BY <1>2 DEF Settle, CallOK, Sound, Begun, Over
<1> HIDE DEF t
<1>5. /\ window' \in [Therapists -> [Jobs -> WindowStates]]
      /\ \A u \in Therapists : \A k \in Jobs :
            window'[u][k] = IF u = t /\ k = j /\ window[u][k] # "none" THEN "RELEASED" ELSE window[u][k]
  BY <1>1, <1>3, <1>4 DEF Released, Shape, WindowStates
<1> QED
  BY <1>3, <1>5 DEF t

LEMMA SettleStep ==
    ASSUME IInv, NEW r \in Requests, Settle(r) PROVE IInv'
<1> DEFINE t == IF r.op = "cancel" THEN call[r].result.winner ELSE r.who
           j == r.job
           result == call[r].result
<1>1. /\ Shape /\ j \in Jobs /\ r.op \in Ops
      /\ r.op \notin {"match", "cancel"} => r.who \in Therapists
      /\ result \in Results
  BY PeopleAssumption DEF IInv, PeopleAssumption, Shape, Calls
<1>2. /\ CallOK(r) /\ call[r].pc = "settle" /\ r.op \notin {"match", "decline"}
      /\ Sound(r.op, r.who, job[j], offer[j][r.who], result)
      /\ UNCHANGED <<authority, airtable>>
  BY DEF IInv, CallOK, Settle
<1>3. /\ t \in Therapists
      /\ window' \in [Therapists -> [Jobs -> WindowStates]]
      /\ \A u \in Therapists : \A k \in Jobs :
            window'[u][k] = IF u = t /\ k = j /\ window[u][k] # "none" THEN "RELEASED" ELSE window[u][k]
  BY SettledWindows
<1>4. JobOK(j)
  BY <1>1 DEF IInv
<1>5. OneKey => Lost(t, j)
  <2>1. CASE r.op = "accept"
    BY <1>2, <2>1 DEF CallOK, Sound, Lost
  <2>2. CASE r.op # "accept"
    BY <1>1, <1>2, <2>2 DEF CallOK, Sound, Lost, Gone, Over, Begun, Ops
  <2> QED
    BY <2>1, <2>2
<1> HIDE DEF t
<1>6. WindowKept
  BY <1>3 DEF WindowKept
<1>7. /\ call' \in [Requests -> Calls] /\ CallOK(r)'
      /\ \A s \in Requests \ {r} : call'[s] = call[s]
  <2>1. CASE r.op = "accept" /\ Ends(r)
    BY <1>1, <2>1, EndsTyped
  <2>2. CASE r.op # "accept" /\ Goes(r, "project")
    <3>1. /\ call' \in [Requests -> Calls] /\ call'[r].pc = "project"
          /\ call'[r].result = result
          /\ \A s \in Requests \ {r} : call'[s] = call[s]
      BY <1>1, <2>2, GoesTyped DEF Places
    <3>2. Sound(r.op, r.who, job'[j], offer'[j][r.who], call'[r].result)
      BY <1>2, <3>1 DEF authority
    <3> QED
      BY <1>2, <2>2, <3>1, <3>2 DEF CallOK
  <2> QED
    BY <2>1, <2>2 DEF Settle
<1>8. Shape'
  BY <1>1, <1>2, <1>3, <1>7 DEF Settle, Shape, authority, airtable
<1>9. ASSUME NEW u \in Therapists, NEW k \in Jobs
       PROVE  (Holds(u, k)' => Holds(u, k)) /\ Lost(u, k)' = Lost(u, k)
  BY <1>2, <1>3 DEF Holds, Lost, authority, Blocking
<1>10. OneKey => WindowOK'
  <2> SUFFICES ASSUME OneKey, NEW u \in Therapists, NEW k \in Jobs
               PROVE  /\ window'[u][k] = "RELEASED" => Lost(u, k)'
                      /\ job'[k].winner = u /\ k \notin Legacy => window'[u][k] # "none"
                      /\ job'[k].winner = u /\ job'[k].state = "IN_PROGRESS" => window'[u][k] = "ACTIVE"
                      /\ \A l \in Jobs \ {k} : Holds(u, k)' /\ Holds(u, l)' => <<k, l>> \notin Overlaps
    BY DEF WindowOK
  <2>1. job'[k].winner = u /\ job'[k].state = "IN_PROGRESS" => ~Lost(u, k)
    BY <1>2, PeopleAssumption DEF PeopleAssumption, Lost, Gone, Over, authority
  <2>2. job'[k] = job[k]
    BY <1>2 DEF authority
  <2>3. /\ window[u][k] = "RELEASED" => Lost(u, k)
        /\ job[k].winner = u /\ k \notin Legacy => window[u][k] # "none"
        /\ job[k].winner = u /\ job[k].state = "IN_PROGRESS" => window[u][k] = "ACTIVE"
        /\ \A l \in Jobs \ {k} : Holds(u, k) /\ Holds(u, l) => <<k, l>> \notin Overlaps
    BY DEF IInv, WindowOK
  <2>4. window'[u][k] = "RELEASED" => Lost(u, k)'
    BY <1>5, <1>3, <1>9, <2>3
  <2> QED
    BY <1>5, <1>3, <1>9, <2>1, <2>2, <2>3, <2>4
<1> QED
  BY <1>2, <1>6, <1>7, <1>8, <1>10, ScheduleStep

-----------------------------------------------------------------------------
(* The steps of the job's coordinator.                                     *)

LEMMA CoordinatorStep ==
    ASSUME IInv, NEW r \in Requests, UNCHANGED <<window, airtable>>, Progress,
           Shape', \A j \in Jobs : JobOK(j)', AnsweredOK', OneKey => WinnerAnswered',
           OneKey => \A t \in Therapists : \A j \in Jobs \ Legacy :
               job'[j].winner = t /\ job[j].winner # t => window[t][j] # "none",
           OneKey => \A t \in Therapists : \A j \in Jobs :
               job'[j].winner = t /\ job'[j].state = "IN_PROGRESS" => window[t][j] = "ACTIVE",
           CallOK(r)', \A s \in Requests \ {r} : call'[s] = call[s]
    PROVE  IInv'
<1>1. WindowKept
  BY WindowStill
<1>2. OneKey => WindowOK'
  BY WindowWhereJobsMove DEF IInv
<1>3. \A j \in Jobs : RowOK(j)'
  BY RowStill DEF IInv, airtable
<1>4. \A s \in Requests : CallOK(s)'
  BY <1>1, CallsStill DEF IInv
<1> QED
  BY <1>2, <1>3, <1>4 DEF IInv

(* no winner is named and no service begins *)
LEMMA WindowsStillMatch ==
    ASSUME IInv, \A j \in Jobs : /\ job'[j].winner = job[j].winner
                                 /\ job'[j].state = "IN_PROGRESS" => job[j].state = "IN_PROGRESS"
    PROVE  /\ OneKey => \A t \in Therapists : \A j \in Jobs \ Legacy :
               job'[j].winner = t /\ job[j].winner # t => window[t][j] # "none"
           /\ OneKey => \A t \in Therapists : \A j \in Jobs :
               job'[j].winner = t /\ job'[j].state = "IN_PROGRESS" => window[t][j] = "ACTIVE"
BY DEF IInv, WindowOK

LEMMA InitializeStep ==
    ASSUME IInv, NEW r \in Requests, Initialize(r) PROVE IInv'
<1> DEFINE j == r.job
           opened == IF job[j].state = "NONE" THEN "OFFERED" ELSE job[j].state
<1>1. /\ Shape /\ j \in Jobs /\ Candidates[j] \subseteq Therapists /\ Nobody \notin Therapists
  BY PeopleAssumption DEF IInv, PeopleAssumption
<1>2. /\ job' \in [Jobs -> [state : JobStates, winner : Therapists \union {Nobody}]]
      /\ job'[j].state = opened /\ job'[j].winner = job[j].winner
      /\ \A k \in Jobs \ {j} : job'[k] = job[k]
  <2>1. job' = [job EXCEPT ![j].state = opened]
    BY DEF Initialize
  <2>2. opened \in JobStates
    BY <1>1 DEF Shape, JobStates
  <2>3. job[j] \in [state : JobStates, winner : Therapists \union {Nobody}]
    BY <1>1 DEF Shape
  <2> HIDE DEF opened
  <2>4. /\ [job[j] EXCEPT !.state = opened] \in [state : JobStates, winner : Therapists \union {Nobody}]
        /\ [job[j] EXCEPT !.state = opened].state = opened
        /\ [job[j] EXCEPT !.state = opened].winner = job[j].winner
    BY <2>2, <2>3
  <2> QED
    BY <1>1, <2>1, <2>4 DEF Shape
<1> DEFINE offered(t) == IF offer[j][t] = "none" /\ t \in Candidates[j] THEN "OFFERED" ELSE offer[j][t]
<1>3. /\ offer' \in [Jobs -> [Therapists -> OfferStates]]
      /\ \A t \in Therapists :
            offer'[j][t] = IF job[j].state \in {"NONE", "OFFERED"} THEN offered(t) ELSE offer[j][t]
      /\ \A k \in Jobs \ {j} : offer'[k] = offer[k]
  <2>1. CASE job[j].state \in {"NONE", "OFFERED"}
    <3>1. offer' = [offer EXCEPT ![j] = [t \in Therapists |-> offered(t)]]
      BY <1>1, <2>1 DEF Initialize, Shape
    <3>2. [t \in Therapists |-> offered(t)] \in [Therapists -> OfferStates]
      BY <1>1 DEF Shape, OfferStates
    <3> QED
      BY <1>1, <2>1, <3>1, <3>2 DEF Shape
  <2>2. CASE job[j].state \notin {"NONE", "OFFERED"}
    BY <1>1, <2>2 DEF Initialize, Shape
  <2> QED
    BY <2>1, <2>2
<1>4. JobOK(j)
  BY <1>1 DEF IInv
<1>5. ASSUME NEW k \in Jobs
      PROVE  /\ AheadJob(job[k], job'[k])
             /\ \A t \in Therapists : AheadOffer(job[k], job'[k], offer[k][t], offer'[k][t], t)
             /\ JobOK(k)'
  <2>1. CASE k = j
    <3>1. AheadJob(job[j], job'[j])
      BY <1>2 DEF AheadJob, Over, Begun
    <3>2. ASSUME NEW t \in Therapists
          PROVE  AheadOffer(job[j], job'[j], offer[j][t], offer'[j][t], t)
      BY <1>1, <1>2, <1>3, <1>4 DEF AheadOffer, JobOK
    <3>3. JobOK(j)'
      <4>1. job'[j].state # "NONE" => \A t \in Candidates[j] : offer'[j][t] # "none"
        BY <1>1, <1>2, <1>3, <1>4 DEF JobOK
      <4>2. job'[j].winner = Nobody => \A t \in Therapists : offer'[j][t] # "ACCEPTED"
        BY <1>2, <1>3, <1>4 DEF JobOK
      <4>3. /\ job'[j].winner = Nobody => job'[j].state \in {"NONE", "OFFERED", "CANCELLED"}
            /\ job'[j].winner # Nobody => job'[j].state \in {"ACCEPTED"} \union Begun
        BY <1>2, <1>4 DEF JobOK, Begun, Over
      <4> QED
        BY <1>2, <1>4, <4>1, <4>2, <4>3 DEF JobOK
    <3> QED
      BY <2>1, <3>1, <3>2, <3>3
  <2>2. CASE k # j
    <3>1. job'[k] = job[k] /\ offer'[k] = offer[k] /\ JobOK(k)
      BY <1>2, <1>3, <2>2 DEF IInv
    <3> QED
      BY <1>1, <3>1 DEF JobOK, AheadJob, AheadOffer, Over, Begun
  <2> QED
    BY <2>1, <2>2
<1>6. Progress
  BY <1>5 DEF Progress
<1>7. AnsweredOK'
  BY <1>1, <1>6, AnswerForGood DEF Initialize, IInv, AnsweredOK
<1>8. OneKey => WinnerAnswered'
  BY <1>2, WinnerStillAnswered DEF Initialize, IInv
<1>9. /\ call' \in [Requests -> Calls] /\ CallOK(r)'
      /\ \A s \in Requests \ {r} : call'[s] = call[s]
  BY <1>1, EndsTyped DEF Initialize
<1>10. Shape'
  BY <1>1, <1>2, <1>3, <1>9 DEF Initialize, Shape, airtable
<1>11. \A k \in Jobs : /\ job'[k].winner = job[k].winner
                       /\ job'[k].state = "IN_PROGRESS" => job[k].state = "IN_PROGRESS"
  BY <1>2
<1> QED
  BY <1>5, <1>6, <1>7, <1>8, <1>9, <1>10, <1>11, CoordinatorStep, WindowsStillMatch DEF Initialize

LEMMA TakesTyped ==
    ASSUME Shape, NEW r \in Requests, r.op \in {"accept", "start", "complete"},
           NEW result \in Results, Takes(r, result),
           Sound(r.op, r.who, job'[r.job], offer'[r.job][r.who], result)
    PROVE  /\ call' \in [Requests -> Calls]
           /\ CallOK(r)'
           /\ \A s \in Requests \ {r} : call'[s] = call[s]
<1> DEFINE next == After(r, result.state)
           c == IF next = "idle" THEN Idle ELSE [call[r] EXCEPT !.pc = next, !.result = result]
<1>1. /\ next \in {"project", "idle", "settle"}
      /\ r.op = "accept" => /\ next = "project" => result.state = "ACCEPTED"
                            /\ next = "settle" => result.state \notin {"ACCEPTED", "CHECKING"}
      /\ r.op = "start" /\ next = "settle" => result.state # "IN_PROGRESS"
      /\ r.op = "complete" /\ next = "settle" => result.state = "COMPLETED"
  BY DEF After
<1> HIDE DEF next
<1>2. call[r] \in Calls
  BY DEF Shape
<1>3. Idle \in Calls /\ Idle.pc = "idle"
  BY DEF Idle, Calls, Places, Results, Answers
<1>4. next # "idle" => /\ [call[r] EXCEPT !.pc = next, !.result = result] \in Calls
                       /\ [call[r] EXCEPT !.pc = next, !.result = result].pc = next
                       /\ [call[r] EXCEPT !.pc = next, !.result = result].result = result
  BY <1>1, <1>2 DEF Calls, Places
<1>5. call' = [call EXCEPT ![r] = c]
  BY DEF Takes, next
<1>6. /\ c \in Calls
      /\ next = "idle" => c.pc = "idle"
      /\ next # "idle" => c.pc = next /\ c.result = result
  BY <1>3, <1>4
<1> HIDE DEF c
<1>7. /\ call' \in [Requests -> Calls] /\ call'[r] = c
      /\ \A s \in Requests \ {r} : call'[s] = call[s]
  BY <1>5, <1>6 DEF Shape
<1>8. CallOK(r)'
  BY <1>1, <1>6, <1>7 DEF CallOK
<1> QED
  BY <1>7, <1>8

(* a key answered before changes nothing but the handler *)
LEMMA ReplayStep ==
    ASSUME IInv, NEW r \in Requests, r.op \in {"accept", "start", "complete"},
           NEW a \in Replay(r), Takes(r, a.result),
           UNCHANGED <<authority, expired, window, airtable, faults>>
    PROVE  IInv'
<1>1. Shape /\ r.job \in Jobs /\ a \in answered[r.job] /\ a.op = r.op /\ a.who = r.who
  BY PeopleAssumption DEF PeopleAssumption, IInv, Replay
<1>2. a.result \in Results /\ Sound(r.op, r.who, job[r.job], offer[r.job][r.who], a.result)
  BY <1>1 DEF IInv, AnsweredOK, Shape, Answer
<1>3. Sound(r.op, r.who, job'[r.job], offer'[r.job][r.who], a.result)
  BY <1>2 DEF authority
<1>4. /\ call' \in [Requests -> Calls] /\ CallOK(r)'
      /\ \A s \in Requests \ {r} : call'[s] = call[s]
  BY <1>1, <1>2, <1>3, TakesTyped
<1>5. Shape'
  BY <1>1, <1>4 DEF Shape, authority, airtable
<1> QED
  BY <1>4, <1>5, QuietStep DEF airtable

LEMMA TransitionStep ==
    ASSUME IInv, NEW r \in Requests, Transition(r) PROVE IInv'
<1> DEFINE j == r.job
           t == r.who
           moves == job[j].state = From(r.op)
           s == IF job[j].winner # t THEN "TAKEN" ELSE IF moves THEN To(r.op) ELSE job[j].state
           fresh == [state |-> s, winner |-> Nobody]
           moved == job[j].winner = t /\ moves
<1>1. /\ Shape /\ j \in Jobs /\ t \in Therapists /\ Nobody \notin Therapists
      /\ r.op \in {"start", "complete"} /\ JobOK(j)
  BY PeopleAssumption DEF IInv, PeopleAssumption, Transition, At
<1>2. CASE Replay(r) # {}
  <2>1. PICK a \in Replay(r) : Takes(r, a.result)
    BY <1>2 DEF Transition
  <2>2. UNCHANGED <<authority, expired, window, airtable, faults>>
    BY <1>2 DEF Transition, Remember, authority
  <2> QED
    BY <1>1, <2>1, <2>2, ReplayStep
<1>3. CASE Replay(r) = {}
  <2>1. /\ Remember(r, fresh) /\ Takes(r, fresh) /\ offer' = offer
        /\ job' = IF moved THEN [job EXCEPT ![j].state = To(r.op)] ELSE job
        /\ UNCHANGED <<expired, window, airtable, faults>>
    BY <1>3 DEF Transition
  <2>2. job[j] \in [state : JobStates, winner : Therapists \union {Nobody}]
    BY <1>1 DEF Shape
  <2>3. fresh \in Results /\ s \in Answers
    BY <1>1, <2>2 DEF Results, Answers, JobOK, Begun, Over, To
  <2>4. /\ job' \in [Jobs -> [state : JobStates, winner : Therapists \union {Nobody}]]
        /\ job'[j].winner = job[j].winner
        /\ job'[j].state = IF moved THEN To(r.op) ELSE job[j].state
        /\ \A k \in Jobs \ {j} : job'[k] = job[k]
    BY <1>1, <2>1, <2>2 DEF Shape, To, JobStates
  <2>5. moved => \/ r.op = "start" /\ job[j].state = "ACCEPTED" /\ job'[j].state = "IN_PROGRESS"
                 \/ r.op = "complete" /\ job[j].state = "IN_PROGRESS" /\ job'[j].state = "COMPLETED"
    BY <1>1, <2>4 DEF From, To
  <2> HIDE DEF moved
  <2>6. ASSUME NEW k \in Jobs
        PROVE  /\ AheadJob(job[k], job'[k])
               /\ \A u \in Therapists : AheadOffer(job[k], job'[k], offer[k][u], offer'[k][u], u)
               /\ JobOK(k)'
    <3>1. JobOK(k)
      BY DEF IInv
    <3>2. job'[k].winner = job[k].winner
      BY <2>4
    <3>3. AheadJob(job[k], job'[k])
      BY <2>4, <2>5, <3>2 DEF AheadJob, Over, Begun
    <3>4. \A u \in Therapists : AheadOffer(job[k], job'[k], offer[k][u], offer'[k][u], u)
      BY <1>1, <2>1, <3>2 DEF AheadOffer
    <3>o. offer' = offer
      BY <2>1
    <3>5. CASE job'[k].state = job[k].state
      BY <3>o, <3>1, <3>2, <3>3, <3>4, <3>5 DEF JobOK
    <3>6. CASE k = j /\ moved
      <4>1. /\ job[k].state \in {"ACCEPTED", "IN_PROGRESS"}
            /\ job'[k].state \in {"IN_PROGRESS", "COMPLETED"}
        BY <2>5, <3>6
      <4> QED
        BY <4>1, <3>o, <3>1, <3>2, <3>3, <3>4 DEF JobOK, Begun, Over
    <3> QED
      BY <2>4, <3>3, <3>4, <3>5, <3>6
  <2>7. Progress
    BY <2>6 DEF Progress
  <2>8. Sound(r.op, t, job'[j], offer'[j][t], fresh)
    <3>1. r.op = "start" => job[j].winner = t
      BY DEF Transition, At, IInv, CallOK
    <3>2. r.op = "start" => s \in Begun
      BY <1>1, <3>1 DEF JobOK, From, To, Begun
    <3>3. s # "TAKEN" => s = job'[j].state
      BY <1>1, <2>4 DEF moved
    <3> QED
      BY <1>1, <3>2, <3>3 DEF Sound, Begun
  <2>9. /\ AnsweredOK'
        /\ answered' = [k \in Jobs |-> answered'[k]]
        /\ \A k \in Jobs : \A a \in answered'[k] : Answer(a)
        /\ \A k \in Jobs : answered[k] \subseteq answered'[k]
    BY <1>1, <2>1, <2>3, <2>7, <2>8, AnsweredStill DEF IInv
  <2>10. OneKey => WinnerAnswered'
    BY <2>4, <2>9, WinnerStillAnswered DEF IInv
  <2>11. /\ call' \in [Requests -> Calls] /\ CallOK(r)'
         /\ \A q \in Requests \ {r} : call'[q] = call[q]
    BY <1>1, <2>1, <2>3, <2>8, TakesTyped
  <2>12. Shape'
    BY <1>1, <2>1, <2>4, <2>9, <2>11 DEF Shape, airtable
  <2>13. ASSUME OneKey, NEW u \in Therapists, NEW k \in Jobs, job'[k].winner = u, job'[k].state = "IN_PROGRESS"
         PROVE  window[u][k] = "ACTIVE"
    <3>1. CASE job[k].state = "IN_PROGRESS"
      BY <2>4, <2>13, <3>1 DEF IInv, WindowOK
    <3>2. CASE k = j /\ moved
      <4>1. r.op = "start" /\ job[j].state = "ACCEPTED" /\ u = t /\ job[j].winner = t
        BY <2>4, <2>5, <2>13, <3>2 DEF moved
      <4>2. window[t][j] \in {"ACTIVE", "RELEASED"}
        BY <4>1 DEF Transition, At, IInv, CallOK
      <4>3. ~Lost(t, j)
        BY <1>1, <4>1 DEF Lost, Gone, Over
      <4> QED
        BY <1>1, <2>13, <3>2, <4>1, <4>2, <4>3 DEF IInv, WindowOK
    <3> QED
      BY <2>4, <2>13, <3>1, <3>2
  <2>14. \A u \in Therapists : \A k \in Jobs \ Legacy :
            job'[k].winner = u /\ job[k].winner # u => window[u][k] # "none"
    BY <2>4
  <2> QED
    BY <2>1, <2>6, <2>7, <2>9, <2>10, <2>11, <2>12, <2>13, <2>14, CoordinatorStep
<1> QED
  BY <1>2, <1>3

(* what the coordinator answers an accept, and what becomes of the offers *)
LEMMA AcceptAnswers ==
    ASSUME Shape, NEW j \in Jobs, JobOK(j), NEW t \in Therapists, NEW late,
           Candidates[j] \subseteq Therapists
    PROVE  /\ AcceptState(j, t, late) \in Answers
           /\ Wins(j, t, late) => job[j].state = "OFFERED"
           /\ ~Wins(j, t, late) /\ job[j].winner # t => AcceptState(j, t, late) # "ACCEPTED"
           /\ OffersAfter(j, t, late) \in [Therapists -> OfferStates]
           /\ job[j].winner # t /\ AcceptState(j, t, late) \notin {"ACCEPTED", "CHECKING"}
                => Gone(job[j], OffersAfter(j, t, late)[t], t)
           /\ ~Wins(j, t, late) => \A u \in Therapists :
                /\ OffersAfter(j, t, late)[u] = offer[j][u]
                   \/ OffersAfter(j, t, late)[u] = "EXPIRED"
           /\ Wins(j, t, late) => \A u \in Therapists :
                OffersAfter(j, t, late)[u] = IF offer[j][u] # "OFFERED" THEN offer[j][u]
                                             ELSE IF u = t THEN "ACCEPTED" ELSE "TAKEN"
<1> DEFINE s == AcceptState(j, t, late)
           o == offer[j][t]
           after == OffersAfter(j, t, late)
<1>1. /\ job[j] \in [state : JobStates, winner : Therapists \union {Nobody}]
      /\ offer[j] \in [Therapists -> OfferStates] /\ o \in OfferStates
  BY DEF Shape
<1>2. s \in Answers
  BY <1>1 DEF AcceptState, Answers, JobOK, Begun, Over, OfferStates
<1>3. Wins(j, t, late) => job[j].state = "OFFERED"
  BY DEF Wins, AcceptState, JobOK
<1>4. ~Wins(j, t, late) /\ job[j].winner # t => s # "ACCEPTED"
  BY DEF Wins, AcceptState, JobOK
<1>5. CASE Wins(j, t, late)
  <2> DEFINE f == [u \in Therapists |-> IF offer[j][u] # "OFFERED" THEN offer[j][u]
                                       ELSE IF u = t THEN "ACCEPTED" ELSE "TAKEN"]
  <2>1. after = f
    BY <1>5 DEF OffersAfter
  <2>2. f \in [Therapists -> OfferStates]
    BY <1>1 DEF OfferStates
  <2>3. s = "ACCEPTED"
    BY <1>5 DEF Wins
  <2> QED
    BY <1>2, <1>3, <1>5, <2>1, <2>2, <2>3
<1>6. CASE ~Wins(j, t, late)
  <2>1. after = IF job[j].winner = Nobody /\ s = "EXPIRED" THEN [offer[j] EXCEPT ![t] = "EXPIRED"]
                ELSE offer[j]
    BY <1>6 DEF OffersAfter
  <2>2. /\ after \in [Therapists -> OfferStates]
        /\ \A u \in Therapists : after[u] = offer[j][u] \/ after[u] = "EXPIRED"
        /\ after[t] = IF job[j].winner = Nobody /\ s = "EXPIRED" THEN "EXPIRED" ELSE o
    BY <1>1, <2>1 DEF OfferStates
  <2>3. job[j].winner # t /\ s \notin {"ACCEPTED", "CHECKING"} => Gone(job[j], after[t], t)
    <3> HIDE DEF after
    <3>1. s # "CHECKING" => job[j].state # "NONE"
      BY DEF AcceptState
    <3>2. job[j].winner = Nobody /\ s \notin {"ACCEPTED", "CHECKING", "EXPIRED", "CANCELLED"} => o # "OFFERED"
      BY DEF AcceptState
    <3>3. s = "CANCELLED" /\ job[j].winner = Nobody => job[j].state = "CANCELLED" \/ o = "CANCELLED"
      BY DEF AcceptState
    <3> QED
      BY <2>2, <3>1, <3>2, <3>3 DEF Gone, Over
  <2> QED
    BY <1>2, <1>4, <1>6, <2>2, <2>3
<1> QED
  BY <1>5, <1>6

LEMMA AcceptStep ==
    ASSUME IInv, NEW r \in Requests, Accept(r) PROVE IInv'
<1> DEFINE j == r.job
           t == r.who
           late == call[r].late
           s == AcceptState(j, t, late)
           wins == Wins(j, t, late)
           after == OffersAfter(j, t, late)
           fresh == [state |-> s, winner |-> IF wins THEN t ELSE job[j].winner]
<1>1. /\ Shape /\ j \in Jobs /\ t \in Therapists /\ Nobody \notin Therapists
      /\ r.op = "accept" /\ JobOK(j) /\ Candidates[j] \subseteq Therapists
      /\ j \in Legacy => LegacyOwner[j] # Nobody
  BY PeopleAssumption, LegacyAssumption DEF IInv, PeopleAssumption, LegacyAssumption, Accept, At
<1>2. CASE Replay(r) # {}
  <2>1. PICK a \in Replay(r) : Takes(r, a.result)
    BY <1>2 DEF Accept
  <2>2. UNCHANGED <<authority, expired, window, airtable, faults>>
    BY <1>2 DEF Accept, Remember, authority
  <2> QED
    BY <1>1, <2>1, <2>2, ReplayStep
<1>3. CASE Replay(r) = {}
  <2>1. /\ Remember(r, fresh) /\ Takes(r, fresh)
        /\ job' = IF wins THEN [job EXCEPT ![j] = [state |-> "ACCEPTED", winner |-> t]] ELSE job
        /\ offer' = [offer EXCEPT ![j] = after]
        /\ UNCHANGED <<expired, window, airtable, faults>>
    BY <1>3 DEF Accept
  <2>2. OneKey => job[j].winner # t
    BY <1>1, <1>3 DEF IInv, WinnerAnswered
  <2>3. /\ s \in Answers
        /\ wins => job[j].state = "OFFERED" /\ job[j].winner = Nobody /\ offer[j][t] = "OFFERED"
                   /\ s = "ACCEPTED"
        /\ ~wins /\ s = "ACCEPTED" => job[j].winner = t
        /\ after \in [Therapists -> OfferStates]
        /\ OneKey /\ s \notin {"ACCEPTED", "CHECKING"} => Gone(job[j], after[t], t)
        /\ ~wins => \A u \in Therapists : after[u] = offer[j][u] \/ after[u] = "EXPIRED"
        /\ wins => \A u \in Therapists :
              after[u] = IF offer[j][u] # "OFFERED" THEN offer[j][u]
                         ELSE IF u = t THEN "ACCEPTED" ELSE "TAKEN"
    BY <1>1, <2>2, AcceptAnswers DEF Wins
  <2> HIDE DEF s, wins, after
  <2>4. /\ job' \in [Jobs -> [state : JobStates, winner : Therapists \union {Nobody}]]
        /\ wins => job'[j].state = "ACCEPTED" /\ job'[j].winner = t
        /\ ~wins => job'[j] = job[j]
        /\ \A k \in Jobs \ {j} : job'[k] = job[k]
    BY <1>1, <2>1 DEF Shape, JobStates
  <2>5. /\ offer' \in [Jobs -> [Therapists -> OfferStates]]
        /\ offer'[j] = after
        /\ \A k \in Jobs \ {j} : offer'[k] = offer[k]
    BY <1>1, <2>1, <2>3 DEF Shape
  <2>6. fresh \in Results
    <3>1. job[j].winner \in Therapists \union {Nobody}
      BY <1>1 DEF Shape
    <3> QED
      BY <1>1, <2>3, <3>1 DEF Results
  <2>7. ASSUME NEW k \in Jobs
        PROVE  /\ AheadJob(job[k], job'[k])
               /\ \A u \in Therapists : AheadOffer(job[k], job'[k], offer[k][u], offer'[k][u], u)
               /\ JobOK(k)'
    <3>1. CASE k # j
      <4>1. job'[k] = job[k] /\ offer'[k] = offer[k] /\ JobOK(k)
        BY <2>4, <2>5, <3>1 DEF IInv
      <4> QED
        BY <1>1, <4>1 DEF JobOK, AheadJob, AheadOffer, Over, Begun
    <3>2. CASE k = j /\ wins
      <4>1. AheadJob(job[j], job'[j])
        BY <2>3, <2>4, <3>2 DEF AheadJob, Over, Begun
      <4>2. \A u \in Therapists : AheadOffer(job[j], job'[j], offer[j][u], offer'[j][u], u)
        BY <2>3, <2>4, <2>5, <3>2 DEF AheadOffer
      <4>3. \A u \in Candidates[j] : offer'[j][u] # "none"
        BY <1>1, <2>3, <2>5, <3>2 DEF JobOK
      <4>4. JobOK(j)'
        <5>1. j \notin Legacy
          BY <1>1, <2>3, <3>2 DEF JobOK
        <5> QED
          BY <1>1, <2>4, <3>2, <4>3, <5>1 DEF JobOK, Begun, Over
      <4> QED
        BY <3>2, <4>1, <4>2, <4>4
    <3>3. CASE k = j /\ ~wins
      <4>1. job'[j] = job[j] /\ \A u \in Therapists : offer'[j][u] = offer[j][u] \/ offer'[j][u] = "EXPIRED"
        BY <2>3, <2>4, <2>5, <3>3
      <4>2. AheadJob(job[j], job'[j])
        BY <4>1 DEF AheadJob, Over, Begun
      <4>3. \A u \in Therapists : AheadOffer(job[j], job'[j], offer[j][u], offer'[j][u], u)
        BY <1>1, <4>1 DEF AheadOffer
      <4>4. /\ job[j].winner = Nobody => \A u \in Therapists : offer'[j][u] # "ACCEPTED"
            /\ job[j].state # "NONE" => \A u \in Candidates[j] : offer'[j][u] # "none"
        BY <1>1, <4>1 DEF JobOK
      <4>5. JobOK(j)'
        BY <1>1, <4>1, <4>4 DEF JobOK
      <4> QED
        BY <3>3, <4>2, <4>3, <4>5
    <3> QED
      BY <3>1, <3>2, <3>3
  <2>8. Progress
    BY <2>7 DEF Progress
  <2>9. Sound(r.op, t, job'[j], offer'[j][t], fresh)
    <3>1. fresh.state = "ACCEPTED" => job'[j].winner = t
      BY <2>3, <2>4
    <3>2. OneKey /\ fresh.state \notin {"ACCEPTED", "CHECKING"} => Gone(job'[j], offer'[j][t], t)
      BY <2>3, <2>4, <2>5
    <3> QED
      BY <1>1, <3>1, <3>2 DEF Sound
  <2>10. /\ AnsweredOK'
         /\ answered' = [k \in Jobs |-> answered'[k]]
         /\ \A k \in Jobs : \A a \in answered'[k] : Answer(a)
         /\ \A k \in Jobs : answered[k] \subseteq answered'[k]
         /\ Replay(r)' # {}
    BY <1>1, <2>1, <2>6, <2>8, <2>9, AnsweredStill DEF IInv
  <2>11. OneKey => WinnerAnswered'
    <3> SUFFICES ASSUME OneKey, NEW q \in Requests, q.op = "accept", job'[q.job].winner = q.who
                 PROVE  Replay(q)' # {}
      BY DEF WinnerAnswered
    <3>1. q.job \in Jobs
      BY PeopleAssumption DEF PeopleAssumption
    <3>2. CASE job[q.job].winner = q.who
      <4>1. Replay(q) # {}
        BY <3>2 DEF IInv, WinnerAnswered
      <4> QED
        BY <2>10, <3>1, <4>1 DEF Replay
    <3>3. CASE job[q.job].winner # q.who
      <4>1. q.job = j /\ q.who = t
        BY <2>4, <3>1, <3>3
      <4>2. q.key = r.key
        BY <1>1, <4>1 DEF OneKey
      <4> QED
        BY <1>1, <2>10, <4>1, <4>2 DEF Replay
    <3> QED
      BY <3>2, <3>3
  <2>12. /\ call' \in [Requests -> Calls] /\ CallOK(r)'
         /\ \A q \in Requests \ {r} : call'[q] = call[q]
    BY <1>1, <2>1, <2>6, <2>9, TakesTyped
  <2>13. Shape'
    BY <1>1, <2>1, <2>4, <2>5, <2>10, <2>12 DEF Shape, airtable
  <2>14. ASSUME OneKey, NEW u \in Therapists, NEW k \in Jobs, job'[k].winner = u, job'[k].state = "IN_PROGRESS"
         PROVE  window[u][k] = "ACTIVE"
    <3>1. job[k].winner = u /\ job[k].state = "IN_PROGRESS"
      BY <2>4, <2>14
    <3> QED
      BY <2>14, <3>1 DEF IInv, WindowOK
  <2>15. ASSUME NEW u \in Therapists, NEW k \in Jobs \ Legacy, job'[k].winner = u, job[k].winner # u
         PROVE  window[u][k] # "none"
    <3>1. k = j /\ u = t
      BY <2>4, <2>15
    <3>2. window[t][j] # "none"
      BY DEF Accept, At, IInv, CallOK
    <3> QED
      BY <3>1, <3>2
  <2> QED
    BY <2>1, <2>7, <2>8, <2>10, <2>11, <2>12, <2>13, <2>14, <2>15, CoordinatorStep
<1> QED
  BY <1>2, <1>3

LEMMA DeclineStep ==
    ASSUME IInv, NEW r \in Requests, Decline(r) PROVE IInv'
<1> DEFINE j == r.job
           t == r.who
           o == offer[j][t]
           s == IF job[j].state = "NONE" THEN "CHECKING"
                ELSE IF o = "none" THEN "TAKEN"
                ELSE IF job[j].winner # Nobody THEN (IF job[j].winner = t THEN job[j].state ELSE "TAKEN")
                ELSE IF expired[j] THEN "EXPIRED"
                ELSE IF o = "OFFERED" THEN "DECLINED" ELSE o
           answers == job[j].winner = Nobody /\ s \in {"EXPIRED", "DECLINED"}
           fresh == [state |-> s, winner |-> Nobody]
<1>1. /\ Shape /\ j \in Jobs /\ t \in Therapists /\ Nobody \notin Therapists
      /\ r.op = "decline" /\ JobOK(j) /\ Candidates[j] \subseteq Therapists
  BY PeopleAssumption DEF IInv, PeopleAssumption, Decline
<1>2. /\ Remember(r, fresh)
      /\ offer' = IF answers THEN [offer EXCEPT ![j][t] = s] ELSE offer
      /\ UNCHANGED <<job, expired, window, airtable, call, faults>>
  BY DEF Decline
<1>3. job[j] \in [state : JobStates, winner : Therapists \union {Nobody}] /\ o \in OfferStates
  BY <1>1 DEF Shape
<1>4. s \in Answers
  BY <1>1, <1>3 DEF JobOK, Answers, Begun, Over, OfferStates
<1> HIDE DEF s
<1>5. fresh \in Results
  BY <1>4 DEF Results
<1>6. /\ offer' \in [Jobs -> [Therapists -> OfferStates]]
      /\ \A k \in Jobs, u \in Therapists :
            offer'[k][u] = offer[k][u] \/ offer'[k][u] \in {"EXPIRED", "DECLINED"}
  <2>1. CASE answers
    BY <1>1, <1>2, <2>1 DEF Shape, OfferStates
  <2>2. CASE ~answers
    BY <1>1, <1>2, <2>2 DEF Shape
  <2> QED
    BY <2>1, <2>2
<1>7. ASSUME NEW k \in Jobs
      PROVE  /\ AheadJob(job[k], job'[k])
             /\ \A u \in Therapists : AheadOffer(job[k], job'[k], offer[k][u], offer'[k][u], u)
             /\ JobOK(k)'
  <2>1. job' = job /\ JobOK(k) /\ Candidates[k] \subseteq Therapists
    BY <1>2, PeopleAssumption DEF IInv, PeopleAssumption
  <2>2. AheadJob(job[k], job'[k])
    BY <2>1 DEF AheadJob, Over, Begun
  <2>3. \A u \in Therapists : AheadOffer(job[k], job'[k], offer[k][u], offer'[k][u], u)
    BY <1>1, <1>6, <2>1 DEF AheadOffer
  <2>4. /\ job[k].winner = Nobody => \A u \in Therapists : offer'[k][u] # "ACCEPTED"
        /\ job[k].state # "NONE" => \A u \in Candidates[k] : offer'[k][u] # "none"
    BY <1>6, <2>1 DEF JobOK
  <2>5. JobOK(k)'
    BY <2>1, <2>4 DEF JobOK
  <2> QED
    BY <2>2, <2>3, <2>5
<1>8. Progress
  BY <1>7 DEF Progress
<1>9. /\ AnsweredOK'
      /\ answered' = [k \in Jobs |-> answered'[k]]
      /\ \A k \in Jobs : \A a \in answered'[k] : Answer(a)
      /\ \A k \in Jobs : answered[k] \subseteq answered'[k]
  BY <1>1, <1>2, <1>5, <1>8, AnsweredStill DEF IInv
<1>10. OneKey => WinnerAnswered'
  BY <1>2, <1>9, WinnerStillAnswered DEF IInv
<1>11. Shape'
  BY <1>1, <1>2, <1>6, <1>9 DEF Shape, airtable
<1>12. CallOK(r)' /\ \A q \in Requests \ {r} : call'[q] = call[q]
  <2>1. WindowKept
    BY <1>2, WindowStill
  <2> QED
    BY <1>2, <1>8, <2>1, CallStill DEF IInv
<1> QED
  BY <1>2, <1>7, <1>8, <1>9, <1>10, <1>11, <1>12, CoordinatorStep, WindowsStillMatch

LEMMA CancelStep ==
    ASSUME IInv, NEW r \in Requests, Cancel(r) PROVE IInv'
<1> DEFINE j == r.job
           s == IF job[j].state = "NONE" THEN "CHECKING"
                ELSE IF job[j].state = "COMPLETED" THEN "COMPLETED" ELSE "CANCELLED"
           fresh == [state |-> s, winner |-> job[j].winner]
           withdraws == job[j].state \in {"OFFERED"} \union Live
           result == IF Replay(r) = {} THEN fresh ELSE (CHOOSE a \in Replay(r) : TRUE).result
           pc == IF result.state = "CANCELLED" /\ result.winner # Nobody THEN "settle" ELSE "project"
           c == [call[r] EXCEPT !.result = result, !.pc = pc]
           moved == Replay(r) = {} /\ withdraws
           left(u) == IF offer[j][u] \in {"OFFERED", "ACCEPTED"} THEN "CANCELLED" ELSE offer[j][u]
<1>1. /\ Shape /\ j \in Jobs /\ Nobody \notin Therapists
      /\ r.op = "cancel" /\ JobOK(j) /\ Candidates[j] \subseteq Therapists
  BY PeopleAssumption DEF IInv, PeopleAssumption, Cancel
<1>2. /\ Remember(r, fresh)
      /\ call' = [call EXCEPT ![r] = c]
      /\ UNCHANGED <<expired, window, airtable, faults>>
  BY DEF Cancel
<1>3. job[j] \in [state : JobStates, winner : Therapists \union {Nobody}]
  BY <1>1 DEF Shape
<1>4. /\ job' \in [Jobs -> [state : JobStates, winner : Therapists \union {Nobody}]]
      /\ job'[j].winner = job[j].winner
      /\ job'[j].state = IF moved THEN "CANCELLED" ELSE job[j].state
      /\ \A k \in Jobs \ {j} : job'[k] = job[k]
  <2>1. CASE moved
    <3>1. job' = [job EXCEPT ![j].state = "CANCELLED"]
      BY <2>1 DEF Cancel
    <3> QED
      BY <1>1, <1>3, <2>1, <3>1 DEF Shape, JobStates
  <2>2. CASE ~moved
    <3>1. job' = job
      BY <2>2 DEF Cancel
    <3> QED
      BY <1>1, <2>2, <3>1 DEF Shape
  <2> QED
    BY <2>1, <2>2
<1>5. /\ offer' \in [Jobs -> [Therapists -> OfferStates]]
      /\ \A k \in Jobs, u \in Therapists :
            offer'[k][u] = IF k = j /\ moved THEN left(u) ELSE offer[k][u]
  <2>1. CASE moved
    <3>1. offer' = [offer EXCEPT ![j] = [u \in Therapists |-> left(u)]]
      BY <1>1, <2>1 DEF Cancel, Shape
    <3>2. [u \in Therapists |-> left(u)] \in [Therapists -> OfferStates]
      BY <1>1 DEF Shape, OfferStates
    <3> QED
      BY <1>1, <2>1, <3>1, <3>2 DEF Shape
  <2>2. CASE ~moved
    <3>1. offer' = offer
      BY <2>2 DEF Cancel
    <3> QED
      BY <1>1, <2>2, <3>1 DEF Shape
  <2> QED
    BY <2>1, <2>2
<1>6. /\ moved => job[j].state \in {"OFFERED", "ACCEPTED", "IN_PROGRESS"}
      /\ fresh \in Results
  BY <1>3 DEF Live, Results, Answers
<1> HIDE DEF moved
<1>7. ASSUME NEW k \in Jobs
      PROVE  /\ AheadJob(job[k], job'[k])
             /\ \A u \in Therapists : AheadOffer(job[k], job'[k], offer[k][u], offer'[k][u], u)
             /\ JobOK(k)'
  <2>1. JobOK(k) /\ Candidates[k] \subseteq Therapists /\ job'[k].winner = job[k].winner
    BY <1>4, PeopleAssumption DEF IInv, PeopleAssumption
  <2>2. AheadJob(job[k], job'[k])
    BY <1>4, <1>6 DEF AheadJob, Over, Begun
  <2>3. \A u \in Therapists : AheadOffer(job[k], job'[k], offer[k][u], offer'[k][u], u)
    BY <1>1, <1>5, <2>1 DEF AheadOffer
  <2>4. /\ job[k].winner = Nobody => \A u \in Therapists : offer'[k][u] # "ACCEPTED"
        /\ job'[k].state # "NONE" => \A u \in Candidates[k] : offer'[k][u] # "none"
    <3>1. job'[k].state # "NONE" => job[k].state # "NONE"
      BY <1>4, <1>6
    <3>2. ASSUME NEW u \in Therapists
          PROVE  /\ offer[k][u] # "ACCEPTED" => offer'[k][u] # "ACCEPTED"
                 /\ offer[k][u] # "none" => offer'[k][u] # "none"
      BY <1>5
    <3> QED
      BY <2>1, <3>1, <3>2 DEF JobOK
  <2>5. /\ job'[k].winner = Nobody => job'[k].state \in {"NONE", "OFFERED", "CANCELLED"}
        /\ job'[k].winner # Nobody => job'[k].state \in {"ACCEPTED"} \union Begun
    BY <1>4, <2>1 DEF JobOK, Begun, Over
  <2>6. JobOK(k)'
    BY <2>1, <2>4, <2>5 DEF JobOK
  <2> QED
    BY <2>2, <2>3, <2>6
<1>8. Progress
  BY <1>7 DEF Progress
<1>9. Replay(r) = {} => Sound(r.op, r.who, job'[j], offer'[j][r.who], fresh)
  BY <1>1, <1>3, <1>4 DEF Sound, moved, Live, JobStates
<1>10. /\ result \in Results
       /\ Sound(r.op, r.who, job'[j], offer'[j][r.who], result)
  <2>1. CASE Replay(r) = {}
    BY <1>6, <1>9, <2>1
  <2>2. CASE Replay(r) # {}
    <3>1. PICK a \in Replay(r) : result = a.result
      BY <2>2
    <3>2. a \in answered[j] /\ a.op = r.op /\ a.who = r.who
      BY <3>1 DEF Replay
    <3>3. a.result \in Results
      BY <1>1, <3>2 DEF Shape, Answer
    <3>4. Sound(a.op, a.who, job'[j], offer'[j][a.who], a.result)
      BY <1>1, <1>8, <3>2, AnswerForGood DEF IInv
    <3> QED
      BY <3>1, <3>2, <3>3, <3>4
  <2> QED
    BY <2>1, <2>2
<1>11. /\ AnsweredOK'
       /\ answered' = [k \in Jobs |-> answered'[k]]
       /\ \A k \in Jobs : \A a \in answered'[k] : Answer(a)
       /\ \A k \in Jobs : answered[k] \subseteq answered'[k]
  <2>1. CASE Replay(r) = {}
    BY <1>1, <1>2, <1>6, <1>8, <1>9, <2>1, AnsweredStill DEF IInv
  <2>2. CASE Replay(r) # {}
    <3>1. answered' = answered
      BY <1>2, <2>2 DEF Remember
    <3>2. AnsweredOK'
      BY <1>1, <1>8, <3>1, AnswerForGood DEF IInv, AnsweredOK
    <3> QED
      BY <1>1, <3>1, <3>2 DEF Shape
  <2> QED
    BY <2>1, <2>2
<1>12. OneKey => WinnerAnswered'
  BY <1>4, <1>11, WinnerStillAnswered DEF IInv
<1> HIDE DEF result
<1>13. c \in Calls /\ c.pc = pc /\ c.result = result /\ pc \in {"settle", "project"}
  <2>1. call[r] \in Calls
    BY <1>1 DEF Shape
  <2> QED
    BY <1>10, <2>1 DEF Calls, Places
<1> HIDE DEF c
<1>14. /\ call' \in [Requests -> Calls] /\ call'[r] = c
       /\ \A q \in Requests \ {r} : call'[q] = call[q]
  BY <1>1, <1>2, <1>13 DEF Shape
<1>15. CallOK(r)'
  BY <1>1, <1>10, <1>13, <1>14 DEF CallOK
<1>16. Shape'
  BY <1>1, <1>2, <1>4, <1>5, <1>11, <1>14 DEF Shape, airtable
<1>17. \A k \in Jobs : /\ job'[k].winner = job[k].winner
                       /\ job'[k].state = "IN_PROGRESS" => job[k].state = "IN_PROGRESS"
  BY <1>4
<1> QED
  BY <1>2, <1>7, <1>8, <1>11, <1>12, <1>14, <1>15, <1>16, <1>17, CoordinatorStep, WindowsStillMatch

-----------------------------------------------------------------------------
(* The theorems.                                                           *)

LEMMA Initially == ASSUME Init PROVE IInv
<1>1. /\ \A j \in Legacy : LegacyOwner[j] \in Therapists
      /\ Legacy \subseteq Jobs /\ Nobody \notin Therapists
      /\ Candidates \in [Jobs -> (SUBSET Therapists) \ {{}}]
  BY LegacyAssumption, PeopleAssumption DEF LegacyAssumption, PeopleAssumption
<1>2. Idle \in Calls /\ Idle.pc = "idle"
  BY DEF Idle, Calls, Places, Results, Answers
<1>3. Shape
  <2>1. job \in [Jobs -> [state : JobStates, winner : Therapists \union {Nobody}]]
    BY <1>1 DEF Init, JobStates
  <2>2. offer \in [Jobs -> [Therapists -> OfferStates]]
    BY DEF Init, OfferStates
  <2>3. window \in [Therapists -> [Jobs -> WindowStates]]
    BY DEF Init, WindowStates
  <2>4. row \in [Jobs -> [status : RowStates, owner : Therapists \union {Nobody}]]
    BY <1>1 DEF Init, RowStates
  <2>5. rows \in [Jobs -> Nat] /\ offerRows \in [Jobs -> [Therapists -> Nat]]
    BY DEF Init
  <2>6. call \in [Requests -> Calls]
    BY <1>2 DEF Init
  <2>7. expired \in [Jobs -> BOOLEAN] /\ faults \in 0..MaxFaults
    BY BoundsAssumption DEF BoundsAssumption, Init
  <2>8. answered = [j \in Jobs |-> answered[j]] /\ \A j \in Jobs : answered[j] = {}
    BY DEF Init
  <2> QED
    BY <2>1, <2>2, <2>3, <2>4, <2>5, <2>6, <2>7, <2>8 DEF Shape
<1>4. ASSUME NEW j \in Jobs
      PROVE  /\ j \in Legacy => /\ job[j].state = "ACCEPTED" /\ job[j].winner = LegacyOwner[j]
                                /\ rows[j] = 1 /\ row[j].status = "Accepted"
                                /\ row[j].owner = LegacyOwner[j]
             /\ j \notin Legacy => /\ job[j].state = "NONE" /\ job[j].winner = Nobody
                                   /\ row[j].status = "Offered" /\ row[j].owner = Nobody
             /\ \A t \in Therapists :
                    /\ window[t][j] = "none"
                    /\ offer[j][t] = IF j \notin Legacy THEN "none"
                                     ELSE IF LegacyOwner[j] = t THEN "ACCEPTED" ELSE "TAKEN"
  BY DEF Init
<1>5. \A j \in Jobs : JobOK(j)
  BY <1>1, <1>4 DEF JobOK
<1>6. AnsweredOK
  BY DEF Init, AnsweredOK
<1>7. OneKey => WinnerAnswered
  BY <1>4, PeopleAssumption DEF PeopleAssumption, OneKey, WinnerAnswered
<1>8. WindowOK
  BY <1>1, <1>4, LegacyAssumption DEF LegacyAssumption, WindowOK, Holds, Blocking
<1>9. ASSUME NEW j \in Jobs PROVE RowOK(j)
  <2>1. CASE j \in Legacy
    <3>1. /\ row[j].owner = LegacyOwner[j] /\ job[j].winner = LegacyOwner[j]
          /\ row[j].status = "Accepted"
      BY <1>4, <2>1
    <3>2. rows[j] # 0
      BY <1>4, <2>1
    <3> QED
      BY <3>1, <3>2 DEF RowOK
  <2>2. CASE j \notin Legacy
    BY <1>4, <2>2 DEF RowOK
  <2> QED
    BY <2>1, <2>2
<1>10. \A r \in Requests : CallOK(r)
  BY <1>2 DEF Init, CallOK
<1> QED
  BY <1>3, <1>5, <1>6, <1>7, <1>8, <1>9, <1>10 DEF IInv

LEMMA Inductive == ASSUME IInv, [Next]_vars PROVE IInv'
<1>1. ASSUME NEW r \in Requests, Begins(r) PROVE IInv'
  BY <1>1, MatchLookStep, OpenStep, CompleteOpenStep, CancelStep, DeclineStep DEF Begins
<1>2. ASSUME NEW r \in Requests, CreateJob(r) \/ CreateOffer(r) \/ Initialize(r) PROVE IInv'
  BY <1>2, CreateJobStep, CreateOfferStep, InitializeStep
<1>3. ASSUME NEW r \in Requests, List(r) \/ Reserve(r) \/ Mark(r) PROVE IInv'
  BY <1>3, ListStep, ReserveStep, MarkStep
<1>4. ASSUME NEW r \in Requests, Accept(r) \/ Transition(r) PROVE IInv'
  BY <1>4, AcceptStep, TransitionStep
<1>5. ASSUME NEW r \in Requests, Settle(r) \/ Project(r) PROVE IInv'
  BY <1>5, SettleStep, ProjectStep
<1>6. ASSUME NEW r \in Requests, Stop(r) PROVE IInv'
  BY <1>6, StopStep
<1>7. ASSUME NEW j \in Jobs, Expire(j) PROVE IInv'
  BY <1>7, ExpireStep
<1>8. ASSUME UNCHANGED vars PROVE IInv'
  <2>1. UNCHANGED <<authority, expired, window, airtable, call, faults>>
    BY <1>8 DEF vars, authority, airtable
  <2>2. Shape'
    BY <2>1 DEF IInv, Shape, authority, airtable
  <2>3. Progress /\ WindowKept
    BY <2>1, ProgressStill, WindowStill
  <2>4. (\A k \in Jobs : JobOK(k)') /\ AnsweredOK' /\ (OneKey => WinnerAnswered')
    BY <2>1, AuthorityStill DEF IInv
  <2>5. OneKey => WindowOK'
    BY <2>1 DEF IInv, WindowOK, Holds, Lost, authority
  <2>6. \A k \in Jobs : RowOK(k)'
    BY <2>1, <2>3, RowStill DEF IInv, airtable
  <2>7. \A r \in Requests : CallOK(r)'
    BY <2>1, <2>3, CallStill DEF IInv
  <2> QED
    BY <2>2, <2>4, <2>5, <2>6, <2>7 DEF IInv
<1> QED
  BY <1>1, <1>2, <1>3, <1>4, <1>5, <1>6, <1>7, <1>8 DEF Next, Steps

(* The invariant holds for ever; what it says of windows, when a therapist  *)
(* accepts a job with one key.                                              *)
THEOREM Invariant == Spec => []IInv
<1>1. Init => IInv
  BY Initially
<1>2. IInv /\ [Next]_vars => IInv'
  BY Inductive
<1> QED
  BY <1>1, <1>2, PTL DEF Spec

(* Every variable keeps the shape the code gives it, with whatever keys. *)
THEOREM DispatchTypeCorrect == Spec => []TypeOK
<1>1. IInv => TypeOK
  <2> SUFFICES ASSUME IInv PROVE TypeOK
    OBVIOUS
  <2>1. \A r \in Requests : CallType(r)
    BY DEF IInv, Shape, Calls, Places, CallType
  <2> QED
    BY <2>1 DEF IInv, Shape, Answer, TypeOK
<1> QED
  BY <1>1, Invariant, PTL

LEMMA OwnsHolds ==
    ASSUME OneKey, IInv, NEW t \in Therapists, NEW j \in Jobs, Owns(t, j)
    PROVE  Holds(t, j) /\ (j \notin Legacy => window[t][j] \in Blocking)
<1>1. ~Lost(t, j)
  BY PeopleAssumption DEF PeopleAssumption, Owns, Live, Lost, Gone, Over
<1>2. j \notin Legacy => window[t][j] # "none" /\ window[t][j] # "RELEASED"
  BY <1>1 DEF IInv, WindowOK, Owns
<1>3. window[t][j] \in WindowStates
  BY DEF IInv, Shape
<1>4. j \in Legacy => LegacyOwner[j] = t
  BY DEF IInv, JobOK, Owns
<1> QED
  BY <1>1, <1>2, <1>3, <1>4 DEF Holds, WindowStates, Blocking

(* No therapist is ever given two jobs at one time, however the handlers of *)
(* any number of requests interleave and wherever they stop.                *)
THEOREM NeverDoubleBooked == ASSUME OneKey PROVE Spec => []NoDoubleBooking
<1>1. IInv => NoDoubleBooking
  BY OwnsHolds DEF IInv, WindowOK, NoDoubleBooking
<1> QED
  BY <1>1, Invariant, PTL

(* Whoever has a job holds its window until the job is over. *)
THEOREM WindowStaysWithOwner == ASSUME OneKey PROVE Spec => []OwnerKeepsWindow
<1>1. IInv => OwnerKeepsWindow
  BY OwnsHolds DEF IInv, WindowOK, OwnerKeepsWindow, ServiceBlocks
<1> QED
  BY <1>1, Invariant, PTL

(* Airtable never names a therapist who did not win, nor a state not reached, *)
(* with whatever keys a therapist accepts.                                    *)
THEOREM AirtableFollows == Spec => []RowFollows
<1>1. IInv => RowFollows
  BY DEF IInv, RowOK, RowFollows, Begun, Over
<1> QED
  BY <1>1, Invariant, PTL

-----------------------------------------------------------------------------
(* Windows that are nobody's: without handlers that stop, somebody is      *)
(* about to release them.  The number of keys does not matter here.        *)

(* the accept of t that waits for the answer, or was told that j is lost *)
Asking(r, t, j) ==
    r.op = "accept" /\ r.who = t /\ r.job = j /\ call[r].pc \in {"claim", "settle"}

(* the handler that ended the job of t *)
Ending(r, t, j) ==
    /\ r.job = j /\ call[r].pc = "settle"
    /\ \/ r.op = "complete" /\ r.who = t
       \/ r.op = "cancel" /\ call[r].result.winner = t

InCharge(t, j) ==
    IF job[j].winner # t THEN \E r \in Requests : Asking(r, t, j)
    ELSE \E r \in Requests : Ending(r, t, j)

Stray(t, j) == window[t][j] \in Blocking /\ ~Owns(t, j)

InHand == \A t \in Therapists : \A j \in Jobs \ Legacy : Stray(t, j) => InCharge(t, j)

(* an accept asks of a job that was offered, so its answer decides it *)
AcceptsOpened ==
    \A r \in Requests :
        r.op = "accept" /\ call[r].pc \in {"list", "reserve", "claim"}
            => job[r.job].state # "NONE"
AcceptsDecided ==
    \A j \in Jobs : \A a \in answered[j] : a.op = "accept" => a.result.state # "CHECKING"

WinnersReserved ==
    \A t \in Therapists : \A j \in Jobs \ Legacy :
        job[j].winner = t => window[t][j] # "none"

LetGo ==
    /\ AcceptsOpened
    /\ AcceptsDecided
    /\ WinnersReserved
    /\ faults = 0 => InHand

(* the handlers in charge are not the one that moved *)
LEMMA OthersInCharge ==
    ASSUME NEW r \in Requests, \A s \in Requests \ {r} : call'[s] = call[s],
           NEW t \in Therapists, NEW j \in Jobs, job'[j].winner = job[j].winner,
           InCharge(t, j), ~Asking(r, t, j), ~Ending(r, t, j)
    PROVE  InCharge(t, j)'
BY DEF InCharge, Asking, Ending

LEMMA HandElsewhere ==
    ASSUME InHand, NEW r \in Requests, \A s \in Requests \ {r} : call'[s] = call[s],
           call[r].pc \notin {"claim", "settle"},
           \A j \in Jobs : job'[j].winner = job[j].winner,
           \A t \in Therapists : \A j \in Jobs \ Legacy :
               Stray(t, j)' => Stray(t, j) \/ InCharge(t, j)'
    PROVE  InHand'
<1>1. ASSUME NEW t \in Therapists, NEW j \in Jobs \ Legacy, Stray(t, j)'
      PROVE  InCharge(t, j)'
  <2>1. ~Asking(r, t, j) /\ ~Ending(r, t, j)
    BY DEF Asking, Ending
  <2> QED
    BY <1>1, <2>1, OthersInCharge DEF InHand
<1> QED
  BY <1>1 DEF InHand

(* a step that changes neither the jobs' states nor the windows *)
LEMMA LetGoQuiet ==
    ASSUME LetGo, NEW r \in Requests, \A s \in Requests \ {r} : call'[s] = call[s],
           UNCHANGED <<job, answered, window, faults>>,
           call[r].pc \notin {"claim", "settle"},
           r.op = "accept" /\ call'[r].pc \in {"list", "reserve", "claim"}
               => job[r.job].state # "NONE"
    PROVE  LetGo'
<1>1. AcceptsOpened' /\ AcceptsDecided' /\ WinnersReserved'
  BY DEF LetGo, AcceptsOpened, AcceptsDecided, WinnersReserved
<1>2. \A t \in Therapists : \A j \in Jobs : Stray(t, j)' = Stray(t, j)
  BY DEF Stray, Owns
<1>3. faults = 0 => InHand'
  BY <1>2, HandElsewhere DEF LetGo
<1> QED
  BY <1>1, <1>3 DEF LetGo

LEMMA LetGoStill ==
    ASSUME LetGo, UNCHANGED <<job, window, call, faults>>,
           \A j \in Jobs : \A a \in answered'[j] :
               a \in answered[j] \/ a.op # "accept"
    PROVE  LetGo'
BY DEF LetGo, AcceptsOpened, AcceptsDecided, WinnersReserved, InHand, Stray, Owns,
       InCharge, Asking, Ending

LEMMA Remembered ==
    ASSUME Shape, NEW r \in Requests, NEW result, Remember(r, result)
    PROVE  \A j \in Jobs : \A a \in answered'[j] :
               a \in answered[j] \/ (Replay(r) = {} /\ a.op = r.op /\ a.result = result)
<1>1. answered = [j \in Jobs |-> answered[j]] /\ r.job \in Jobs
  BY PeopleAssumption DEF Shape, PeopleAssumption
<1>2. CASE Replay(r) # {}
  BY <1>2 DEF Remember
<1>3. CASE Replay(r) = {}
  BY <1>1, <1>3 DEF Remember
<1> QED
  BY <1>2, <1>3

LEMMA AcceptDecides ==
    ASSUME Shape, NEW j \in Jobs, NEW t \in Therapists, NEW late, job[j].state # "NONE"
    PROVE  AcceptState(j, t, late) # "CHECKING"
<1>1. job[j].state \in JobStates /\ offer[j][t] \in OfferStates
  BY DEF Shape
<1> QED
  BY <1>1 DEF AcceptState, JobStates, OfferStates

(* where an answer of the coordinator sends a handler *)
LEMMA TakesTo ==
    ASSUME Shape, NEW r \in Requests, NEW result \in Results, Takes(r, result),
           r.op \in {"accept", "start", "complete"}
    PROVE  /\ \A s \in Requests \ {r} : call'[s] = call[s]
           /\ call'[r].pc = After(r, result.state)
<1> DEFINE next == After(r, result.state)
           c == IF next = "idle" THEN Idle ELSE [call[r] EXCEPT !.pc = next, !.result = result]
<1>1. call[r] \in Calls /\ Idle.pc = "idle"
  BY DEF Shape, Idle
<1> HIDE DEF next
<1>2. c.pc = next
  BY <1>1 DEF Calls
<1>3. call' = [call EXCEPT ![r] = c]
  BY DEF Takes, next
<1> HIDE DEF c
<1>4. call'[r] = c /\ \A s \in Requests \ {r} : call'[s] = call[s]
  BY <1>3 DEF Shape
<1> QED
  BY <1>2, <1>4 DEF next

(* the handlers on their way to the coordinators, and back in Airtable *)
LEMMA LetGoQuietSteps ==
    ASSUME IInv, LetGo, NEW r \in Requests,
           \/ MatchLook(r) \/ Open(r) \/ CompleteOpen(r) \/ CreateJob(r)
           \/ CreateOffer(r) \/ List(r) \/ Project(r)
    PROVE  LetGo'
<1>0. Shape /\ r.job \in Jobs /\ call[r] \in Calls
  BY PeopleAssumption DEF IInv, Shape, PeopleAssumption
<1>1. UNCHANGED <<job, answered, window, faults>> /\ call[r].pc \notin {"claim", "settle"}
  BY DEF MatchLook, Open, CompleteOpen, CreateJob, CreateOffer, List, Project, Enters,
         At, authority
<1>2. \A s \in Requests \ {r} : call'[s] = call[s]
  BY <1>0 DEF MatchLook, Open, CompleteOpen, CreateJob, CreateOffer, List, Project,
              Enters, Goes, Ends, Shape
<1>3. r.op = "accept" /\ call'[r].pc \in {"list", "reserve", "claim"}
        => job[r.job].state # "NONE"
  <2>1. CASE Open(r)
    BY <2>1 DEF Open, Readable, Owned
  <2>2. CASE List(r)
    BY <2>2 DEF List, At, LetGo, AcceptsOpened
  <2>3. CASE Project(r)
    BY <1>0, <2>3 DEF Project, Ends, Idle, Shape
  <2>4. CASE MatchLook(r) \/ CompleteOpen(r) \/ CreateJob(r) \/ CreateOffer(r)
    BY <2>4 DEF MatchLook, CompleteOpen, CreateJob, CreateOffer, At
  <2> QED
    BY <2>1, <2>2, <2>3, <2>4
<1> QED
  BY <1>1, <1>2, <1>3, LetGoQuiet

LEMMA LetGoInitialize ==
    ASSUME IInv, LetGo, NEW r \in Requests, Initialize(r) PROVE LetGo'
<1> DEFINE j == r.job
<1>0. Shape /\ j \in Jobs /\ call[r] \in Calls
  BY PeopleAssumption DEF IInv, Shape, PeopleAssumption
<1>1. /\ UNCHANGED <<answered, window, faults>> /\ r.op = "match"
      /\ call[r].pc = "initialize"
      /\ \A s \in Requests \ {r} : call'[s] = call[s]
  BY <1>0 DEF Initialize, At, Ends, Shape, airtable
<1>2. /\ \A k \in Jobs : job'[k].winner = job[k].winner
      /\ \A k \in Jobs : job'[k].state = job[k].state
                         \/ (job[k].state = "NONE" /\ job'[k].state = "OFFERED")
  BY <1>0 DEF Initialize, Shape
<1>3. AcceptsOpened' /\ AcceptsDecided' /\ WinnersReserved'
  BY <1>1, <1>2, PeopleAssumption
     DEF LetGo, AcceptsOpened, AcceptsDecided, WinnersReserved, PeopleAssumption
<1>4. \A t \in Therapists : \A k \in Jobs : Stray(t, k)' = Stray(t, k)
  BY <1>1, <1>2 DEF Stray, Owns, Live
<1>5. faults = 0 => InHand'
  BY <1>1, <1>2, <1>4, HandElsewhere DEF LetGo
<1> QED
  BY <1>1, <1>3, <1>5 DEF LetGo

(* a reservation is a window of its own handler, or was listed as the therapist's *)
LEMMA LetGoReserve ==
    ASSUME IInv, LetGo, NEW r \in Requests, Reserve(r) PROVE LetGo'
<1> DEFINE t == r.who
           j == r.job
           active == call[r].active
           held == Seeded(t, active)
           new == Reserved(held, j)
<1>1. /\ Shape /\ j \in Jobs /\ t \in Therapists /\ r.op \in {"accept", "start"}
      /\ active \in [Jobs -> {"none", "SEEDED", "ACTIVE"}]
      /\ call[r].pc = "reserve"
  BY PeopleAssumption DEF IInv, PeopleAssumption, Reserve, At, Shape, Calls
<1>2. ListOK(r) /\ (r.op = "start" => job[j].winner = t)
  BY DEF IInv, CallOK, Reserve, At
<1>3. /\ window' = [window EXCEPT ![t] = new]
      /\ UNCHANGED <<job, answered, faults>>
      /\ IF new[j] = "none" THEN Ends(r)
         ELSE Goes(r, IF r.op = "accept" THEN "claim" ELSE "mark")
  BY DEF Reserve, authority
<1>4. /\ new \in [Jobs -> WindowStates]
      /\ \A k \in Jobs :
            /\ held[k] = IF window[t][k] = "none" THEN active[k] ELSE window[t][k]
            /\ new[k] = IF k = j /\ held[j] = "none" /\ ~Conflict(held, j) THEN "HELD" ELSE held[k]
  BY <1>1, ReservedWindows
<1> HIDE DEF new, held
<1>5. \A u \in Therapists : window'[u] = IF u = t THEN new ELSE window[u]
  BY <1>1, <1>3 DEF Shape
<1>6. /\ \A s \in Requests \ {r} : call'[s] = call[s]
      /\ call'[r].pc = IF new[j] = "none" THEN "idle"
                       ELSE IF r.op = "accept" THEN "claim" ELSE "mark"
  BY <1>1, <1>3 DEF Ends, Goes, Idle, Shape, Calls
<1>7. AcceptsOpened' /\ AcceptsDecided'
  BY <1>1, <1>3, <1>6 DEF LetGo, AcceptsOpened, AcceptsDecided
<1>8. WinnersReserved'
  BY <1>3, <1>4, <1>5 DEF LetGo, WinnersReserved
<1>9. ASSUME NEW u \in Therapists, NEW k \in Jobs \ Legacy, Stray(u, k)'
      PROVE  Stray(u, k) \/ InCharge(u, k)'
  <2>1. ~Owns(u, k)
    BY <1>3, <1>9 DEF Stray, Owns
  <2>2. CASE window'[u][k] = window[u][k]
    BY <1>9, <2>1, <2>2 DEF Stray
  <2>3. CASE u = t /\ window[t][k] = "none" /\ new[k] # "none"
    <3>1. job[k].winner # t
      BY <2>3 DEF LetGo, WinnersReserved
    <3>2. active[k] = "none"
      BY <1>2, <3>1 DEF ListOK
    <3>3. k = j /\ r.op = "accept"
      <4>1. held[k] = "none"
        BY <1>4, <2>3, <3>2
      <4>2. k = j
        BY <1>4, <2>3, <4>1
      <4> QED
        BY <1>1, <1>2, <3>1, <4>2
    <3>4. Asking(r, t, j)'
      BY <1>6, <2>3, <3>3 DEF Asking
    <3> QED
      BY <1>3, <2>3, <3>1, <3>3, <3>4 DEF InCharge
  <2>4. CASE u = t /\ window[t][k] # "none"
    BY <1>4, <1>5, <2>2, <2>4
  <2> QED
    BY <1>5, <1>9, <2>2, <2>3, <2>4 DEF Stray, Blocking
<1>10. faults = 0 => InHand'
  BY <1>1, <1>3, <1>6, <1>9, HandElsewhere DEF LetGo
<1> QED
  BY <1>3, <1>7, <1>8, <1>10 DEF LetGo

LEMMA LetGoMark ==
    ASSUME IInv, LetGo, NEW r \in Requests, Mark(r) PROVE LetGo'
<1>1. /\ Shape /\ r.job \in Jobs /\ r.who \in Therapists /\ r.op = "start"
      /\ call[r].pc = "mark" /\ UNCHANGED <<job, answered, faults>>
  BY PeopleAssumption DEF IInv, PeopleAssumption, Mark, At, authority
<1>2. \A s \in Requests \ {r} : call'[s] = call[s]
  BY <1>1 DEF Mark, Goes, Ends, Shape
<1>3. \A t \in Therapists : \A j \in Jobs :
         window'[t][j] = window[t][j]
         \/ (window[t][j] \in Blocking /\ window'[t][j] = "ACTIVE")
  <2>1. CASE UNCHANGED window
    BY <2>1
  <2>2. CASE /\ window[r.who][r.job] \in Blocking
             /\ window' = [window EXCEPT ![r.who][r.job] = "ACTIVE"]
    BY <1>1, <2>2 DEF Shape
  <2> QED
    BY <2>1, <2>2 DEF Mark
<1>4. AcceptsOpened' /\ AcceptsDecided' /\ WinnersReserved'
  BY <1>1, <1>2, <1>3 DEF LetGo, AcceptsOpened, AcceptsDecided, WinnersReserved
<1>5. \A t \in Therapists : \A j \in Jobs : Stray(t, j)' => Stray(t, j)
  BY <1>1, <1>3 DEF Stray, Owns
<1>6. faults = 0 => InHand'
  BY <1>1, <1>2, <1>5, HandElsewhere DEF LetGo
<1> QED
  BY <1>1, <1>4, <1>6 DEF LetGo

LEMMA LetGoSettle ==
    ASSUME IInv, LetGo, NEW r \in Requests, Settle(r) PROVE LetGo'
<1> DEFINE t == IF r.op = "cancel" THEN call[r].result.winner ELSE r.who
           j == r.job
<1>1. /\ Shape /\ j \in Jobs /\ UNCHANGED <<job, answered, faults>>
  BY PeopleAssumption DEF IInv, PeopleAssumption, Settle, authority
<1>2. /\ t \in Therapists
      /\ \A u \in Therapists : \A k \in Jobs :
            window'[u][k] = IF u = t /\ k = j /\ window[u][k] # "none" THEN "RELEASED" ELSE window[u][k]
  BY SettledWindows
<1> HIDE DEF t
<1>3. /\ \A s \in Requests \ {r} : call'[s] = call[s]
      /\ call'[r].pc \in {"idle", "project"}
  BY <1>1 DEF Settle, Goes, Ends, Idle, Shape, Calls
<1>4. AcceptsOpened' /\ AcceptsDecided' /\ WinnersReserved'
  BY <1>1, <1>2, <1>3 DEF LetGo, AcceptsOpened, AcceptsDecided, WinnersReserved
<1>5. ASSUME InHand, NEW u \in Therapists, NEW k \in Jobs \ Legacy, Stray(u, k)'
      PROVE  InCharge(u, k)'
  <2>1. Stray(u, k) /\ ~(u = t /\ k = j)
    BY <1>1, <1>2, <1>5 DEF Stray, Owns, Blocking
  <2>2. ~Asking(r, u, k) /\ ~Ending(r, u, k)
    BY <2>1 DEF Asking, Ending, t
  <2> QED
    BY <1>1, <1>3, <1>5, <2>1, <2>2, OthersInCharge DEF InHand
<1>6. faults = 0 => InHand'
  BY <1>5 DEF LetGo, InHand
<1> QED
  BY <1>1, <1>4, <1>6 DEF LetGo

(* an accept that is told it lost goes on to release its window *)
LEMMA LetGoAccept ==
    ASSUME IInv, LetGo, NEW r \in Requests, Accept(r) PROVE LetGo'
<1> DEFINE j == r.job
           t == r.who
           late == call[r].late
           s == AcceptState(j, t, late)
           wins == Wins(j, t, late)
           fresh == [state |-> s, winner |-> IF wins THEN t ELSE job[j].winner]
<1>1. /\ Shape /\ j \in Jobs /\ t \in Therapists /\ Nobody \notin Therapists
      /\ r.op = "accept" /\ JobOK(j) /\ Candidates[j] \subseteq Therapists
      /\ call[r].pc = "claim" /\ job[j].state # "NONE" /\ window[t][j] # "none"
      /\ UNCHANGED <<window, faults>>
  BY PeopleAssumption
     DEF IInv, CallOK, PeopleAssumption, Accept, At, LetGo, AcceptsOpened
<1>2. PICK result \in Results :
        /\ Takes(r, result) /\ result.state # "CHECKING"
        /\ result.state = "ACCEPTED" => job'[j].winner = t
        /\ \/ job' = job
           \/ wins /\ job' = [job EXCEPT ![j] = [state |-> "ACCEPTED", winner |-> t]]
  <2>1. CASE Replay(r) # {}
    <3>1. PICK a \in Replay(r) : Takes(r, a.result)
      BY <2>1 DEF Accept
    <3>2. a \in answered[j] /\ a.op = "accept" /\ a.who = t /\ job' = job
      BY <1>1, <2>1 DEF Replay, Accept
    <3>3. a.result \in Results /\ Sound("accept", t, job[j], offer[j][t], a.result)
      <4>1. Answer(a)
        BY <1>1, <3>2 DEF Shape
      <4>2. Sound(a.op, a.who, job[j], offer[j][a.who], a.result)
        BY <1>1, <3>2 DEF IInv, AnsweredOK
      <4> QED
        BY <3>2, <4>1, <4>2 DEF Answer
    <3>4. a.result.state # "CHECKING"
      BY <1>1, <3>2 DEF LetGo, AcceptsDecided
    <3> QED
      BY <3>1, <3>2, <3>3, <3>4 DEF Sound
  <2>2. CASE Replay(r) = {}
    <3>1. /\ Takes(r, fresh)
          /\ job' = IF wins THEN [job EXCEPT ![j] = [state |-> "ACCEPTED", winner |-> t]] ELSE job
      BY <2>2 DEF Accept
    <3>2. /\ s \in Answers /\ s # "CHECKING"
          /\ ~wins /\ job[j].winner # t => s # "ACCEPTED"
      <4>1. s \in Answers /\ (~wins /\ job[j].winner # t => s # "ACCEPTED")
        BY <1>1, AcceptAnswers
      <4>2. s # "CHECKING"
        BY <1>1, AcceptDecides
      <4> QED
        BY <4>1, <4>2
    <3>3. job[j].winner \in Therapists \union {Nobody}
      BY <1>1 DEF Shape
    <3> HIDE DEF s, wins
    <3>4. fresh \in Results /\ fresh.state = s
      BY <1>1, <3>2, <3>3 DEF Results
    <3>5. wins => job'[j].winner = t
      BY <1>1, <3>1 DEF Shape
    <3> QED
      BY <3>1, <3>2, <3>4, <3>5
  <2> QED
    BY <2>1, <2>2
<1>3. /\ \A k \in Jobs \ {j} : job'[k] = job[k]
      /\ job'[j] = job[j] \/ (/\ job[j].winner = Nobody
                              /\ job'[j].winner = t /\ job'[j].state = "ACCEPTED")
  BY <1>1, <1>2 DEF Shape, Wins
<1>4. /\ \A q \in Requests \ {r} : call'[q] = call[q]
      /\ call'[r].pc = IF result.state = "ACCEPTED" THEN "project" ELSE "settle"
  BY <1>1, <1>2, TakesTo DEF After
<1>5. AcceptsOpened'
  BY <1>1, <1>3, <1>4, PeopleAssumption DEF LetGo, AcceptsOpened, PeopleAssumption
<1>6. AcceptsDecided'
  <2>1. Remember(r, fresh) /\ s # "CHECKING"
    BY <1>1, AcceptDecides DEF Accept
  <2>2. fresh.state = s
    OBVIOUS
  <2> HIDE DEF s, wins, fresh
  <2>3. \A k \in Jobs : \A a \in answered'[k] : a \in answered[k] \/ a.result = fresh
    BY <1>1, <2>1, Remembered
  <2> QED
    BY <2>1, <2>2, <2>3 DEF LetGo, AcceptsDecided
<1>7. WinnersReserved'
  BY <1>1, <1>3 DEF LetGo, WinnersReserved
<1>8. ASSUME InHand, NEW u \in Therapists, NEW k \in Jobs \ Legacy, Stray(u, k)'
      PROVE  InCharge(u, k)'
  <2>1. job'[k].winner # u => job[k].winner # u
    BY <1>1, <1>3
  <2>2. Stray(u, k)
    BY <1>1, <1>3, <1>8 DEF Stray, Owns, Live
  <2>3. CASE job'[k].winner # u
    <3>1. PICK q \in Requests : Asking(q, u, k)
      BY <1>8, <2>1, <2>2, <2>3 DEF InHand, InCharge
    <3>2. Asking(q, u, k)'
      <4>1. CASE q # r
        BY <1>4, <3>1, <4>1 DEF Asking
      <4>2. CASE q = r
        BY <1>2, <1>4, <2>3, <3>1, <4>2 DEF Asking
      <4> QED
        BY <4>1, <4>2
    <3> QED
      BY <2>3, <3>2 DEF InCharge
  <2>4. CASE job'[k].winner = u
    <3>1. job[k] = job'[k]
      BY <1>3, <1>8, <2>4 DEF Stray, Owns, Live
    <3>2. PICK q \in Requests : Ending(q, u, k)
      BY <1>8, <2>2, <2>4, <3>1 DEF InHand, InCharge
    <3>3. Ending(q, u, k)'
      BY <1>1, <1>4, <3>2 DEF Ending
    <3> QED
      BY <2>4, <3>3 DEF InCharge
  <2> QED
    BY <2>3, <2>4
<1>9. faults = 0 => InHand'
  BY <1>8 DEF LetGo, InHand
<1> QED
  BY <1>1, <1>5, <1>6, <1>7, <1>9 DEF LetGo

(* who completes a job goes on to release its window *)
LEMMA LetGoTransition ==
    ASSUME IInv, LetGo, NEW r \in Requests, Transition(r) PROVE LetGo'
<1> DEFINE j == r.job
           t == r.who
           moves == job[j].state = From(r.op)
           s == IF job[j].winner # t THEN "TAKEN" ELSE IF moves THEN To(r.op) ELSE job[j].state
           fresh == [state |-> s, winner |-> Nobody]
           moved == job[j].winner = t /\ moves
<1>1. /\ Shape /\ j \in Jobs /\ t \in Therapists /\ Nobody \notin Therapists
      /\ r.op \in {"start", "complete"} /\ JobOK(j)
      /\ call[r].pc = "transition" /\ UNCHANGED <<window, faults>>
  BY PeopleAssumption DEF IInv, PeopleAssumption, Transition, At
<1>2. PICK result \in Results :
        /\ Takes(r, result)
        /\ \/ job' = job
           \/ moved /\ result.state = To(r.op) /\ job' = [job EXCEPT ![j].state = To(r.op)]
  <2>1. CASE Replay(r) # {}
    <3>1. PICK a \in Replay(r) : Takes(r, a.result)
      BY <2>1 DEF Transition
    <3>2. a \in answered[j] /\ job' = job
      BY <1>1, <2>1 DEF Replay, Transition
    <3>3. a.result \in Results
      BY <1>1, <3>2 DEF Shape, Answer
    <3> QED
      BY <3>1, <3>2, <3>3
  <2>2. CASE Replay(r) = {}
    <3>1. /\ Takes(r, fresh)
          /\ job' = IF moved THEN [job EXCEPT ![j].state = To(r.op)] ELSE job
      BY <2>2 DEF Transition
    <3>2. job[j] \in [state : JobStates, winner : Therapists \union {Nobody}]
      BY <1>1 DEF Shape
    <3>3. fresh \in Results /\ (moved => fresh.state = To(r.op))
      BY <1>1, <3>2 DEF Results, Answers, JobOK, Begun, Over, To
    <3> QED
      BY <3>1, <3>3
  <2> QED
    BY <2>1, <2>2
<1>3. /\ \A k \in Jobs : job'[k].winner = job[k].winner
      /\ \A k \in Jobs : \/ job'[k].state = job[k].state
                         \/ /\ k = j /\ job[j].winner = t
                            /\ job'[j].state = To(r.op) /\ result.state = To(r.op)
  <2>1. CASE job' = job
    BY <2>1
  <2>2. CASE moved /\ result.state = To(r.op) /\ job' = [job EXCEPT ![j].state = To(r.op)]
    <3>1. job[j] \in [state : JobStates, winner : Therapists \union {Nobody}]
      BY <1>1 DEF Shape
    <3>2. /\ job'[j].winner = job[j].winner /\ job'[j].state = To(r.op)
          /\ \A k \in Jobs \ {j} : job'[k] = job[k]
      BY <1>1, <2>2, <3>1 DEF Shape
    <3> QED
      BY <2>2, <3>2
  <2> QED
    BY <1>2, <2>1, <2>2
<1>4. /\ \A q \in Requests \ {r} : call'[q] = call[q]
      /\ call'[r].pc = After(r, result.state)
  BY <1>1, <1>2, TakesTo
<1>5. AcceptsOpened'
  BY <1>1, <1>3, <1>4, PeopleAssumption DEF LetGo, AcceptsOpened, PeopleAssumption, To
<1>6. AcceptsDecided'
  <2>1. Remember(r, fresh)
    BY DEF Transition
  <2> HIDE DEF fresh
  <2>2. \A k \in Jobs : \A a \in answered'[k] : a \in answered[k] \/ a.op = r.op
    BY <1>1, <2>1, Remembered
  <2> QED
    BY <1>1, <2>2 DEF LetGo, AcceptsDecided
<1>7. WinnersReserved'
  BY <1>1, <1>3 DEF LetGo, WinnersReserved
<1>8. ASSUME NEW u \in Therapists, NEW k \in Jobs \ Legacy, Stray(u, k)'
      PROVE  Stray(u, k) \/ InCharge(u, k)'
  <2>1. CASE job'[k].state = job[k].state
    BY <1>1, <1>3, <1>8, <2>1 DEF Stray, Owns
  <2>2. CASE job'[k].state # job[k].state
    <3>1. k = j /\ job[j].winner = t /\ job'[j].state = To(r.op) /\ result.state = To(r.op)
      BY <1>3, <2>2
    <3>2. CASE u # t
      BY <1>1, <1>8, <3>1, <3>2 DEF Stray, Owns
    <3>3. CASE u = t
      <4>1. r.op = "complete" /\ result.state = "COMPLETED"
        BY <1>1, <1>3, <1>8, <3>1, <3>3 DEF Stray, Owns, Live, To
      <4>2. Ending(r, t, j)'
        BY <1>4, <4>1 DEF Ending, After
      <4> QED
        BY <1>3, <3>1, <3>3, <4>2 DEF InCharge
    <3> QED
      BY <3>2, <3>3
  <2> QED
    BY <2>1, <2>2
<1>9. faults = 0 => InHand'
  BY <1>1, <1>3, <1>4, <1>8, HandElsewhere DEF LetGo
<1> QED
  BY <1>1, <1>5, <1>6, <1>7, <1>9 DEF LetGo

(* who cancels a job goes on to release its winner's window *)
LEMMA LetGoCancel ==
    ASSUME IInv, LetGo, NEW r \in Requests, Cancel(r) PROVE LetGo'
<1> DEFINE j == r.job
           fresh == [state |-> IF job[j].state = "NONE" THEN "CHECKING"
                               ELSE IF job[j].state = "COMPLETED" THEN "COMPLETED" ELSE "CANCELLED",
                     winner |-> job[j].winner]
           withdraws == job[j].state \in {"OFFERED"} \union Live
<1>1. /\ Shape /\ j \in Jobs /\ Nobody \notin Therapists /\ r.op = "cancel"
      /\ call[r].pc = "idle" /\ UNCHANGED <<window, faults>>
  BY PeopleAssumption DEF IInv, PeopleAssumption, Cancel
<1>2. /\ \A q \in Requests \ {r} : call'[q] = call[q]
      /\ \A k \in Jobs : job'[k].winner = job[k].winner
      /\ \A k \in Jobs : \/ job'[k].state = job[k].state
                         \/ /\ k = j /\ job'[j].state = "CANCELLED"
                            /\ Replay(r) = {} /\ withdraws
  <2>1. \A q \in Requests \ {r} : call'[q] = call[q]
    BY <1>1 DEF Cancel, Shape
  <2>2. CASE job' = job
    BY <2>1, <2>2
  <2>3. CASE /\ Replay(r) = {} /\ withdraws
             /\ job' = [job EXCEPT ![j].state = "CANCELLED"]
    <3>1. job[j] \in [state : JobStates, winner : Therapists \union {Nobody}]
      BY <1>1 DEF Shape
    <3>2. /\ job'[j].winner = job[j].winner /\ job'[j].state = "CANCELLED"
          /\ \A k \in Jobs \ {j} : job'[k] = job[k]
      BY <1>1, <2>3, <3>1 DEF Shape
    <3> QED
      BY <2>1, <2>3, <3>2
  <2> QED
    BY <2>2, <2>3 DEF Cancel
<1>3. Replay(r) = {} /\ withdraws /\ job[j].winner # Nobody
        => call'[r].pc = "settle" /\ call'[r].result.winner = job[j].winner
  <2> SUFFICES ASSUME Replay(r) = {}, withdraws, job[j].winner # Nobody
               PROVE  call'[r].pc = "settle" /\ call'[r].result.winner = job[j].winner
    OBVIOUS
  <2>1. fresh.state = "CANCELLED" /\ fresh.winner = job[j].winner
    BY DEF Live
  <2>2. call' = [call EXCEPT ![r].result = fresh,
                             ![r].pc = IF fresh.state = "CANCELLED" /\ fresh.winner # Nobody
                                       THEN "settle" ELSE "project"]
    BY DEF Cancel
  <2> HIDE DEF fresh
  <2>3. call[r] \in Calls
    BY <1>1 DEF Shape
  <2> QED
    BY <1>1, <2>1, <2>2, <2>3 DEF Shape, Calls
<1>4. AcceptsOpened'
  BY <1>1, <1>2, PeopleAssumption DEF LetGo, AcceptsOpened, PeopleAssumption
<1>5. AcceptsDecided'
  <2>1. Remember(r, fresh)
    BY DEF Cancel
  <2> HIDE DEF fresh
  <2>2. \A k \in Jobs : \A a \in answered'[k] : a \in answered[k] \/ a.op = r.op
    BY <1>1, <2>1, Remembered
  <2> QED
    BY <1>1, <2>2 DEF LetGo, AcceptsDecided
<1>6. WinnersReserved'
  BY <1>1, <1>2 DEF LetGo, WinnersReserved
<1>7. ASSUME NEW u \in Therapists, NEW k \in Jobs \ Legacy, Stray(u, k)'
      PROVE  Stray(u, k) \/ InCharge(u, k)'
  <2>1. CASE job'[k].state = job[k].state \/ job[k].winner # u
    BY <1>1, <1>2, <1>7, <2>1 DEF Stray, Owns
  <2>2. CASE job'[k].state # job[k].state /\ job[k].winner = u
    <3>1. k = j /\ Ending(r, u, k)'
      BY <1>1, <1>2, <1>3, <2>2 DEF Ending
    <3> QED
      BY <1>2, <2>2, <3>1 DEF InCharge
  <2> QED
    BY <2>1, <2>2
<1>8. faults = 0 => InHand'
  BY <1>1, <1>2, <1>7, HandElsewhere DEF LetGo
<1> QED
  BY <1>1, <1>4, <1>5, <1>6, <1>8 DEF LetGo

(* a handler that stops leaves what it had in hand: nothing is said then *)
LEMMA LetGoStop ==
    ASSUME IInv, LetGo, NEW r \in Requests, Stop(r) PROVE LetGo'
<1>1. /\ Shape /\ UNCHANGED <<job, answered, window>> /\ faults' # 0
  BY BoundsAssumption DEF IInv, Shape, Stop, authority, BoundsAssumption
<1>2. /\ \A s \in Requests \ {r} : call'[s] = call[s]
      /\ call'[r].pc = "idle"
  BY <1>1 DEF Stop, Ends, Idle, Shape
<1> QED
  BY <1>1, <1>2 DEF LetGo, AcceptsOpened, AcceptsDecided, WinnersReserved

LEMMA LetGoDecline ==
    ASSUME IInv, LetGo, NEW r \in Requests, Decline(r) PROVE LetGo'
<1>1. /\ Shape /\ r.op = "decline" /\ UNCHANGED <<job, window, call, faults>>
      /\ \E result : Remember(r, result)
  BY DEF IInv, Decline
<1> QED
  BY <1>1, Remembered, LetGoStill

LEMMA LetGoInit == ASSUME Init PROVE LetGo
<1>1. /\ \A r \in Requests : call[r].pc = "idle"
      /\ \A j \in Jobs : answered[j] = {}
      /\ \A j \in Jobs \ Legacy : job[j].winner = Nobody
      /\ \A t \in Therapists : \A j \in Jobs : window[t][j] = "none"
  BY DEF Init, Idle
<1> QED
  BY <1>1, PeopleAssumption
     DEF PeopleAssumption, LetGo, AcceptsOpened, AcceptsDecided, WinnersReserved, InHand,
         Stray, Blocking

LEMMA LetGoKept == ASSUME IInv, LetGo, [Next]_vars PROVE LetGo'
<1>1. ASSUME NEW r \in Requests, Begins(r) \/ Steps(r) \/ Stop(r)
      PROVE  LetGo'
  BY <1>1, LetGoQuietSteps, LetGoInitialize, LetGoReserve, LetGoMark, LetGoSettle,
     LetGoAccept, LetGoTransition, LetGoCancel, LetGoDecline, LetGoStop
     DEF Begins, Steps
<1>2. CASE \E j \in Jobs : Expire(j)
  BY <1>2, LetGoStill DEF Expire, authority
<1>3. CASE UNCHANGED vars
  BY <1>3, LetGoStill DEF vars
<1> QED
  BY <1>1, <1>2, <1>3 DEF Next

(* While no handler has stopped, a window that blocks a therapist's time   *)
(* for a job that is not the therapist's to do (another has it, nobody has *)
(* it yet, or it is over) is in the hands of a handler that will release   *)
(* it or be given the job: the accept that reserved it and is at the       *)
(* coordinator or was told it lost, or whoever completed or cancelled the  *)
(* job.  No window is left to somebody who was already answered.           *)
THEOREM StrayWindowsInHand ==
    Spec => [](faults = 0 =>
                 \A t \in Therapists : \A j \in Jobs \ Legacy :
                     window[t][j] \in Blocking /\ ~Owns(t, j) => InCharge(t, j))
<1> DEFINE Held == faults = 0 =>
                     \A t \in Therapists : \A j \in Jobs \ Legacy :
                         window[t][j] \in Blocking /\ ~Owns(t, j) => InCharge(t, j)
<1>1. Init => LetGo
  BY LetGoInit
<1>2. IInv /\ LetGo /\ [Next]_vars => LetGo'
  BY LetGoKept
<1>3. LetGo => Held
  BY DEF LetGo, InHand, Stray
<1> QED
  BY <1>1, <1>2, <1>3, Invariant, PTL DEF Spec

-----------------------------------------------------------------------------
(* Refinement: every step is a step of DispatchAssignment, or a stutter.   *)

states == [j \in Jobs |-> job[j].state]
winners == [j \in Jobs |-> job[j].winner]

LEMMA Stutter ==
    ASSUME UNCHANGED job PROVE UNCHANGED <<states, winners>>
BY DEF states, winners

(* a step of one job *)
LEMMA OneJobMoves ==
    ASSUME NEW j \in Jobs, \A k \in Jobs \ {j} : job'[k] = job[k]
    PROVE  /\ states' = [states EXCEPT ![j] = job'[j].state]
           /\ winners' = [winners EXCEPT ![j] = job'[j].winner]
BY DEF states, winners

LEMMA AcceptRefines ==
    ASSUME OneKey, IInv, NEW r \in Requests, Accept(r)
    PROVE  [Assignment!Next]_Assignment!vars
<1> DEFINE j == r.job
           t == r.who
           wins == Wins(j, t, call[r].late)
<1>1. /\ Shape /\ j \in Jobs /\ t \in Therapists /\ Nobody \notin Therapists
      /\ JobOK(j) /\ Candidates[j] \subseteq Therapists
  BY PeopleAssumption DEF IInv, PeopleAssumption, Accept, At
<1>2. job' = job \/ (wins /\ job' = [job EXCEPT ![j] = [state |-> "ACCEPTED", winner |-> t]])
  BY DEF Accept
<1>3. CASE job' = job
  BY <1>3, Stutter DEF Assignment!vars, states, winners
<1>4. CASE wins /\ job' = [job EXCEPT ![j] = [state |-> "ACCEPTED", winner |-> t]]
  <2>1. job[j].state = "OFFERED" /\ job[j].winner = Nobody /\ offer[j][t] = "OFFERED"
    BY <1>1, <1>4, AcceptAnswers DEF Wins
  <2>2. ~Lost(t, j)
    BY <2>1 DEF Lost, Gone, Over
  <2>3. window[t][j] # "none" /\ window[t][j] # "RELEASED" /\ window[t][j] \in WindowStates
    BY <1>1, <2>2 DEF IInv, CallOK, Accept, At, WindowOK, Shape
  <2>4. Holds(t, j)
    BY <2>2, <2>3 DEF Holds, WindowStates, Blocking
  <2>5. ASSUME NEW k \in Jobs, job[k].winner = t, job[k].state \in Live
        PROVE  <<j, k>> \notin Overlaps
    <3>1. k # j
      BY <1>1, <2>1, <2>5
    <3>2. Holds(t, k)
      BY <1>1, <2>5, OwnsHolds DEF Owns
    <3> QED
      BY <1>1, <2>4, <3>1, <3>2 DEF IInv, WindowOK
  <2>6. /\ job'[j].state = "ACCEPTED" /\ job'[j].winner = t
        /\ \A k \in Jobs \ {j} : job'[k] = job[k]
    BY <1>1, <1>4 DEF Shape
  <2>7. /\ states' = [states EXCEPT ![j] = "ACCEPTED"]
        /\ winners' = [winners EXCEPT ![j] = t]
    BY <1>1, <2>6, OneJobMoves
  <2>8. Assignment!Free(t, j)
    BY <2>5 DEF Assignment!Free, Assignment!Live, Live
  <2>9. Assignment!Take(j, t)
    BY <1>1, <2>1, <2>7, <2>8 DEF Assignment!Take, states, winners
  <2> QED
    BY <1>1, <2>9 DEF Assignment!Next
<1> QED
  BY <1>2, <1>3, <1>4

(* a step that changes the state of one job and no winner *)
LEMMA OneStateMoves ==
    ASSUME Shape, NEW j \in Jobs, NEW s \in JobStates, job' = [job EXCEPT ![j].state = s]
    PROVE  states' = [states EXCEPT ![j] = s] /\ winners' = winners
<1>1. job[j] \in [state : JobStates, winner : Therapists \union {Nobody}]
  BY DEF Shape
<1>2. /\ job'[j].state = s /\ job'[j].winner = job[j].winner
      /\ \A k \in Jobs \ {j} : job'[k] = job[k]
  BY <1>1 DEF Shape
<1>3. states' = [states EXCEPT ![j] = s]
  BY <1>2, OneJobMoves
<1>4. winners' = winners
  BY <1>2 DEF winners
<1> QED
  BY <1>3, <1>4

LEMMA TransitionRefines ==
    ASSUME IInv, NEW r \in Requests, Transition(r)
    PROVE  [Assignment!Next]_Assignment!vars
<1> DEFINE j == r.job
<1>1. Shape /\ j \in Jobs /\ r.op \in {"start", "complete"}
  BY PeopleAssumption DEF IInv, PeopleAssumption, Transition, At
<1>2. job' = job \/ (job[j].state = From(r.op) /\ job' = [job EXCEPT ![j].state = To(r.op)])
  BY DEF Transition
<1>3. CASE job' = job
  BY <1>3, Stutter DEF Assignment!vars, states, winners
<1>4. CASE r.op = "start" /\ job[j].state = "ACCEPTED" /\ job' = [job EXCEPT ![j].state = "IN_PROGRESS"]
  <2>1. states' = [states EXCEPT ![j] = "IN_PROGRESS"] /\ winners' = winners
    BY <1>1, <1>4, OneStateMoves DEF JobStates
  <2>2. Assignment!Begin(j)
    BY <1>1, <1>4, <2>1 DEF Assignment!Begin, states, winners
  <2> QED
    BY <1>1, <2>2 DEF Assignment!Next
<1>5. CASE r.op = "complete" /\ job[j].state = "IN_PROGRESS" /\ job' = [job EXCEPT ![j].state = "COMPLETED"]
  <2>1. states' = [states EXCEPT ![j] = "COMPLETED"] /\ winners' = winners
    BY <1>1, <1>5, OneStateMoves DEF JobStates
  <2>2. Assignment!Finish(j)
    BY <1>1, <1>5, <2>1 DEF Assignment!Finish, states, winners
  <2> QED
    BY <1>1, <2>2 DEF Assignment!Next
<1> QED
  BY <1>1, <1>2, <1>3, <1>4, <1>5 DEF From, To

LEMMA InitializeRefines ==
    ASSUME IInv, NEW r \in Requests, Initialize(r)
    PROVE  [Assignment!Next]_Assignment!vars
<1> DEFINE j == r.job
           opened == IF job[j].state = "NONE" THEN "OFFERED" ELSE job[j].state
<1>1. Shape /\ j \in Jobs
  BY PeopleAssumption DEF IInv, PeopleAssumption
<1>2. job' = [job EXCEPT ![j].state = opened]
  BY DEF Initialize
<1>3. opened \in JobStates
  BY <1>1 DEF Shape, JobStates
<1>4. states' = [states EXCEPT ![j] = opened] /\ winners' = winners
  BY <1>1, <1>2, <1>3, OneStateMoves
<1>5. CASE job[j].state = "NONE"
  <2>1. Assignment!Offer(j)
    BY <1>1, <1>4, <1>5 DEF Assignment!Offer, states, winners
  <2> QED
    BY <1>1, <2>1 DEF Assignment!Next
<1>6. CASE job[j].state # "NONE"
  <2>1. states' = states
    BY <1>1, <1>4, <1>6 DEF states
  <2> QED
    BY <1>4, <2>1 DEF Assignment!vars, states, winners
<1> QED
  BY <1>5, <1>6

LEMMA CancelRefines ==
    ASSUME IInv, NEW r \in Requests, Cancel(r)
    PROVE  [Assignment!Next]_Assignment!vars
<1> DEFINE j == r.job
<1>1. Shape /\ j \in Jobs
  BY PeopleAssumption DEF IInv, PeopleAssumption
<1>2. \/ job' = job
      \/ job[j].state \in {"OFFERED"} \union Live /\ job' = [job EXCEPT ![j].state = "CANCELLED"]
  BY DEF Cancel
<1>3. CASE job' = job
  BY <1>3, Stutter DEF Assignment!vars, states, winners
<1>4. CASE job[j].state \in {"OFFERED"} \union Live /\ job' = [job EXCEPT ![j].state = "CANCELLED"]
  <2>1. states' = [states EXCEPT ![j] = "CANCELLED"] /\ winners' = winners
    BY <1>1, <1>4, OneStateMoves DEF JobStates
  <2>2. Assignment!Withdraw(j)
    BY <1>1, <1>4, <2>1 DEF Assignment!Withdraw, Assignment!Live, Live, states, winners
  <2> QED
    BY <1>1, <2>2 DEF Assignment!Next
<1> QED
  BY <1>2, <1>3, <1>4

(* Detailed dispatch implements the assignment it promises: the first who   *)
(* takes a job keeps it, only who is free takes one, and nothing reopens it. *)
THEOREM AssignmentKept == ASSUME OneKey PROVE Spec => KeepsAssignment
<1>1. Init => Assignment!Init
  <2> SUFFICES ASSUME Init PROVE Assignment!Init
    OBVIOUS
  <2>1. /\ \A j \in Legacy : LegacyOwner[j] \in Therapists
        /\ Nobody \notin Therapists
    BY LegacyAssumption, PeopleAssumption DEF LegacyAssumption, PeopleAssumption
  <2>2. ASSUME NEW j \in Jobs
        PROVE  /\ j \in Legacy => job[j].state = "ACCEPTED" /\ job[j].winner = LegacyOwner[j]
               /\ j \notin Legacy => job[j].state = "NONE" /\ job[j].winner = Nobody
    BY DEF Init
  <2> QED
    BY <2>1, <2>2 DEF Assignment!Init
<1>2. ASSUME IInv, [Next]_vars PROVE [Assignment!Next]_Assignment!vars
  <2>1. ASSUME NEW r \in Requests, Accept(r) PROVE [Assignment!Next]_Assignment!vars
    BY <1>2, <2>1, AcceptRefines
  <2>2. ASSUME NEW r \in Requests, Transition(r) \/ Initialize(r) \/ Cancel(r)
        PROVE  [Assignment!Next]_Assignment!vars
    BY <1>2, <2>2, TransitionRefines, InitializeRefines, CancelRefines
  <2>3. ASSUME UNCHANGED job PROVE [Assignment!Next]_Assignment!vars
    BY <2>3, Stutter DEF Assignment!vars, states, winners
  <2>4. ASSUME NEW r \in Requests,
               \/ MatchLook(r) \/ Open(r) \/ CompleteOpen(r) \/ Decline(r)
               \/ CreateJob(r) \/ CreateOffer(r) \/ List(r) \/ Reserve(r) \/ Mark(r)
               \/ Settle(r) \/ Project(r) \/ Stop(r)
        PROVE  UNCHANGED job
    BY <2>4 DEF MatchLook, Open, CompleteOpen, Decline, CreateJob, CreateOffer, List, Reserve,
                Mark, Settle, Project, Stop, authority
  <2>5. ASSUME NEW j \in Jobs, Expire(j) PROVE UNCHANGED job
    BY <2>5 DEF Expire, authority
  <2>6. UNCHANGED vars => UNCHANGED job
    BY DEF vars
  <2> QED
    BY <1>2, <2>1, <2>2, <2>3, <2>4, <2>5, <2>6 DEF Next, Begins, Steps
<1> QED
  BY <1>1, <1>2, Invariant, PTL DEF Spec, KeepsAssignment, Assignment!Spec
=============================================================================

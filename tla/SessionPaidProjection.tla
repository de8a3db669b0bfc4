------------------------ MODULE SessionPaidProjection ------------------------
(***************************************************************************)
(* The amount received for a session, and the payments it is derived from. *)
(*                                                                         *)
(* The payments of a session are rows in Airtable.  Official verification  *)
(* (handleNotify) finds the row of its reference or makes one, and sets it *)
(* to verified; a payment intent (handleVerify) makes a pending row where  *)
(* it finds none; activating the final payment makes one for what is still *)
(* due.  The first and the last then ask the session's coordinator, a      *)
(* Durable Object, to write the verified sum into the session              *)
(* (paid_received_sum): it stores the task, sets an alarm, reads the       *)
(* ledger twice, writes, reads back, and on failure tries again from the   *)
(* alarm, until it gives up to a person.                                   *)
(*                                                                         *)
(* Reads and writes may fail at any time, writes with or without effect;   *)
(* MaxEvictions bounds the evictions of the coordinator.                   *)
(***************************************************************************)
EXTENDS Integers, FiniteSetsExt, Functions

CONSTANTS
  Notices,       \* calls of the official verification
  Intents,       \* requests for a payment, before it is paid
  Activations,   \* activations of the final payment
  Nobody,
  Refs,          \* payment references
  FinalRef,      \* the reference of the final payment
  NoRef,
  RefOf,         \* the reference each call is about
  AmountOf,      \* the amount paid under each reference
  Total,         \* the price of the session
  MaxAttempts,
  Reversals,     \* payments may be reversed
  LatePatches,   \* a write that timed out may be made later
  MaxEvictions   \* bound

Callers == Notices \cup Intents \cup Activations

ASSUME CallersAssumption ==
  /\ Notices \cap Intents = {}
  /\ Notices \cap Activations = {}
  /\ Intents \cap Activations = {}
  /\ Nobody \notin Callers
  /\ RefOf \in [Callers -> Refs]
ASSUME PaymentsAssumption ==
  /\ FinalRef \in Refs
  /\ NoRef \notin Refs
  /\ \A a \in Activations : RefOf[a] = FinalRef
  /\ AmountOf \in [Refs -> Nat \ {0}]
  /\ Total \in Nat
ASSUME SizesAssumption == IsFiniteSet(Callers) /\ IsFiniteSet(Refs)
ASSUME BoundsAssumption ==
  /\ MaxAttempts \in Nat \ {0}
  /\ MaxEvictions \in Nat
  /\ {Reversals, LatePatches} \subseteq BOOLEAN

VARIABLES
  rows,        \* the payment rows, by the call that made each
  payStatus,   \* payment_status of the session
  shown,       \* paid_received_sum of the session; blank is 0
  flight,      \* sums in writes that timed out and may still be made
  call,        \* the state of each call
  pending,     \* the coordinator's storage: the task,
  alarm,       \* the alarm,
  lastResult,  \* and the result of the last attempt
  job,         \* what the coordinator is doing
  evictions

vars == <<rows, payStatus, shown, flight, call, pending, alarm, lastResult,
          job, evictions>>

-----------------------------------------------------------------------------
(* The ledger.                                                             *)

NoRow == [state |-> "none", amount |-> 0]
RowType == [state : {"none", "pending", "verified", "reversed"}, amount : Nat]
Ledger == [Callers -> RowType]
NoRows == [c \in Callers |-> NoRow]

RowsOf(ref) == {c \in Callers : RefOf[c] = ref /\ rows[c].state # "none"}
Verified(ledger) == {c \in Callers : ledger[c].state = "verified"}

\* Mutant: references are not compared.
Conflict_NoDuplicates(ledger) ==
  \E c \in Callers : ledger[c].state = "reversed"

\* What a ledger must not have to be summed: a reversed payment, or a reference
\* verified twice.
Conflict(ledger) ==
  \/ \E c \in Callers : ledger[c].state = "reversed"
  \/ \E c, d \in Verified(ledger) : c # d /\ RefOf[c] = RefOf[d]

Received(ledger) == SumFunction([c \in Verified(ledger) |-> ledger[c].amount])

Due == Max({0, Total - Received(rows)})

-----------------------------------------------------------------------------
Places == {"idle", "find", "write", "session", "look", "create", "ask", "done"}
Told == {"nothing", "ok", "retry_scheduled", "needs_review", "retry_required",
         "failed", "unknown"}

CallType ==
  [at : Places,
   found : Callers \cup {Nobody},   \* the row it found
   verified : BOOLEAN,              \* which was verified
   due : Nat,                       \* the balance it worked out
   told : Told]

NewCall == [at |-> "idle", found |-> Nobody, verified |-> FALSE, due |-> 0,
            told |-> "nothing"]

NoTask == [anchor |-> NoRef, attempts |-> -1]
Tasks == [anchor : Refs \cup {NoRef}, attempts : 0..(MaxAttempts + MaxEvictions)]

NoJob == [pc |-> "idle", by |-> Nobody, seen |-> NoRows]

JobType ==
  [pc : {"idle", "arm", "begin", "first", "fresh", "patch", "verify", "conclude",
         "transient", "final", "rearm", "clear", "disarm"},
   by : Callers \cup {Nobody},
   seen : Ledger]                   \* the ledger it last read

TypeOK ==
  /\ rows \in Ledger
  /\ payStatus \in {"unpaid", "partial", "paid"}
  /\ shown \in Nat
  /\ flight \subseteq Nat
  /\ call \in [Callers -> CallType]
  /\ pending \in Tasks \cup {NoTask}
  /\ alarm \in {"off", "set", "fired"}
  /\ lastResult \in {"none", "reconciling", "ok", "retry_scheduled",
                     "needs_review"}
  /\ job \in JobType
  /\ evictions \in 0..MaxEvictions

Init ==
  /\ rows = NoRows
  /\ payStatus = "unpaid"
  /\ shown = 0
  /\ flight = {}
  /\ call = [c \in Callers |-> NewCall]
  /\ pending = NoTask
  /\ alarm = "off"
  /\ lastResult = "none"
  /\ job = NoJob
  /\ evictions = 0

session == <<payStatus, shown, flight>>
storage == <<pending, alarm, lastResult>>

-----------------------------------------------------------------------------
(* The calls.                                                              *)

\* A call goes on, with nothing more to remember, or ends.
Goto(c, place) == call' = [call EXCEPT ![c] = [NewCall EXCEPT !.at = place]]
Tell(c, what) ==
  call' = [call EXCEPT ![c] = [NewCall EXCEPT !.at = "done", !.told = what]]

\* A write: made or not (hit), answered or not (bad).
Tried(hit, bad) == hit \/ bad

\* An intent ends where there is a row of its reference already.
Seek(i) ==
  /\ i \in Intents
  /\ call[i].at = "idle"
  /\ \/ RowsOf(RefOf[i]) = {} /\ Goto(i, "find")
     \/ RowsOf(RefOf[i]) # {} /\ Tell(i, "ok")
     \/ Tell(i, "failed")
  /\ UNCHANGED <<rows, session, storage, job, evictions>>

\* createOrUpdatePaymentIntent looks for a row of the reference ...
Find(c) ==
  /\ \/ c \in Notices /\ call[c].at = "idle"
     \/ c \in Intents /\ call[c].at = "find"
  /\ \/ /\ RowsOf(RefOf[c]) = {}
        /\ Goto(c, "write")
     \/ \E d \in RowsOf(RefOf[c]) :
          call' = [call EXCEPT ![c].at = "write", ![c].found = d,
                               ![c].verified = rows[d].state = "verified"]
     \/ Tell(c, "failed")
  /\ UNCHANGED <<rows, session, storage, job, evictions>>

\* Mutant: that the row found was verified is not kept.
Write_NotKept(c) ==
  LET target == IF call[c].found = Nobody THEN c ELSE call[c].found
      row == [state  |-> IF c \in Notices THEN "verified" ELSE "pending",
              amount |-> AmountOf[RefOf[c]]]
  IN  /\ call[c].at = "write"
      /\ \E hit, bad \in BOOLEAN :
           /\ Tried(hit, bad)
           /\ rows' = IF hit THEN [rows EXCEPT ![target] = row] ELSE rows
           /\ IF bad THEN Tell(c, "failed")
              ELSE IF c \in Notices THEN Goto(c, "session") ELSE Tell(c, "ok")
      /\ UNCHANGED <<session, storage, job, evictions>>

\* ... and then updates it, or makes one.
Write(c) ==
  LET target == IF call[c].found = Nobody THEN c ELSE call[c].found
      row == [state  |-> IF c \in Notices \/ call[c].verified
                         THEN "verified" ELSE "pending",
              amount |-> AmountOf[RefOf[c]]]
  IN  /\ call[c].at = "write"
      /\ \E hit, bad \in BOOLEAN :
           /\ Tried(hit, bad)
           /\ rows' = IF hit THEN [rows EXCEPT ![target] = row] ELSE rows
           /\ IF bad THEN Tell(c, "failed")
              ELSE IF c \in Notices THEN Goto(c, "session") ELSE Tell(c, "ok")
      /\ UNCHANGED <<session, storage, job, evictions>>

\* updateSessionFromPayment: a deposit makes the session partly paid, the final
\* payment paid.
Session(n) ==
  /\ call[n].at = "session"
  /\ \E hit, bad \in BOOLEAN :
       /\ Tried(hit, bad)
       /\ payStatus' = IF ~hit THEN payStatus
                       ELSE IF RefOf[n] = FinalRef THEN "paid" ELSE "partial"
       /\ IF bad THEN Tell(n, "failed") ELSE Goto(n, "ask")
  /\ UNCHANGED <<rows, shown, flight, storage, job, evictions>>

\* Activation works out what is due from the ledger; a deposit must be verified
\* as long as something is.
Balance(a) ==
  /\ a \in Activations
  /\ call[a].at = "idle"
  /\ \/ /\ ~Conflict(rows)
        /\ Due > 0 => \E c \in Verified(rows) : RefOf[c] # FinalRef
        /\ call' = [call EXCEPT ![a].at = "look", ![a].due = Due]
     \/ Tell(a, "failed")
  /\ UNCHANGED <<rows, session, storage, job, evictions>>

\* A final row can be used again if it is settled, or asks for what is due.
Reusable(row, due) ==
  IF row.state = "verified" THEN due = 0
  ELSE row.amount > 0 /\ row.amount = due

\* It then looks for the row of the final payment: there may be one at most.
Look(a) ==
  LET due == call[a].due
  IN  /\ call[a].at = "look"
      /\ \/ /\ RowsOf(FinalRef) = {}
            /\ due > 0
            /\ call' = [call EXCEPT ![a].at = "create"]
         \/ /\ \E d \in Callers : RowsOf(FinalRef) = {d} /\ Reusable(rows[d], due)
            /\ Goto(a, "ask")
         \/ Tell(a, "failed")
      /\ UNCHANGED <<rows, session, storage, job, evictions>>

Create(a) ==
  /\ call[a].at = "create"
  /\ \E hit, bad \in BOOLEAN :
       /\ Tried(hit, bad)
       /\ rows' = IF hit
                  THEN [rows EXCEPT ![a] = [state  |-> "pending",
                                            amount |-> call[a].due]]
                  ELSE rows
       /\ IF bad THEN Tell(a, "failed") ELSE Goto(a, "ask")
  /\ UNCHANGED <<session, storage, job, evictions>>

\* A person marks a payment reversed.
Reverse(c) ==
  /\ Reversals
  /\ rows[c].state = "verified"
  /\ rows' = [rows EXCEPT ![c].state = "reversed"]
  /\ UNCHANGED <<session, call, storage, job, evictions>>

\* A caller's worker is evicted; nobody learns what became of the call.
CallerEvicted(c) ==
  /\ call[c].at \notin {"idle", "done"}
  /\ Tell(c, "unknown")
  /\ UNCHANGED <<rows, session, storage, job, evictions>>

-----------------------------------------------------------------------------
(* The coordinator: it accepts a request when it is doing nothing else.    *)

Step(pc, next) ==
  /\ job.pc = pc
  /\ job' = [job EXCEPT !.pc = next]

\* The same, when the ledger it read is not needed any more.
StepBlind(pc, next) ==
  /\ job.pc = pc
  /\ job' = [job EXCEPT !.pc = next, !.seen = NoRows]

\* Mutant: a request that arrives while a job runs is answered "scheduled".
Accept_Coalesced(c) ==
  /\ call[c].at = "ask"
  /\ job.by # c
  /\ IF job = NoJob
     THEN /\ pending' = [anchor |-> IF c \in Notices THEN RefOf[c] ELSE NoRef,
                         attempts |-> 0]
          /\ job' = [NoJob EXCEPT !.pc = "arm", !.by = c]
          /\ UNCHANGED call
     ELSE /\ Tell(c, "retry_scheduled")
          /\ UNCHANGED <<pending, job>>
  /\ UNCHANGED <<rows, session, alarm, lastResult, evictions>>

\* The task is stored, over an earlier one ...
Accept(c) ==
  /\ call[c].at = "ask"
  /\ job = NoJob
  /\ pending' = [anchor |-> IF c \in Notices THEN RefOf[c] ELSE NoRef,
                 attempts |-> 0]
  /\ job' = [NoJob EXCEPT !.pc = "arm", !.by = c]
  /\ UNCHANGED <<rows, session, call, alarm, lastResult, evictions>>

\* ... and the alarm set, before anything is written outside.
Arm ==
  /\ Step("arm", "begin")
  /\ alarm' = "set"
  /\ UNCHANGED <<rows, session, call, pending, lastResult, evictions>>

AlarmFires ==
  /\ job = NoJob
  /\ alarm = "set"
  /\ IF pending = NoTask
     THEN alarm' = "off" /\ UNCHANGED job
     ELSE alarm' = "fired" /\ job' = [NoJob EXCEPT !.pc = "begin"]
  /\ UNCHANGED <<rows, session, call, pending, lastResult, evictions>>

\* The attempt is counted, and the last result withdrawn.
Begin ==
  /\ Step("begin", "first")
  /\ pending' = [pending EXCEPT !.attempts = @ + 1]
  /\ lastResult' = "reconciling"
  /\ UNCHANGED <<rows, session, call, alarm, evictions>>

\* A ledger that has the payment the task is about, and can be summed.
Readable ==
  /\ ~Conflict(rows)
  /\ pending.anchor # NoRef =>
       \E c \in Verified(rows) : RefOf[c] = pending.anchor

\* Otherwise, and whenever Airtable refuses, the attempt fails for good; when
\* Airtable is unavailable it may be repeated.
Failing(pc) == \E kind \in {"transient", "final"} : StepBlind(pc, kind)

ReadFirst ==
  /\ \/ /\ Readable
        /\ job.pc = "first"
        /\ job' = [job EXCEPT !.pc = "fresh", !.seen = rows]
     \/ Failing("first")
  /\ UNCHANGED <<rows, session, call, storage, evictions>>

\* Read again: a ledger that changed is read anew, later.
ReadFresh ==
  /\ \/ /\ Readable
        /\ rows = job.seen
        /\ Step("fresh", IF shown = Received(rows) THEN "verify" ELSE "patch")
     \/ Failing("fresh")
  /\ UNCHANGED <<rows, session, call, storage, evictions>>

\* Mutant: the payment of the task is added to what is shown.
Patch_Increment ==
  /\ \/ /\ Step("patch", "verify")
        /\ shown' = shown + IF pending.anchor = NoRef THEN 0 ELSE AmountOf[pending.anchor]
        /\ UNCHANGED flight
     \/ /\ StepBlind("patch", "transient")
        /\ shown' \in {shown, shown + IF pending.anchor = NoRef THEN 0 ELSE AmountOf[pending.anchor]}
        /\ UNCHANGED flight
  /\ UNCHANGED <<rows, payStatus, call, storage, evictions>>

\* The sum is written: made, refused, lost, or timed out and still on its way.
Patch ==
  /\ \/ /\ Step("patch", "verify")
        /\ shown' = Received(job.seen)
        /\ UNCHANGED flight
     \/ /\ StepBlind("patch", "transient")
        /\ shown' \in {shown, Received(job.seen)}
        /\ UNCHANGED flight
     \/ /\ LatePatches
        /\ StepBlind("patch", "transient")
        /\ flight' = flight \cup {Received(job.seen)}
        /\ UNCHANGED shown
     \/ /\ StepBlind("patch", "final")
        /\ UNCHANGED <<shown, flight>>
  /\ UNCHANGED <<rows, payStatus, call, storage, evictions>>

\* A write that timed out is made after all.
Land ==
  /\ \E sum \in flight : shown' = sum /\ flight' = flight \ {sum}
  /\ UNCHANGED <<rows, payStatus, call, storage, job, evictions>>

\* Read back: the ledger has not changed and the sum is there.
ReadBack ==
  /\ \/ /\ Readable
        /\ rows = job.seen
        /\ shown = Received(rows)
        /\ StepBlind("verify", "conclude")
     \/ Failing("verify")
  /\ UNCHANGED <<rows, session, call, storage, evictions>>

Conclude ==
  /\ Step("conclude", "clear")
  /\ lastResult' = "ok"
  /\ UNCHANGED <<rows, session, call, pending, alarm, evictions>>

\* Mutant: one attempt more.
Retry_OneMore == job.pc = "transient" /\ pending.attempts <= MaxAttempts

Retry == job.pc = "transient" /\ pending.attempts < MaxAttempts

\* The attempt failed: try again later, or leave it to a person.
Fail ==
  /\ job.pc \in {"transient", "final"}
  /\ lastResult' = IF Retry THEN "retry_scheduled" ELSE "needs_review"
  /\ job' = [job EXCEPT !.pc = IF Retry THEN "rearm" ELSE "clear"]
  /\ UNCHANGED <<rows, session, call, pending, alarm, evictions>>

\* The caller, if there is one and it still waits, gets the result.  For an
\* activation only success will do.
Answer ==
  LET c == job.by
      waits == c # Nobody /\ call[c].at = "ask"
  IN  /\ job' = NoJob
      /\ IF ~waits THEN UNCHANGED call
         ELSE Tell(c, IF c \in Activations /\ lastResult # "ok" THEN "failed"
                      ELSE lastResult)

\* Mutant: the alarm that fired is taken to be still set.
Rearm_Off ==
  /\ job.pc = "rearm"
  /\ alarm' = IF alarm = "fired" THEN "off" ELSE alarm
  /\ Answer
  /\ UNCHANGED <<rows, session, pending, lastResult, evictions>>

Rearm ==
  /\ job.pc = "rearm"
  /\ alarm' = "set"
  /\ Answer
  /\ UNCHANGED <<rows, session, pending, lastResult, evictions>>

Clear ==
  /\ Step("clear", "disarm")
  /\ pending' = NoTask
  /\ UNCHANGED <<rows, session, call, alarm, lastResult, evictions>>

Disarm ==
  /\ job.pc = "disarm"
  /\ alarm' = "off"
  /\ Answer
  /\ UNCHANGED <<rows, session, pending, lastResult, evictions>>

\* The coordinator is evicted: storage stays, an alarm that was being handled
\* fires again, and whoever waits learns that the dispatch failed.
Evict ==
  /\ evictions < MaxEvictions
  /\ job # NoJob
  /\ evictions' = evictions + 1
  /\ job' = NoJob
  /\ alarm' = IF alarm = "fired" THEN "set" ELSE alarm
  /\ call' = [c \in Callers |->
                IF call[c].at # "ask" THEN call[c]
                ELSE [call[c] EXCEPT !.at = "done",
                        !.told = IF c \in Notices THEN "retry_required"
                                 ELSE "failed"]]
  /\ UNCHANGED <<rows, session, pending, lastResult>>

-----------------------------------------------------------------------------
JobStep ==
  \/ Arm \/ Begin \/ ReadFirst \/ ReadFresh \/ Patch \/ ReadBack \/ Conclude
  \/ Fail \/ Rearm \/ Clear \/ Disarm

CallStep(c) ==
  \/ Seek(c) \/ Find(c) \/ Write(c) \/ Session(c)
  \/ Balance(c) \/ Look(c) \/ Create(c)

Next ==
  \/ \E c \in Callers :
       CallStep(c) \/ CallerEvicted(c) \/ Reverse(c) \/ Accept(c)
  \/ JobStep \/ AlarmFires \/ Land \/ Evict

\* A job goes on, and the runtime delivers alarms and requests.
Fairness ==
  /\ WF_vars(JobStep)
  /\ WF_vars(AlarmFires)
  /\ \A c \in Callers : WF_vars(Accept(c))

Spec == Init /\ [][Next]_vars /\ Fairness

-----------------------------------------------------------------------------
(* Properties.                                                             *)

\* The references that were ever verified, and what was paid under them.
EverVerified ==
  {RefOf[c] : c \in {d \in Callers : rows[d].state \in {"verified", "reversed"}}}

Paid == SumFunction([ref \in EverVerified |-> AmountOf[ref]])

\* The session never shows more than was paid: no reference is counted twice,
\* however often its verification is repeated, its row duplicated or the write
\* of the sum retried.
NeverOverstated == shown <= Paid

\* The notices that know that the coordinator has their payment in hand.
Informed(n) == call[n].told \in {"ok", "retry_scheduled", "needs_review"}

\* Once it was written, the amount shown is the verified sum, unless somebody can
\* know that it is not: a task is stored, the last result is not a success, a
\* payment was reversed, or a verification is under way or was not answered with
\* a result of the coordinator.
NeverSilentlyStale ==
  /\ pending = NoTask
  /\ lastResult = "ok"
  /\ \A c \in Callers : rows[c].state # "reversed"
  /\ \A n \in Notices : call[n].at \in {"idle", "write"} \/ Informed(n)
  => shown = Received(rows)

\* A call told "ok" by the coordinator finds the session to show all payments
\* the coordinator was told of before, its own included.
OkIsCurrent ==
  [][\A c \in Notices \cup Activations :
       call'[c].told = "ok" /\ call[c].told # "ok" =>
         LET known == {RefOf[n] : n \in {m \in Notices : Informed(m)'}}
         IN  shown' >= SumFunction([ref \in known |-> AmountOf[ref]])
    ]_vars

\* A task with an alarm ends: done, or left to a person after MaxAttempts.
PendingEnds == pending # NoTask /\ alarm # "off" ~> pending = NoTask

\* A verified payment is not set back to pending.
MoneyTruthStays ==
  [][\A c \in Callers :
       rows[c].state = "verified" => rows'[c].state # "pending"]_vars

Amount == INSTANCE DerivedAmount WITH paid <- Paid

\* The projection implements the derived amount.
KeepsAmount == Amount!Spec
=============================================================================

--------------------- MODULE SessionPaidProjectionProofs ---------------------
(***************************************************************************)
(* Proofs about SessionPaidProjection, for any number of calls, payments   *)
(* and amounts, with reversals, failures and evictions anywhere.           *)
(*                                                                         *)
(* The types, and that a task to be retried has its alarm, hold whatever   *)
(* the constants are.  The rest needs intents that cannot set a payment    *)
(* back to pending (Alone); and that what is shown is current, or only     *)
(* rises, needs writes that are made in time: a late one can put an older  *)
(* sum over a newer one.                                                   *)
(***************************************************************************)
EXTENDS SessionPaidProjection, SumTheorems, TLAPS

-----------------------------------------------------------------------------
(* Types, and what the counted attempts and the results need.              *)

\* While a job is on, there is a task; the last step comes after it is cleared.
TaskOK == /\ pending = NoTask => job.pc \in {"idle", "disarm"}
          /\ job.pc = "disarm" => pending = NoTask

\* An attempt that was not evicted is one of MaxAttempts.
AttemptsOK ==
  pending # NoTask =>
    IF job.pc \in {"idle", "arm", "begin", "rearm"}
    THEN pending.attempts < MaxAttempts + evictions
    ELSE pending.attempts <= MaxAttempts + evictions

\* When a job ends it has a result.
ResultOK ==
  /\ job.pc \in {"rearm", "clear", "disarm"}
       => lastResult \in {"ok", "retry_scheduled", "needs_review"}
  /\ job.pc = "rearm" => lastResult = "retry_scheduled"

TypeInv == TypeOK /\ TaskOK /\ AttemptsOK /\ ResultOK

-----------------------------------------------------------------------------
(* The rows, where no intent can set a payment back: it shares its         *)
(* reference with verifications only, and while there are intents no       *)
(* payment is reversed.                                                    *)

Alone ==
  /\ \A i \in Intents : \A c \in (Intents \cup Activations) \ {i} : RefOf[c] # RefOf[i]
  /\ Intents # {} => Reversals = FALSE

\* A call is at a place of its kind; before it writes, only a verification can
\* have a row; and the row it found is one of its reference, which an intent
\* only writes to when it was verified.
CallOK(c) ==
  /\ call[c].at = "find" => c \in Intents
  /\ call[c].at = "write" => c \in Notices \cup Intents
  /\ call[c].at = "session" => c \in Notices
  /\ call[c].at \in {"look", "create"} => c \in Activations
  /\ call[c].at = "ask" => c \in Notices \cup Activations
  /\ c \notin Notices /\ call[c].at \in {"idle", "find", "write", "look", "create"}
       => rows[c].state = "none"
  /\ call[c].at = "write" /\ call[c].found # Nobody =>
       /\ RefOf[call[c].found] = RefOf[c]
       /\ rows[call[c].found].state # "none"
       /\ c \in Intents => call[c].verified
  /\ call[c].at = "write" /\ call[c].found = Nobody => ~call[c].verified
RowOK(c) ==
  /\ rows[c].state = "verified" => rows[c].amount = AmountOf[RefOf[c]]
  /\ rows[c].state = "pending" => c \notin Notices
  /\ rows[c].state = "reversed" => Intents = {}
RowsInv == \A c \in Callers : CallOK(c) /\ RowOK(c)

\* The verifications that have written their row.
Wrote(n) == call[n].at \in {"session", "ask"} \/ Informed(n) \/ job.by = n
WroteInv == \A n \in Notices : Wrote(n) => RefOf[n] \in EverVerified

-----------------------------------------------------------------------------
(* The sums.                                                               *)

ShownInv ==
  /\ shown <= Paid
  /\ \A sum \in flight : sum <= Paid
  /\ job.pc \in {"fresh", "patch"} => Received(job.seen) <= Paid

\* Where writes are made in time, a sum is written to show more than before, and
\* the sum read back has all the coordinator was told of.
KnownRefs == {RefOf[n] : n \in {m \in Notices : Informed(m) \/ m = job.by}}
SumOfRefs(refs) == SumFunction([ref \in refs |-> AmountOf[ref]])
Succeeds ==
  \/ job.pc = "conclude"
  \/ job.pc \in {"clear", "disarm"} /\ lastResult = "ok"
RisingInv ==
  /\ flight = {}
  /\ job.pc = "patch" => shown < Received(job.seen)
  /\ Succeeds => SumOfRefs(KnownRefs) <= shown

-----------------------------------------------------------------------------
(* A sum that was read back stays current until somebody can know better.  *)

\* A job is for a caller that waits or waits no more.
JobByOK == job.by # Nobody => call[job.by].at \in {"ask", "done"}

\* The verifications that have not changed the ledger since, as far as it shows.
Heard(n) ==
  \/ call[n].at \in {"idle", "write"}
  \/ Informed(n)
  \/ /\ n = job.by
     /\ call[n].at = "ask"
     /\ job.pc \in {"conclude", "clear", "disarm"}
ReadBackDone ==
  \/ job.pc = "conclude"
  \/ lastResult = "ok" /\ (job.pc \in {"clear", "disarm"} \/ pending = NoTask)
NotReversed == \A c \in Callers : rows[c].state # "reversed"
Premise == ReadBackDone /\ NotReversed /\ \A n \in Notices : Heard(n)
Current == Premise => shown = Received(rows)

-----------------------------------------------------------------------------
(* Sums of payments.                                                       *)

LEMMA SumOfRefsOK ==
  ASSUME NEW T \in SUBSET Refs, NEW S \in SUBSET T
  PROVE  /\ SumOfRefs(T) \in Nat /\ SumOfRefs(S) \in Nat
         /\ SumOfRefs(S) <= SumOfRefs(T)
<1> DEFINE f == [ref \in S |-> AmountOf[ref]]
           h == [ref \in T |-> AmountOf[ref]]
           p == [ref \in S |-> ref]
<1>1. IsFiniteSet(S) /\ IsFiniteSet(T)
  BY SizesAssumption, FS_Subset DEF SizesAssumption
<1>2. /\ f \in [S -> Nat] /\ h \in [T -> Nat] /\ p \in [S -> T]
      /\ \A c, d \in S : p[c] = p[d] => c = d
      /\ \A d \in S : f[d] <= h[p[d]]
  BY PaymentsAssumption DEF PaymentsAssumption
<1>3. SumFunction(f) <= SumFunction(h)
  <2> HIDE DEF f, h, p
  <2> QED BY <1>1, <1>2, SumInto
<1>4. SumFunction(f) \in Nat /\ SumFunction(h) \in Nat
  <2> HIDE DEF f, h, p
  <2> QED BY <1>1, <1>2, SumNat
<1> QED BY <1>3, <1>4 DEF SumOfRefs

LEMMA ReceivedNat ==
  ASSUME NEW l \in Ledger
  PROVE  Received(l) \in Nat
<1> DEFINE D == Verified(l)
           f == [c \in D |-> l[c].amount]
<1>1. IsFiniteSet(D)
  BY SizesAssumption, FS_Subset DEF SizesAssumption, Verified
<1>2. f \in [D -> Nat]
  BY DEF Verified, Ledger, RowType
<1>3. SumFunction(f) \in Nat
  <2> HIDE DEF D, f
  <2> QED BY <1>1, <1>2, SumNat
<1> QED BY <1>3 DEF Received

LEMMA EverVerifiedType == EverVerified \subseteq Refs
BY CallersAssumption DEF CallersAssumption, EverVerified

\* A ledger that can be summed has all that was ever verified, once.
LEMMA ReceivedIsPaid ==
  ASSUME rows \in Ledger, RowsInv, ~Conflict(rows)
  PROVE  Received(rows) = Paid
<1> DEFINE D == Verified(rows)
           E == EverVerified
           f == [c \in D |-> rows[c].amount]
           h == [ref \in E |-> AmountOf[ref]]
           p == [c \in D |-> RefOf[c]]
           q == [ref \in E |-> CHOOSE c \in D : RefOf[c] = ref]
<1>1. IsFiniteSet(D) /\ IsFiniteSet(E)
  <2>1. D \subseteq Callers /\ E \subseteq Refs
    BY EverVerifiedType DEF Verified
  <2> QED BY <2>1, SizesAssumption, FS_Subset DEF SizesAssumption
<1>2. \A ref \in E : \E c \in D : RefOf[c] = ref
  BY DEF EverVerified, Conflict, Verified
<1>3. \A c \in D : c \in Callers /\ RefOf[c] \in E /\ rows[c].amount = AmountOf[RefOf[c]]
  BY DEF EverVerified, Verified, RowsInv, RowOK
<1>4. \A c, d \in D : RefOf[c] = RefOf[d] => c = d
  BY DEF Conflict
<1>5. \A ref \in E : AmountOf[ref] \in Nat
  BY EverVerifiedType, PaymentsAssumption DEF PaymentsAssumption
<1>6. \A ref \in E : q[ref] \in D /\ RefOf[q[ref]] = ref
  BY <1>2
<1> HIDE DEF D, E
<1>7. f \in [D -> Nat] /\ h \in [E -> Nat] /\ p \in [D -> E] /\ q \in [E -> D]
  BY <1>3, <1>5, <1>6
<1>8. SumFunction(f) <= SumFunction(h)
  <2>1. \A c, d \in D : p[c] = p[d] => c = d
    BY <1>4
  <2>2. \A d \in D : f[d] <= h[p[d]]
    BY <1>3, <1>5
  <2> HIDE DEF f, h, p, q
  <2> QED BY <1>1, <1>7, <2>1, <2>2, SumInto
<1>9. SumFunction(h) <= SumFunction(f)
  <2>1. \A c, d \in E : q[c] = q[d] => c = d
    <3> HIDE DEF q
    <3> QED BY <1>6
  <2>2. \A d \in E : h[d] <= f[q[d]]
    <3>1. \A d \in E : f[q[d]] = AmountOf[d]
      <4> HIDE DEF q
      <4> QED BY <1>3, <1>6
    <3> QED BY <3>1, <1>5
  <2> HIDE DEF f, h, p, q
  <2> QED BY <1>1, <1>7, <2>1, <2>2, SumInto
<1>10. SumFunction(f) \in Nat /\ SumFunction(h) \in Nat
  <2> HIDE DEF f, h, p, q
  <2> QED BY <1>1, <1>7, SumNat
<1>11. SumFunction(f) = SumFunction(h)
  BY <1>8, <1>9, <1>10
<1> QED BY <1>11 DEF Received, Paid, D, E

-----------------------------------------------------------------------------
(* The types are kept, whatever the constants.                             *)

JobPlaces == {"idle", "arm", "begin", "first", "fresh", "patch", "verify",
              "conclude", "transient", "final", "rearm", "clear", "disarm"}

LEMMA GotoTypes ==
  ASSUME call \in [Callers -> CallType], NEW c \in Callers, NEW place \in Places,
         Goto(c, place)
  PROVE  /\ call' \in [Callers -> CallType]
         /\ call'[c].at = place /\ call'[c].told = "nothing"
         /\ call'[c].found = Nobody /\ ~call'[c].verified
         /\ \A d \in Callers \ {c} : call'[d] = call[d]
BY DEF CallType, Goto, NewCall, Told

LEMMA TellTypes ==
  ASSUME call \in [Callers -> CallType], NEW c \in Callers, NEW what \in Told,
         Tell(c, what)
  PROVE  /\ call' \in [Callers -> CallType]
         /\ call'[c].at = "done" /\ call'[c].told = what
         /\ call'[c].found = Nobody
         /\ \A d \in Callers \ {c} : call'[d] = call[d]
BY DEF CallType, Tell, NewCall, Places

LEMMA StepTypes ==
  ASSUME job \in JobType, NEW pc, NEW next \in JobPlaces,
         Step(pc, next) \/ StepBlind(pc, next)
  PROVE  /\ job' \in JobType /\ job.pc = pc /\ job'.pc = next /\ job'.by = job.by
         /\ Step(pc, next) => job'.seen = job.seen
<1>1. NoRows \in Ledger
  BY DEF NoRows, NoRow, Ledger, RowType
<1> QED BY <1>1 DEF JobType, JobPlaces, Step, StepBlind

LEMMA NoJobTypes == NoJob \in JobType /\ NoJob.pc = "idle" /\ NoJob.by = Nobody
BY DEF NoJob, JobType, NoRows, NoRow, Ledger, RowType

LEMMA DueNat ==
  ASSUME rows \in Ledger
  PROVE  Due \in Nat
<1>1. Received(rows) \in Nat /\ Total \in Nat
  BY ReceivedNat, PaymentsAssumption DEF PaymentsAssumption
<1> QED BY <1>1 DEF Due, Max

\* A step of a call, which may write a row.
LEMMA CallTypes ==
  ASSUME TypeInv, call' \in [Callers -> CallType], rows' \in Ledger,
         payStatus' \in {"unpaid", "partial", "paid"},
         UNCHANGED <<shown, flight, storage, job, evictions>>
  PROVE  TypeInv'
BY DEF TypeInv, TypeOK, TaskOK, AttemptsOK, ResultOK, storage

LEMMA CallStepTypes ==
  ASSUME TypeInv, NEW c \in Callers, CallStep(c) \/ CallerEvicted(c) \/ Reverse(c)
  PROVE  TypeInv'
<1>0. /\ call \in [Callers -> CallType] /\ rows \in Ledger
      /\ payStatus \in {"unpaid", "partial", "paid"}
      /\ RefOf[c] \in Refs /\ AmountOf[RefOf[c]] \in Nat
  BY CallersAssumption, PaymentsAssumption
  DEF TypeInv, TypeOK, CallersAssumption, PaymentsAssumption
<1>1. ASSUME \/ \E place \in Places : Goto(c, place)
             \/ \E what \in Told : Tell(c, what)
      PROVE  call' \in [Callers -> CallType]
  BY <1>0, <1>1, GotoTypes, TellTypes
<1>2. \A place \in {"find", "write", "session", "ask"} : place \in Places
  BY DEF Places
<1>3. \A what \in {"ok", "failed", "unknown"} : what \in Told
  BY DEF Told
<1>4. CASE Seek(c)
  BY <1>0, <1>1, <1>2, <1>3, <1>4, CallTypes DEF Seek, session
<1>5. CASE Find(c)
  <2>1. CASE \E d \in RowsOf(RefOf[c]) :
               call' = [call EXCEPT ![c].at = "write", ![c].found = d,
                                    ![c].verified = rows[d].state = "verified"]
    <3>1. PICK d \in Callers :
            call' = [call EXCEPT ![c].at = "write", ![c].found = d,
                                 ![c].verified = rows[d].state = "verified"]
      BY <2>1 DEF RowsOf
    <3>2. (rows[d].state = "verified") \in BOOLEAN
      OBVIOUS
    <3>3. PICK v \in BOOLEAN :
            call' = [call EXCEPT ![c].at = "write", ![c].found = d,
                                 ![c].verified = v]
      BY <3>1, <3>2
    <3>4. call' \in [Callers -> CallType]
      <4> DEFINE k == [call[c] EXCEPT !.at = "write", !.found = d, !.verified = v]
      <4>1. call' = [call EXCEPT ![c] = k]
        BY <1>0, <3>3 DEF CallType
      <4>2. k \in CallType
        BY <1>0 DEF CallType, Places
      <4> HIDE DEF k
      <4> QED BY <1>0, <4>1, <4>2
    <3> QED BY <1>0, <1>5, <3>4, CallTypes DEF Find, session
  <2>2. CASE Goto(c, "write") \/ Tell(c, "failed")
    BY <1>0, <1>1, <1>2, <1>3, <1>5, <2>2, CallTypes DEF Find, session
  <2> QED BY <1>5, <2>1, <2>2 DEF Find
<1>6. CASE Write(c)
  <2>1. Tell(c, "failed") \/ Goto(c, "session") \/ Tell(c, "ok")
    BY <1>6 DEF Write
  <2>2. rows' \in Ledger
    <3> DEFINE target == IF call[c].found = Nobody THEN c ELSE call[c].found
               row == [state  |-> IF c \in Notices \/ call[c].verified
                                  THEN "verified" ELSE "pending",
                       amount |-> AmountOf[RefOf[c]]]
    <3>1. rows' = [rows EXCEPT ![target] = row] \/ rows' = rows
      BY <1>6 DEF Write
    <3>2. row \in RowType
      BY <1>0 DEF RowType
    <3> HIDE DEF target, row
    <3> QED BY <1>0, <3>1, <3>2 DEF Ledger
  <2>3. UNCHANGED <<payStatus, shown, flight, storage, job, evictions>>
    BY <1>6 DEF Write, session
  <2> QED BY <1>0, <1>1, <1>2, <1>3, <2>1, <2>2, <2>3, CallTypes
<1>7. CASE Session(c)
  <2>1. /\ Tell(c, "failed") \/ Goto(c, "ask")
        /\ payStatus' \in {"unpaid", "partial", "paid"}
        /\ UNCHANGED <<rows, shown, flight, storage, job, evictions>>
    BY <1>0, <1>7 DEF Session
  <2> QED BY <1>0, <1>1, <1>2, <1>3, <2>1, CallTypes
<1>8. CASE Balance(c)
  <2>1. CASE call' = [call EXCEPT ![c].at = "look", ![c].due = Due]
    <3>1. PICK n \in Nat : call' = [call EXCEPT ![c].at = "look", ![c].due = n]
      BY <1>0, <2>1, DueNat
    <3>2. call' \in [Callers -> CallType]
      BY <1>0, <3>1 DEF CallType, Places
    <3> QED BY <1>0, <1>8, <3>2, CallTypes DEF Balance, session
  <2>2. CASE Tell(c, "failed")
    BY <1>0, <1>1, <1>3, <1>8, <2>2, CallTypes DEF Balance, session
  <2> QED BY <1>8, <2>1, <2>2 DEF Balance
<1>9. CASE Look(c)
  <2>1. CASE call' = [call EXCEPT ![c].at = "create"]
    <3>1. call' \in [Callers -> CallType]
      BY <1>0, <2>1 DEF CallType, Places
    <3> QED BY <1>0, <1>9, <3>1, CallTypes DEF Look, session
  <2>2. CASE Goto(c, "ask") \/ Tell(c, "failed")
    BY <1>0, <1>1, <1>2, <1>3, <1>9, <2>2, CallTypes DEF Look, session
  <2> QED BY <1>9, <2>1, <2>2 DEF Look
<1>10. CASE Create(c)
  <2>1. Tell(c, "failed") \/ Goto(c, "ask")
    BY <1>10 DEF Create
  <2>2. rows' \in Ledger
    <3>1. [state |-> "pending", amount |-> call[c].due] \in RowType
      BY <1>0 DEF RowType, CallType
    <3> QED BY <1>0, <1>10, <3>1 DEF Create, Ledger
  <2>3. UNCHANGED <<payStatus, shown, flight, storage, job, evictions>>
    BY <1>10 DEF Create, session
  <2> QED BY <1>0, <1>1, <1>2, <1>3, <2>1, <2>2, <2>3, CallTypes
<1>11. CASE CallerEvicted(c)
  BY <1>0, <1>1, <1>3, <1>11, CallTypes DEF CallerEvicted, session
<1>12. CASE Reverse(c)
  <2>1. rows' \in Ledger
    BY <1>0, <1>12 DEF Reverse, Ledger, RowType
  <2> QED BY <1>0, <1>12, <2>1, CallTypes DEF Reverse, session
<1> QED BY <1>4, <1>5, <1>6, <1>7, <1>8, <1>9, <1>10, <1>11, <1>12 DEF CallStep

\* A step of the coordinator.
LEMMA AcceptTypes ==
  ASSUME TypeInv, NEW c \in Callers, Accept(c)
  PROVE  TypeInv'
<1> DEFINE anchor == IF c \in Notices THEN RefOf[c] ELSE NoRef
<1>1. /\ job = NoJob /\ pending' = [anchor |-> anchor, attempts |-> 0]
      /\ job' = [NoJob EXCEPT !.pc = "arm", !.by = c]
      /\ UNCHANGED <<rows, payStatus, shown, flight, call, alarm, lastResult, evictions>>
  BY DEF Accept, session
<1>2. job' \in JobType /\ job'.pc = "arm"
  BY <1>1, NoJobTypes DEF JobType
<1>3. /\ pending' \in Tasks /\ pending' # NoTask /\ pending'.attempts = 0
      /\ MaxAttempts \in Nat \ {0} /\ MaxEvictions \in Nat /\ evictions \in Nat
  BY <1>1, CallersAssumption, BoundsAssumption
  DEF CallersAssumption, BoundsAssumption, Tasks, NoTask, TypeInv, TypeOK
<1>4. TypeOK'
  BY <1>1, <1>2, <1>3 DEF TypeInv, TypeOK
<1>5. TaskOK' /\ AttemptsOK' /\ ResultOK'
  BY <1>1, <1>2, <1>3 DEF TaskOK, AttemptsOK, ResultOK
<1> QED BY <1>4, <1>5 DEF TypeInv

\* The coordinator goes from one place to the next with its task as it is.
LEMMA JobTypes ==
  ASSUME TypeInv, job' \in JobType, job.pc \notin {"idle", "disarm"},
         job'.pc \notin {"idle", "disarm"},
         job'.pc \in {"arm", "begin", "rearm"} =>
           job.pc \in {"arm", "begin", "rearm"} \/ pending.attempts < MaxAttempts,
         rows' \in Ledger, shown' \in Nat, flight' \subseteq Nat,
         call' \in [Callers -> CallType],
         alarm' \in {"off", "set", "fired"},
         lastResult' \in {"none", "reconciling", "ok", "retry_scheduled",
                          "needs_review"},
         ResultOK',
         UNCHANGED <<payStatus, pending, evictions>>
  PROVE  TypeInv'
<1>1. /\ MaxAttempts \in Nat /\ MaxEvictions \in Nat /\ evictions \in Nat
      /\ pending # NoTask => pending.attempts \in Nat
  BY BoundsAssumption DEF BoundsAssumption, TypeInv, TypeOK, Tasks
<1>2. TypeOK' /\ TaskOK'
  BY DEF TypeInv, TypeOK, TaskOK
<1>3. AttemptsOK'
  BY <1>1 DEF TypeInv, AttemptsOK
<1> QED BY <1>2, <1>3 DEF TypeInv

LEMMA JobStepTypes ==
  ASSUME TypeInv,
         Arm \/ ReadFirst \/ ReadFresh \/ Patch \/ ReadBack \/ Conclude \/ Fail
  PROVE  TypeInv'
<1>0. /\ TypeOK /\ job \in JobType /\ rows \in Ledger
      /\ \A pc \in {"begin", "fresh", "verify", "patch", "transient", "final",
                    "conclude", "clear"} : pc \in JobPlaces
  BY DEF TypeInv, TypeOK, JobPlaces
<1>1. ASSUME NEW pc, Failing(pc)
      PROVE  /\ job' \in JobType /\ job.pc = pc /\ job'.pc \in {"transient", "final"}
  BY <1>0, <1>1, StepTypes DEF Failing
<1>2. CASE Arm
  BY <1>0, <1>2, StepTypes, JobTypes DEF Arm, session, TypeOK, TypeInv, ResultOK
<1>3. CASE ReadFirst
  <2>1. job' \in JobType /\ job.pc = "first" /\ job'.pc \in {"fresh", "transient", "final"}
    <3>1. CASE job.pc = "first" /\ job' = [job EXCEPT !.pc = "fresh", !.seen = rows]
      BY <1>0, <3>1 DEF JobType
    <3>2. CASE Failing("first")
      BY <3>2, <1>1
    <3> QED BY <1>3, <3>1, <3>2 DEF ReadFirst
  <2> QED BY <1>0, <1>3, <2>1, JobTypes
          DEF ReadFirst, session, storage, TypeOK, TypeInv, ResultOK
<1>4. CASE ReadFresh
  <2>1. /\ job' \in JobType /\ job.pc = "fresh"
        /\ job'.pc \in {"verify", "patch", "transient", "final"}
    <3>1. CASE Step("fresh", IF shown = Received(rows) THEN "verify" ELSE "patch")
      BY <1>0, <3>1, StepTypes
    <3>2. CASE Failing("fresh")
      BY <3>2, <1>1
    <3> QED BY <1>4, <3>1, <3>2 DEF ReadFresh
  <2> QED BY <1>0, <1>4, <2>1, JobTypes
          DEF ReadFresh, session, storage, TypeOK, TypeInv, ResultOK
<1>5. CASE Patch
  <2>1. /\ job' \in JobType /\ job.pc = "patch"
        /\ job'.pc \in {"verify", "transient", "final"}
    BY <1>0, <1>5, StepTypes DEF Patch
  <2>2. Received(job.seen) \in Nat
    BY <1>0, ReceivedNat DEF JobType
  <2>3. shown' \in Nat /\ flight' \subseteq Nat
    BY <1>0, <1>5, <2>2 DEF Patch, TypeOK
  <2> QED BY <1>0, <1>5, <2>1, <2>3, JobTypes
          DEF Patch, storage, TypeOK, TypeInv, ResultOK
<1>6. CASE ReadBack
  <2>1. /\ job' \in JobType /\ job.pc = "verify"
        /\ job'.pc \in {"conclude", "transient", "final"}
    <3>1. CASE StepBlind("verify", "conclude")
      BY <1>0, <3>1, StepTypes
    <3>2. CASE Failing("verify")
      BY <3>2, <1>1
    <3> QED BY <1>6, <3>1, <3>2 DEF ReadBack
  <2> QED BY <1>0, <1>6, <2>1, JobTypes
          DEF ReadBack, session, storage, TypeOK, TypeInv, ResultOK
<1>7. CASE Conclude
  BY <1>0, <1>7, StepTypes, JobTypes DEF Conclude, session, TypeOK, TypeInv, ResultOK
<1>8. CASE Fail
  <2>1. /\ job' \in JobType /\ job.pc \in {"transient", "final"}
        /\ job'.pc = IF Retry THEN "rearm" ELSE "clear"
    BY <1>0, <1>8 DEF Fail, JobType
  <2>2. Retry => pending.attempts < MaxAttempts
    BY DEF Retry
  <2>3. ResultOK'
    BY <1>8, <2>1 DEF Fail, ResultOK
  <2>4. /\ lastResult' \in {"retry_scheduled", "needs_review"}
        /\ UNCHANGED <<rows, payStatus, shown, flight, call, pending, alarm, evictions>>
    BY <1>8 DEF Fail, session
  <2> HIDE DEF Retry
  <2> QED BY <1>0, <2>1, <2>2, <2>3, <2>4, JobTypes DEF TypeOK, TypeInv
<1> QED BY <1>2, <1>3, <1>4, <1>5, <1>6, <1>7, <1>8

LEMMA BeginTypes ==
  ASSUME TypeInv, Begin
  PROVE  TypeInv'
<1>0. /\ TypeOK /\ MaxAttempts \in Nat /\ MaxEvictions \in Nat
      /\ evictions \in 0..MaxEvictions
  BY BoundsAssumption DEF BoundsAssumption, TypeInv, TypeOK
<1>1. /\ job' \in JobType /\ job.pc = "begin" /\ job'.pc = "first"
      /\ UNCHANGED <<rows, payStatus, shown, flight, call, alarm, evictions>>
      /\ pending' = [pending EXCEPT !.attempts = @ + 1]
      /\ lastResult' = "reconciling"
  BY <1>0, StepTypes DEF Begin, session, TypeOK, JobPlaces
<1>2. pending \in Tasks /\ pending # NoTask /\ pending.attempts < MaxAttempts + evictions
  BY <1>1 DEF TypeInv, TypeOK, TaskOK, AttemptsOK
<1>3. /\ pending' \in Tasks /\ pending' # NoTask
      /\ pending'.attempts = pending.attempts + 1
  BY <1>0, <1>1, <1>2 DEF Tasks, NoTask
<1>4. TypeOK'
  BY <1>0, <1>1, <1>3 DEF TypeOK
<1>5. TaskOK' /\ AttemptsOK' /\ ResultOK'
  <2>1. pending.attempts \in Nat
    BY <1>2 DEF Tasks
  <2> QED BY <1>0, <1>1, <1>2, <1>3, <2>1 DEF TaskOK, AttemptsOK, ResultOK
<1> QED BY <1>4, <1>5 DEF TypeInv

\* The answer to the caller of a job that ends, if it waits.
LEMMA AnswerTypes ==
  ASSUME TypeInv, Answer, job.pc \in {"rearm", "disarm"}
  PROVE  /\ job' = NoJob /\ call' \in [Callers -> CallType]
         /\ \A c \in Callers :
              \/ call'[c] = call[c]
              \/ /\ c = job.by /\ call[c].at = "ask"
                 /\ call'[c].at = "done"
                 /\ call'[c].found = Nobody
                 /\ call'[c].told = IF c \in Activations /\ lastResult # "ok"
                                    THEN "failed" ELSE lastResult
<1>0. /\ call \in [Callers -> CallType] /\ job' = NoJob
      /\ job.by \in Callers \cup {Nobody}
      /\ lastResult \in {"ok", "retry_scheduled", "needs_review"}
  BY DEF TypeInv, TypeOK, ResultOK, JobType, Answer
<1>1. CASE job.by # Nobody /\ call[job.by].at = "ask"
  <2> DEFINE what == IF job.by \in Activations /\ lastResult # "ok"
                     THEN "failed" ELSE lastResult
  <2>1. job.by \in Callers /\ Tell(job.by, what) /\ what \in Told
    BY <1>0, <1>1 DEF Answer, Told
  <2>2. /\ call' \in [Callers -> CallType]
        /\ call'[job.by].at = "done" /\ call'[job.by].told = what
        /\ call'[job.by].found = Nobody
        /\ \A d \in Callers \ {job.by} : call'[d] = call[d]
    <3> HIDE DEF what
    <3> QED BY <1>0, <2>1, TellTypes
  <2> QED BY <1>0, <1>1, <2>1, <2>2
<1>2. CASE ~(job.by # Nobody /\ call[job.by].at = "ask")
  BY <1>0, <1>2 DEF Answer
<1> QED BY <1>1, <1>2

\* The coordinator is idle again.
LEMMA IdleTypes ==
  ASSUME TypeInv, job' = NoJob,
         \/ evictions' = evictions + 1 /\ evictions < MaxEvictions
         \/ evictions' = evictions /\ job.pc \in {"rearm", "disarm"},
         call' \in [Callers -> CallType],
         alarm' \in {"off", "set", "fired"},
         UNCHANGED <<rows, payStatus, shown, flight, pending, lastResult>>
  PROVE  TypeInv'
<1>1. /\ MaxAttempts \in Nat /\ MaxEvictions \in Nat /\ evictions \in 0..MaxEvictions
      /\ pending # NoTask => pending.attempts \in Nat
  BY BoundsAssumption DEF BoundsAssumption, TypeInv, TypeOK, Tasks
<1>2. TypeOK'
  BY <1>1, NoJobTypes DEF TypeInv, TypeOK
<1>3. TaskOK' /\ ResultOK'
  BY NoJobTypes DEF TaskOK, ResultOK
<1>4. AttemptsOK'
  <2>1. pending # NoTask => pending.attempts <= MaxAttempts + evictions
    BY <1>1 DEF TypeInv, AttemptsOK
  <2>2. job.pc = "disarm" => pending = NoTask
    BY DEF TypeInv, TaskOK
  <2>3. job.pc = "rearm" /\ pending # NoTask => pending.attempts < MaxAttempts + evictions
    BY DEF TypeInv, AttemptsOK
  <2> QED BY <1>1, <2>1, <2>2, <2>3, NoJobTypes DEF AttemptsOK
<1> QED BY <1>2, <1>3, <1>4 DEF TypeInv

LEMMA ClearTypes ==
  ASSUME TypeInv, Clear
  PROVE  TypeInv'
<1>1. /\ job' \in JobType /\ job.pc = "clear" /\ job'.pc = "disarm"
      /\ pending' = NoTask
      /\ UNCHANGED <<rows, payStatus, shown, flight, call, alarm, lastResult, evictions>>
  BY StepTypes DEF Clear, session, TypeInv, TypeOK, JobPlaces
<1>2. TypeOK'
  BY <1>1 DEF TypeInv, TypeOK
<1> QED BY <1>1, <1>2 DEF TypeInv, TaskOK, AttemptsOK, ResultOK

LEMMA AlarmTypes ==
  ASSUME TypeInv, AlarmFires
  PROVE  TypeInv'
<1>1. /\ job = NoJob /\ alarm' \in {"off", "set", "fired"}
      /\ \/ pending = NoTask /\ UNCHANGED job
         \/ pending # NoTask /\ job' = [NoJob EXCEPT !.pc = "begin"]
      /\ UNCHANGED <<rows, payStatus, shown, flight, call, pending, lastResult, evictions>>
  BY DEF AlarmFires, session
<1>2. job' \in JobType /\ (pending # NoTask => job'.pc = "begin") /\ job.pc = "idle"
  BY <1>1, NoJobTypes DEF JobType
<1>3. TypeOK'
  BY <1>1, <1>2 DEF TypeInv, TypeOK
<1>4. TaskOK' /\ AttemptsOK' /\ ResultOK'
  BY <1>1, <1>2, NoJobTypes DEF TypeInv, TaskOK, AttemptsOK, ResultOK
<1> QED BY <1>3, <1>4 DEF TypeInv

LEMMA EvictCalls ==
  ASSUME TypeInv, Evict
  PROVE  /\ call' \in [Callers -> CallType]
         /\ \A c \in Callers :
              \/ call'[c] = call[c] /\ call[c].at # "ask"
              \/ /\ call[c].at = "ask" /\ call'[c].at = "done"
                 /\ call'[c].found = call[c].found
                 /\ call'[c].told \in {"retry_required", "failed"}
<1>0. call \in [Callers -> CallType] /\ DOMAIN call' = Callers
      /\ call' = [c \in Callers |-> call'[c]]
  BY DEF TypeInv, TypeOK, Evict
<1>1. ASSUME NEW c \in Callers
      PROVE  /\ call'[c] \in CallType
             /\ \/ call'[c] = call[c] /\ call[c].at # "ask"
                \/ /\ call[c].at = "ask" /\ call'[c].at = "done"
                   /\ call'[c].found = call[c].found
                   /\ call'[c].told \in {"retry_required", "failed"}
  <2>1. CASE call[c].at # "ask"
    BY <1>0, <2>1 DEF Evict
  <2>2. CASE call[c].at = "ask"
    <3>1. PICK what \in {"retry_required", "failed"} :
            call'[c] = [call[c] EXCEPT !.at = "done", !.told = what]
      BY <2>2 DEF Evict
    <3>2. what \in Told /\ "done" \in Places
      BY DEF Told, Places
    <3>3. call[c] \in CallType
      BY <1>0
    <3>4. /\ call'[c] \in CallType /\ call'[c].at = "done"
          /\ call'[c].found = call[c].found /\ call'[c].told = what
      BY <3>1, <3>2, <3>3 DEF CallType
    <3> QED BY <2>2, <3>4
  <2> QED BY <2>1, <2>2
<1> QED BY <1>0, <1>1

LEMMA TypesKept ==
  ASSUME TypeInv, [Next]_vars
  PROVE  TypeInv'
<1>1. CASE Rearm \/ Disarm
  BY <1>1, AnswerTypes, IdleTypes DEF Rearm, Disarm, session, TypeInv, TypeOK
<1>2. CASE Evict
  <2>1. /\ job' = NoJob /\ evictions' = evictions + 1 /\ evictions < MaxEvictions
        /\ alarm' \in {"off", "set", "fired"}
        /\ UNCHANGED <<rows, payStatus, shown, flight, pending, lastResult>>
    BY <1>2 DEF Evict, session, TypeInv, TypeOK
  <2> QED BY <1>2, <2>1, EvictCalls, IdleTypes
<1>3. CASE Land
  <2>1. shown' \in Nat /\ flight' \subseteq Nat
    BY <1>3 DEF Land, TypeInv, TypeOK
  <2> QED BY <1>3, <2>1
          DEF Land, storage, TypeInv, TypeOK, TaskOK, AttemptsOK, ResultOK
<1>4. CASE UNCHANGED vars
  BY <1>4 DEF vars, TypeInv, TypeOK, TaskOK, AttemptsOK, ResultOK
<1>5. ASSUME NEW c \in Callers,
             CallStep(c) \/ CallerEvicted(c) \/ Reverse(c) \/ Accept(c)
      PROVE  TypeInv'
  BY <1>5, CallStepTypes, AcceptTypes
<1>6. CASE JobStep
  BY <1>1, <1>6, JobStepTypes, BeginTypes, ClearTypes DEF JobStep
<1>7. CASE AlarmFires
  BY <1>7, AlarmTypes
<1> QED BY <1>2, <1>3, <1>4, <1>5, <1>6, <1>7 DEF Next

LEMMA TypesInit == Init => TypeInv
<1> SUFFICES ASSUME Init PROVE TypeInv
  OBVIOUS
<1>1. rows \in Ledger /\ call \in [Callers -> CallType] /\ evictions \in 0..MaxEvictions
  BY BoundsAssumption
  DEF Init, NoRows, NoRow, Ledger, RowType, NewCall, CallType, Places, Told,
      BoundsAssumption
<1>2. TypeOK
  BY <1>1, NoJobTypes DEF Init, TypeOK
<1> QED BY <1>2, NoJobTypes DEF Init, TypeInv, TaskOK, AttemptsOK, ResultOK

-----------------------------------------------------------------------------
(* The alarm: a task that was tried, or is to be tried again, has one.     *)

\* Only a job takes the alarm away, and a job that is past arming it and not yet
\* at its last step has one; a result that promises another attempt is not
\* written by a job that is about to clear the task.
Armed ==
  /\ alarm = "fired" => job # NoJob
  /\ job.pc \notin {"idle", "arm", "disarm"} => alarm # "off"
  /\ pending.attempts > 0 => alarm # "off"
  /\ lastResult \in {"reconciling", "retry_scheduled"} =>
       pending # NoTask /\ alarm # "off" /\ job.pc # "clear"

LEMMA ArmedInit == Init => Armed
BY NoJobTypes DEF Init, Armed, NoTask

LEMMA ArmedElsewhere ==
  ASSUME Armed, UNCHANGED <<pending, alarm, lastResult, job>>
  PROVE  Armed'
BY DEF Armed

\* A job that goes on to read, write or check keeps all it has stored.
LEMMA ArmedGoesOn ==
  ASSUME TypeInv, Armed, UNCHANGED <<pending, alarm, lastResult>>,
         job'.pc \in {"first", "fresh", "patch", "verify", "conclude", "transient",
                      "final"},
         job' # NoJob, job.pc \notin {"idle", "arm", "disarm"}
  PROVE  Armed'
BY DEF Armed

LEMMA ArmedReads ==
  ASSUME TypeInv, Armed, ReadFirst \/ ReadFresh \/ Patch \/ ReadBack
  PROVE  Armed'
<1>1. job \in JobType /\ UNCHANGED <<pending, alarm, lastResult>>
  BY DEF TypeInv, TypeOK, ReadFirst, ReadFresh, Patch, ReadBack, storage
<1>2. \/ job.pc = "first" /\ job' = [job EXCEPT !.pc = "fresh", !.seen = rows]
      \/ \E pc \in {"first", "fresh", "patch", "verify"},
            next \in {"patch", "verify", "conclude", "transient", "final"} :
           Step(pc, next) \/ StepBlind(pc, next)
  BY DEF ReadFirst, ReadFresh, Patch, ReadBack, Failing
<1>3. /\ job.pc \in {"first", "fresh", "patch", "verify"}
      /\ job'.pc \in {"fresh", "patch", "verify", "conclude", "transient", "final"}
  BY <1>1, <1>2, StepTypes DEF JobType, JobPlaces
<1> QED BY <1>1, <1>3, NoJobTypes, ArmedGoesOn

\* The steps that write to the storage.
LEMMA ArmedStores ==
  ASSUME TypeInv, Armed, Arm \/ Begin \/ Conclude \/ Fail \/ Clear
  PROVE  Armed'
<1>0. job \in JobType /\ pending \in Tasks \cup {NoTask} /\ TaskOK
  BY DEF TypeInv, TypeOK
<1>1. CASE Arm
  <2>1. job.pc = "arm" /\ job'.pc = "begin" /\ UNCHANGED <<pending, lastResult>>
    BY <1>0, <1>1, StepTypes DEF Arm, JobPlaces
  <2> QED BY <1>1, <2>1 DEF Arm, Armed
<1>2. CASE Begin
  <2>1. job.pc = "begin" /\ job'.pc = "first" /\ UNCHANGED alarm
    BY <1>0, <1>2, StepTypes DEF Begin, JobPlaces
  <2>2. pending \in Tasks /\ pending'.attempts = pending.attempts + 1
        /\ pending.attempts \in Nat
    BY <1>0, <1>2, <2>1, BoundsAssumption DEF Begin, TaskOK, Tasks, BoundsAssumption
  <2>3. pending' # NoTask
    BY <2>2 DEF NoTask
  <2> QED BY <2>1, <2>3, NoJobTypes DEF Armed
<1>3. CASE Conclude
  <2>1. job.pc = "conclude" /\ job'.pc = "clear" /\ UNCHANGED <<pending, alarm>>
    BY <1>0, <1>3, StepTypes DEF Conclude, JobPlaces
  <2> QED BY <1>3, <2>1, NoJobTypes DEF Conclude, Armed
<1>4. CASE Fail
  <2>1. /\ job.pc \in {"transient", "final"} /\ UNCHANGED <<pending, alarm>>
        /\ \/ lastResult' = "retry_scheduled" /\ job'.pc = "rearm"
           \/ lastResult' = "needs_review" /\ job'.pc = "clear"
    BY <1>0, <1>4 DEF Fail, JobType
  <2>2. pending # NoTask
    BY <1>0, <2>1 DEF TaskOK
  <2> QED BY <2>1, <2>2, NoJobTypes DEF Armed
<1>5. CASE Clear
  <2>1. /\ job.pc = "clear" /\ job'.pc = "disarm" /\ pending' = NoTask
        /\ UNCHANGED <<alarm, lastResult>>
    BY <1>0, <1>5, StepTypes DEF Clear, JobPlaces
  <2>2. ~(pending'.attempts > 0)
    BY <2>1 DEF NoTask
  <2> QED BY <2>1, <2>2, NoJobTypes DEF Armed
<1> QED BY <1>1, <1>2, <1>3, <1>4, <1>5

\* The steps that start a job or end one, in order or not.
LEMMA ArmedStartsEnds ==
  ASSUME TypeInv, Armed,
         (\E c \in Callers : Accept(c)) \/ AlarmFires \/ Rearm \/ Disarm \/ Evict
  PROVE  Armed'
<1>0. job \in JobType /\ pending \in Tasks \cup {NoTask} /\ TaskOK
      /\ alarm \in {"off", "set", "fired"}
  BY DEF TypeInv, TypeOK
<1>1. CASE \E c \in Callers : Accept(c)
  <2>1. job = NoJob /\ job'.pc = "arm" /\ UNCHANGED <<alarm, lastResult>>
        /\ pending'.attempts = 0
    <3>1. PICK c \in Callers : Accept(c)
      BY <1>1
    <3>2. job = NoJob /\ UNCHANGED <<alarm, lastResult>> /\ pending'.attempts = 0
      BY <3>1 DEF Accept
    <3>3. job'.pc = "arm"
      BY <3>1, NoJobTypes DEF Accept, JobType
    <3> QED BY <3>2, <3>3
  <2>2. pending' # NoTask
    BY <2>1 DEF NoTask
  <2> QED BY <2>1, <2>2, NoJobTypes DEF Armed
<1>2. CASE AlarmFires
  <2>1. CASE pending = NoTask
    <3>1. job = NoJob /\ alarm' = "off" /\ UNCHANGED <<job, pending, lastResult>>
      BY <1>2, <2>1 DEF AlarmFires
    <3>2. ~(pending'.attempts > 0)
      BY <2>1, <3>1 DEF NoTask
    <3> QED BY <2>1, <3>1, <3>2, NoJobTypes DEF Armed
  <2>2. CASE pending # NoTask
    <3>1. job'.pc = "begin" /\ alarm' = "fired" /\ UNCHANGED <<pending, lastResult>>
      BY <1>2, <2>2, NoJobTypes DEF AlarmFires, JobType
    <3> QED BY <2>2, <3>1, NoJobTypes DEF Armed
  <2> QED BY <2>1, <2>2
<1>3. CASE Rearm
  <2>1. /\ job.pc = "rearm" /\ job' = NoJob /\ alarm' = "set"
        /\ UNCHANGED <<pending, lastResult>>
    BY <1>3 DEF Rearm, Answer
  <2> QED BY <1>0, <2>1, NoJobTypes DEF TaskOK, Armed
<1>4. CASE Disarm
  <2>1. /\ job.pc = "disarm" /\ job' = NoJob /\ alarm' = "off"
        /\ UNCHANGED <<pending, lastResult>>
    BY <1>4 DEF Disarm, Answer
  <2>2. pending = NoTask /\ ~(pending.attempts > 0)
    BY <1>0, <2>1 DEF TaskOK, NoTask
  <2> QED BY <2>1, <2>2, NoJobTypes DEF Armed
<1>5. CASE Evict
  <2>1. /\ job' = NoJob /\ UNCHANGED <<pending, lastResult>>
        /\ alarm' = IF alarm = "fired" THEN "set" ELSE alarm
    BY <1>5 DEF Evict
  <2> QED BY <1>0, <2>1, NoJobTypes DEF Armed
<1> QED BY <1>1, <1>2, <1>3, <1>4, <1>5

LEMMA ArmedKept ==
  ASSUME TypeInv, Armed, [Next]_vars
  PROVE  Armed'
<1>1. CASE Land \/ UNCHANGED vars
  BY <1>1, ArmedElsewhere DEF Land, vars, storage
<1>2. ASSUME NEW c \in Callers, CallStep(c) \/ CallerEvicted(c) \/ Reverse(c)
      PROVE  Armed'
  BY <1>2, ArmedElsewhere
     DEF CallStep, Seek, Find, Write, Session, Balance, Look, Create, CallerEvicted,
         Reverse, storage
<1>3. ASSUME NEW c \in Callers, Accept(c) PROVE Armed'
  BY <1>3, ArmedStartsEnds
<1>4. CASE AlarmFires \/ Evict
  BY <1>4, ArmedStartsEnds
<1>5. CASE JobStep
  BY <1>5, ArmedReads, ArmedStores, ArmedStartsEnds DEF JobStep
<1> QED BY <1>1, <1>2, <1>3, <1>4, <1>5 DEF Next

-----------------------------------------------------------------------------
(* The rows: what is verified stays so, or is reversed.                    *)

Grows ==
  \A c \in Callers : rows[c].state \in {"verified", "reversed"}
                       => rows'[c].state \in {"verified", "reversed"}

LEMMA OneCallMoves ==
  ASSUME RowsInv, NEW c \in Callers, CallOK(c)', UNCHANGED rows,
         \A d \in Callers \ {c} : call'[d] = call[d]
  PROVE  RowsInv' /\ Grows
<1>1. ASSUME NEW d \in Callers PROVE CallOK(d)' /\ RowOK(d)'
  <2>1. CASE d = c
    BY <2>1 DEF RowsInv, RowOK
  <2>2. CASE d # c
    BY <2>2 DEF RowsInv, CallOK, RowOK
  <2> QED BY <2>1, <2>2
<1> QED BY <1>1 DEF RowsInv, Grows

\* A row is written by a call of its reference: its own, or one that is there.
LEMMA OneRowMoves ==
  ASSUME TypeInv, RowsInv, NEW c \in Callers, NEW t \in Callers,
         t = c \/ rows[t].state # "none",
         \A d \in Callers \ {t} : rows'[d] = rows[d],
         rows'[t].state # "none", RowOK(t)',
         rows[t].state \in {"verified", "reversed"}
           => rows'[t].state \in {"verified", "reversed"},
         CallOK(c)', \A d \in Callers \ {c} : call'[d] = call[d]
  PROVE  RowsInv' /\ Grows
<1>1. ASSUME NEW d \in Callers PROVE CallOK(d)'
  <2>1. CASE d = c
    BY <2>1
  <2>2. CASE d # c
    <3>0. call'[d] = call[d] /\ call[d].found \in Callers \cup {Nobody} /\ CallOK(d)
      BY <2>2 DEF TypeInv, TypeOK, CallType, RowsInv
    <3>1. rows[d].state = "none" => rows'[d] = rows[d]
      BY <2>2
    <3>2. \A e \in Callers : rows[e].state # "none" => rows'[e].state # "none"
      OBVIOUS
    <3> QED BY <3>0, <3>1, <3>2 DEF CallOK
  <2> QED BY <2>1, <2>2
<1>2. ASSUME NEW d \in Callers PROVE RowOK(d)'
  BY DEF RowsInv, RowOK
<1> QED BY <1>1, <1>2 DEF RowsInv, Grows

LEMMA CallStepRows ==
  ASSUME TypeInv, RowsInv, Alone, NEW c \in Callers,
         Seek(c) \/ Find(c) \/ Session(c) \/ Balance(c) \/ Look(c) \/ CallerEvicted(c)
  PROVE  RowsInv' /\ Grows
<1>0. /\ call \in [Callers -> CallType] /\ CallOK(c) /\ UNCHANGED rows
      /\ c \in Intents => c \notin Notices /\ c \notin Activations
      /\ c \in Activations => c \notin Notices
      /\ c \in Callers <=> c \in Notices \/ c \in Intents \/ c \in Activations
  BY CallersAssumption
  DEF TypeInv, TypeOK, RowsInv, CallersAssumption, Callers, Seek, Find, Session,
      Balance, Look, CallerEvicted
<1>1. ASSUME NEW what \in Told, Tell(c, what) PROVE RowsInv' /\ Grows
  BY <1>0, <1>1, TellTypes, OneCallMoves DEF CallOK
<1>2. ASSUME NEW place \in {"find", "write", "ask", "session"}, Goto(c, place),
             place = "find" => c \in Intents,
             place = "session" => c \in Notices,
             place = "ask" => c \in Notices \cup Activations,
             place = "write" => c \in Notices \cup Intents,
             c \notin Notices /\ place \in {"find", "write"} => rows[c].state = "none"
      PROVE  RowsInv' /\ Grows
  <2>1. place \in Places
    BY DEF Places
  <2>2. CallOK(c)'
    BY <1>0, <1>2, <2>1, GotoTypes DEF CallOK
  <2> QED BY <1>0, <1>2, <2>1, <2>2, GotoTypes, OneCallMoves
<1>3. {"ok", "failed", "unknown"} \subseteq Told
  BY DEF Told
<1>4. CASE Seek(c)
  BY <1>0, <1>1, <1>2, <1>3, <1>4 DEF Seek, CallOK
<1>5. CASE Find(c)
  <2>0. \/ c \in Notices
        \/ c \in Intents /\ rows[c].state = "none"
    BY <1>0, <1>5 DEF Find, CallOK
  <2>1. CASE Goto(c, "write") \/ Tell(c, "failed")
    BY <1>0, <1>1, <1>2, <1>3, <2>0, <2>1
  <2>2. CASE \E d \in RowsOf(RefOf[c]) :
               call' = [call EXCEPT ![c].at = "write", ![c].found = d,
                                    ![c].verified = rows[d].state = "verified"]
    <3>1. PICK d \in RowsOf(RefOf[c]) :
            call' = [call EXCEPT ![c].at = "write", ![c].found = d,
                                 ![c].verified = rows[d].state = "verified"]
      BY <2>2
    <3>2. d \in Callers /\ RefOf[d] = RefOf[c] /\ rows[d].state # "none"
          /\ RowOK(d)
      BY DEF RowsOf, RowsInv
    <3>3. c \in Intents => rows[d].state = "verified"
      <4>1. c \in Intents => d \in Notices
        BY <2>0, <3>2, <1>0 DEF Alone, Callers
      <4>2. rows[d].state \in {"none", "pending", "verified", "reversed"}
        BY <3>2 DEF TypeInv, TypeOK, Ledger, RowType
      <4> QED BY <3>2, <4>1, <4>2 DEF RowOK
    <3>4. /\ call'[c].at = "write" /\ call'[c].found = d
          /\ c \in Intents => call'[c].verified
          /\ \A e \in Callers \ {c} : call'[e] = call[e]
      BY <1>0, <3>1, <3>3 DEF CallType
    <3>5. CallOK(c)'
      BY <1>0, <2>0, <3>2, <3>4, CallersAssumption DEF CallOK, CallersAssumption
    <3> QED BY <1>0, <3>4, <3>5, OneCallMoves
  <2> QED BY <1>5, <2>1, <2>2 DEF Find
<1>6. CASE Session(c)
  BY <1>0, <1>1, <1>2, <1>3, <1>6 DEF Session, CallOK
<1>7. CASE Balance(c)
  <2>1. CASE call' = [call EXCEPT ![c].at = "look", ![c].due = Due]
    <3>1. call'[c].at = "look" /\ \A e \in Callers \ {c} : call'[e] = call[e]
      BY <1>0, <2>1 DEF CallType
    <3>2. CallOK(c)'
      BY <1>0, <1>7, <3>1 DEF CallOK, Balance
    <3> QED BY <1>0, <3>1, <3>2, OneCallMoves
  <2>2. CASE Tell(c, "failed")
    BY <1>1, <1>3, <2>2
  <2> QED BY <1>7, <2>1, <2>2 DEF Balance
<1>8. CASE Look(c)
  <2>1. CASE call' = [call EXCEPT ![c].at = "create"]
    <3>1. call'[c].at = "create" /\ \A e \in Callers \ {c} : call'[e] = call[e]
      BY <1>0, <2>1 DEF CallType
    <3>2. CallOK(c)'
      BY <1>0, <1>8, <3>1 DEF CallOK, Look
    <3> QED BY <1>0, <3>1, <3>2, OneCallMoves
  <2>2. CASE Goto(c, "ask") \/ Tell(c, "failed")
    BY <1>0, <1>1, <1>2, <1>3, <1>8, <2>2 DEF CallOK, Look
  <2> QED BY <1>8, <2>1, <2>2 DEF Look
<1>9. CASE CallerEvicted(c)
  BY <1>1, <1>3, <1>9 DEF CallerEvicted
<1> QED BY <1>4, <1>5, <1>6, <1>7, <1>8, <1>9

LEMMA WriteRows ==
  ASSUME TypeInv, RowsInv, Alone, NEW c \in Callers, Write(c)
  PROVE  RowsInv' /\ Grows
<1> DEFINE target == IF call[c].found = Nobody THEN c ELSE call[c].found
           row == [state  |-> IF c \in Notices \/ call[c].verified
                              THEN "verified" ELSE "pending",
                   amount |-> AmountOf[RefOf[c]]]
<1>0. /\ call \in [Callers -> CallType] /\ rows \in Ledger /\ CallOK(c)
      /\ call[c].at = "write" /\ c \in Notices \cup Intents
      /\ c \in Intents => c \notin Notices
      /\ Nobody \notin Callers /\ call[c].found \in Callers \cup {Nobody}
  BY CallersAssumption
  DEF TypeInv, TypeOK, RowsInv, CallOK, CallersAssumption, Write, CallType
<1>1. PICK hit, bad \in BOOLEAN :
        /\ rows' = IF hit THEN [rows EXCEPT ![target] = row] ELSE rows
        /\ IF bad THEN Tell(c, "failed")
           ELSE IF c \in Notices THEN Goto(c, "session") ELSE Tell(c, "ok")
  BY DEF Write
<1>2. CallOK(c)' /\ \A d \in Callers \ {c} : call'[d] = call[d]
  <2>1. "failed" \in Told /\ "ok" \in Told /\ "session" \in Places
    BY DEF Told, Places
  <2>2. CASE Tell(c, "failed") \/ Tell(c, "ok")
    BY <1>0, <2>1, <2>2, TellTypes DEF CallOK
  <2>3. CASE Goto(c, "session") /\ c \in Notices
    BY <1>0, <2>1, <2>3, GotoTypes DEF CallOK
  <2> QED BY <1>1, <2>2, <2>3
<1>3. /\ target \in Callers /\ (target = c \/ rows[target].state # "none")
      /\ RefOf[target] = RefOf[c]
  BY <1>0 DEF CallOK
<1>4. CASE ~hit
  BY <1>1, <1>2, <1>4, OneCallMoves
<1>5. CASE hit
  <2>1. row.state \in {"verified", "pending"} /\ row.amount = AmountOf[RefOf[target]]
    BY <1>3
  <2>2. rows[target].state # "none" \/ c \in Notices => row.state = "verified"
    BY <1>0 DEF CallOK
  <2>3. \/ c \in Intents /\ target = c
        \/ row.state = "verified"
    BY <1>0, <2>2, <1>3
  <2> HIDE DEF target, row
  <2>4. PICK t \in Callers : t = target
    BY <1>3
  <2>5. rows'[t] = row /\ \A d \in Callers \ {t} : rows'[d] = rows[d]
    BY <1>0, <1>1, <1>5, <2>4 DEF Ledger
  <2>6. RowOK(t)'
    BY <1>0, <2>1, <2>3, <2>4, <2>5 DEF RowOK
  <2>7. rows[t].state \in {"verified", "reversed"} => rows'[t].state \in {"verified", "reversed"}
    BY <2>2, <2>4, <2>5
  <2> QED BY <1>2, <1>3, <2>1, <2>4, <2>5, <2>6, <2>7, OneRowMoves
<1> QED BY <1>4, <1>5

LEMMA CreateRows ==
  ASSUME TypeInv, RowsInv, NEW c \in Callers, Create(c)
  PROVE  RowsInv' /\ Grows
<1>0. /\ call \in [Callers -> CallType] /\ rows \in Ledger
      /\ c \in Activations /\ c \notin Notices /\ rows[c].state = "none"
  BY CallersAssumption
  DEF TypeInv, TypeOK, RowsInv, CallOK, CallersAssumption, Create
<1>1. CallOK(c)' /\ \A d \in Callers \ {c} : call'[d] = call[d]
  <2>1. "failed" \in Told /\ "ask" \in Places
    BY DEF Told, Places
  <2>2. CASE Tell(c, "failed")
    BY <1>0, <2>1, <2>2, TellTypes DEF CallOK
  <2>3. CASE Goto(c, "ask")
    BY <1>0, <2>1, <2>3, GotoTypes DEF CallOK
  <2> QED BY <2>2, <2>3 DEF Create
<1>2. CASE UNCHANGED rows
  BY <1>1, <1>2, OneCallMoves
<1>3. CASE rows' = [rows EXCEPT ![c] = [state |-> "pending", amount |-> call[c].due]]
  <2>1. rows'[c].state = "pending" /\ \A d \in Callers \ {c} : rows'[d] = rows[d]
    BY <1>0, <1>3 DEF Ledger
  <2>2. RowOK(c)'
    BY <1>0, <2>1 DEF RowOK
  <2> QED BY <1>0, <1>1, <2>1, <2>2, OneRowMoves
<1> QED BY <1>2, <1>3 DEF Create

LEMMA ReverseRows ==
  ASSUME TypeInv, RowsInv, Alone, NEW c \in Callers, Reverse(c)
  PROVE  RowsInv' /\ Grows
<1>1. /\ Intents = {} /\ rows[c].state = "verified" /\ UNCHANGED call
      /\ rows'[c].state = "reversed" /\ \A d \in Callers \ {c} : rows'[d] = rows[d]
  BY DEF Reverse, Alone, TypeInv, TypeOK, Ledger, RowType
<1>2. RowOK(c)'
  BY <1>1 DEF RowOK
<1>3. CallOK(c)'
  <2>0. CallOK(c) /\ call[c].found \in Callers \cup {Nobody}
    BY DEF RowsInv, TypeInv, TypeOK, CallType
  <2>1. \A e \in Callers : rows[e].state # "none" => rows'[e].state # "none"
    BY <1>1
  <2> QED BY <1>1, <2>0, <2>1 DEF CallOK
<1> QED BY <1>1, <1>2, <1>3, OneRowMoves

LEMMA JobRows ==
  ASSUME RowsInv, UNCHANGED rows,
         \A c \in Callers : \/ call'[c] = call[c]
                            \/ call'[c].at = "done"
  PROVE  RowsInv' /\ Grows
<1>1. ASSUME NEW d \in Callers PROVE CallOK(d)' /\ RowOK(d)'
  BY DEF RowsInv, CallOK, RowOK
<1> QED BY <1>1 DEF RowsInv, Grows

LEMMA RowsKept ==
  ASSUME TypeInv, RowsInv, Alone, [Next]_vars
  PROVE  RowsInv' /\ Grows
<1>1. ASSUME NEW c \in Callers, CallStep(c) PROVE RowsInv' /\ Grows
  BY <1>1, CallStepRows, WriteRows, CreateRows DEF CallStep
<1>2. ASSUME NEW c \in Callers, CallerEvicted(c) \/ Reverse(c) PROVE RowsInv' /\ Grows
  BY <1>2, CallStepRows, ReverseRows
<1>3. CASE Rearm \/ Disarm
  <2>1. UNCHANGED rows /\ \A c \in Callers : call'[c] = call[c] \/ call'[c].at = "done"
    BY <1>3, AnswerTypes DEF Rearm, Disarm
  <2> QED BY <2>1, JobRows
<1>4. CASE Evict
  <2>1. UNCHANGED rows /\ \A c \in Callers : call'[c] = call[c] \/ call'[c].at = "done"
    BY <1>4, EvictCalls DEF Evict
  <2> QED BY <2>1, JobRows
<1>5. CASE \/ Arm \/ Begin \/ ReadFirst \/ ReadFresh \/ Patch \/ ReadBack \/ Conclude
           \/ Fail \/ Clear \/ AlarmFires \/ Land \/ UNCHANGED vars
           \/ \E c \in Callers : Accept(c)
  <2>1. UNCHANGED <<rows, call>>
    BY <1>5 DEF Arm, Begin, ReadFirst, ReadFresh, Patch, ReadBack, Conclude, Fail,
       Clear, AlarmFires, Land, vars, Accept
  <2> QED BY <2>1, JobRows
<1> QED BY <1>1, <1>2, <1>3, <1>4, <1>5 DEF Next, JobStep

LEMMA RowsInit == Init => RowsInv
BY DEF Init, RowsInv, CallOK, RowOK, NoRows, NoRow, NewCall

\* So what was ever paid only grows.
LEMMA PaidGrows ==
  ASSUME Grows, EverVerified' \subseteq Refs
  PROVE  EverVerified \subseteq EverVerified' /\ Paid \in Nat /\ Paid' \in Nat /\ Paid <= Paid'
<1>1. EverVerified \subseteq EverVerified'
  BY DEF Grows, EverVerified
<1>2. Paid = SumOfRefs(EverVerified) /\ Paid' = SumOfRefs(EverVerified')
  BY DEF Paid, SumOfRefs
<1>3. EverVerified' \in SUBSET Refs /\ EverVerified \in SUBSET EverVerified'
  BY <1>1
<1> HIDE DEF Paid, EverVerified
<1> QED BY <1>1, <1>2, <1>3, SumOfRefsOK

-----------------------------------------------------------------------------
(* What a step of a call is, and what it may tell.                         *)

LEMMA CallMoves ==
  ASSUME TypeInv, RowsInv, NEW c \in Callers, CallStep(c) \/ CallerEvicted(c)
  PROVE  /\ \A d \in Callers \ {c} : call'[d] = call[d]
         /\ UNCHANGED <<shown, flight, storage, job>>
         /\ \/ call'[c].told = call[c].told
            \/ call'[c].told \in {"nothing", "failed", "unknown"}
            \/ c \in Intents
         /\ c \in Notices /\ call'[c].at \in {"session", "ask"}
              => Write(c) \/ call[c].at = "session"
<1>0. /\ call \in [Callers -> CallType] /\ CallOK(c)
      /\ c \in Intents => c \notin Notices /\ c \notin Activations
      /\ c \in Activations => c \notin Notices
  BY CallersAssumption DEF TypeInv, TypeOK, RowsInv, CallersAssumption
<1>1. ASSUME \/ \E place \in Places : Goto(c, place)
             \/ \E what \in {"failed", "unknown"} : Tell(c, what)
             \/ \E what \in Told : c \in Intents /\ Tell(c, what)
      PROVE  /\ \A d \in Callers \ {c} : call'[d] = call[d]
             /\ \/ call'[c].told \in {"nothing", "failed", "unknown"}
                \/ c \in Intents
  <2>1. {"failed", "unknown"} \subseteq Told
    BY DEF Told
  <2> QED BY <1>0, <1>1, <2>1, GotoTypes, TellTypes
<1>2. /\ \A place \in {"find", "write", "session", "ask"} : place \in Places
      /\ "ok" \in Told /\ "failed" \in Told /\ "unknown" \in Told
  BY DEF Places, Told
<1>3. CASE Seek(c)
  <2>1. c \in Intents /\ UNCHANGED <<shown, flight, storage, job>>
    BY <1>3 DEF Seek, session
  <2> QED BY <1>0, <1>1, <1>2, <1>3, <2>1 DEF Seek
<1>4. CASE Find(c)
  <2>1. CASE Goto(c, "write")
    BY <1>0, <1>1, <1>2, <1>4, <2>1, GotoTypes DEF Find, session
  <2>2. CASE Tell(c, "failed")
    BY <1>0, <1>1, <1>2, <1>4, <2>2, TellTypes DEF Find, session
  <2>3. CASE \E d \in RowsOf(RefOf[c]) :
               call' = [call EXCEPT ![c].at = "write", ![c].found = d,
                                    ![c].verified = rows[d].state = "verified"]
    <3>1. PICK d \in RowsOf(RefOf[c]) :
            call' = [call EXCEPT ![c].at = "write", ![c].found = d,
                                 ![c].verified = rows[d].state = "verified"]
      BY <2>3
    <3>2. /\ call'[c].at = "write" /\ call'[c].told = call[c].told
          /\ \A e \in Callers \ {c} : call'[e] = call[e]
      BY <1>0, <3>1 DEF CallType
    <3> QED BY <1>4, <3>2 DEF Find, session
  <2> QED BY <1>4, <2>1, <2>2, <2>3 DEF Find
<1>5. CASE Write(c)
  <2>1. /\ c \in Notices \/ c \in Intents
        /\ \/ Tell(c, "failed")
           \/ c \in Notices /\ Goto(c, "session")
           \/ c \notin Notices /\ Tell(c, "ok")
    <3>1. c \in Notices \cup Intents
      BY <1>0, <1>5 DEF Write, CallOK
    <3> QED BY <1>5, <3>1 DEF Write
  <2> QED BY <1>1, <1>2, <1>5, <2>1 DEF Write, session
<1>6. CASE Session(c)
  BY <1>1, <1>2, <1>6 DEF Session
<1>7. CASE Balance(c) \/ Look(c) \/ Create(c)
  <2>0. c \in Activations /\ c \notin Notices /\ UNCHANGED <<shown, flight, storage, job>>
    BY <1>0, <1>7 DEF Balance, Look, Create, CallOK, session
  <2>1. CASE Goto(c, "ask") \/ Tell(c, "failed")
    BY <1>1, <1>2, <2>0, <2>1
  <2>2. CASE \/ call' = [call EXCEPT ![c].at = "look", ![c].due = Due]
             \/ call' = [call EXCEPT ![c].at = "create"]
    <3>1. call'[c].told = call[c].told /\ \A e \in Callers \ {c} : call'[e] = call[e]
      BY <1>0, <2>2 DEF CallType
    <3> QED BY <2>0, <3>1
  <2> QED BY <1>7, <2>1, <2>2 DEF Balance, Look, Create
<1>8. CASE CallerEvicted(c)
  <2>1. call'[c].at = "done"
    BY <1>0, <1>2, <1>8, TellTypes DEF CallerEvicted
  <2> QED BY <1>1, <1>8, <2>1 DEF CallerEvicted, session
<1> QED BY <1>3, <1>4, <1>5, <1>6, <1>7, <1>8 DEF CallStep

\* The answers of the coordinator, and its eviction, inform those it works for.
LEMMA JobTells ==
  ASSUME TypeInv, Rearm \/ Disarm \/ Evict
  PROVE  /\ job' = NoJob /\ UNCHANGED <<rows, shown, flight>>
         /\ \A c \in Callers :
              \/ call'[c] = call[c]
              \/ /\ c = job.by /\ call[c].at = "ask" /\ call'[c].at = "done"
                 /\ call'[c].told = "ok" => lastResult = "ok" /\ Disarm
              \/ /\ call'[c].at = "done"
                 /\ call'[c].told \in {"retry_required", "failed"}
<1>1. CASE Evict
  BY <1>1, EvictCalls DEF Evict, session
<1>2. CASE Rearm
  <2>1. lastResult = "retry_scheduled" /\ job.pc = "rearm"
    BY <1>2 DEF Rearm, TypeInv, ResultOK
  <2> QED BY <1>2, <2>1, AnswerTypes DEF Rearm, session
<1>3. CASE Disarm
  BY <1>3, AnswerTypes DEF Disarm, session
<1> QED BY <1>1, <1>2, <1>3

\* The steps of the coordinator in between change no call.
BetweenSteps ==
  \/ Arm \/ Begin \/ ReadFirst \/ ReadFresh \/ Patch \/ ReadBack \/ Conclude
  \/ Fail \/ Clear

LEMMA JobMoves ==
  ASSUME TypeInv, BetweenSteps
  PROVE  /\ UNCHANGED <<rows, call>> /\ job'.by = job.by
         /\ job.pc \notin {"idle", "rearm", "disarm"}
         /\ job' \in JobType
<1>1. /\ UNCHANGED <<rows, call>>
      /\ job.pc \notin {"idle", "rearm", "disarm"}
  BY DEF BetweenSteps, Arm, Begin, ReadFirst, ReadFresh, Patch, ReadBack, Conclude,
     Fail, Clear, Failing, Step, StepBlind
<1>2. job \in JobType
  BY DEF TypeInv, TypeOK
<1>3. job'.by = job.by
  BY <1>2 DEF BetweenSteps, Arm, Begin, ReadFirst, ReadFresh, Patch, ReadBack,
     Conclude, Fail, Clear, Failing, Step, StepBlind, JobType
<1>4. [Next]_vars
  BY DEF BetweenSteps, Next, JobStep
<1> QED BY <1>1, <1>3, <1>4, TypesKept DEF TypeInv, TypeOK

LEMMA NextKinds ==
  ASSUME [Next]_vars
  PROVE  \/ \E c \in Callers : CallStep(c) \/ CallerEvicted(c)
         \/ \E c \in Callers : Reverse(c)
         \/ \E c \in Callers : Accept(c)
         \/ Rearm \/ Disarm \/ Evict
         \/ BetweenSteps
         \/ AlarmFires
         \/ Land
         \/ UNCHANGED vars
BY DEF Next, JobStep, BetweenSteps

-----------------------------------------------------------------------------
(* Whoever was answered with a result has its payment in the ledger.       *)

LEMMA WriteIsPaid ==
  ASSUME TypeInv, RowsInv, NEW n \in Notices, Write(n), call'[n].at \in {"session", "ask"}
  PROVE  RefOf[n] \in EverVerified'
<1> DEFINE target == IF call[n].found = Nobody THEN n ELSE call[n].found
           row == [state  |-> IF n \in Notices \/ call[n].verified
                              THEN "verified" ELSE "pending",
                   amount |-> AmountOf[RefOf[n]]]
<1>0. /\ n \in Callers /\ call \in [Callers -> CallType] /\ rows \in Ledger /\ CallOK(n)
      /\ call[n].found \in Callers \cup {Nobody} /\ call[n].at = "write"
  BY DEF Callers, TypeInv, TypeOK, RowsInv, Write, CallType
<1>1. PICK hit, bad \in BOOLEAN :
        /\ Tried(hit, bad)
        /\ rows' = IF hit THEN [rows EXCEPT ![target] = row] ELSE rows
        /\ IF bad THEN Tell(n, "failed")
           ELSE IF n \in Notices THEN Goto(n, "session") ELSE Tell(n, "ok")
  BY DEF Write
<1>2. ~bad
  <2>1. "failed" \in Told
    BY DEF Told
  <2> QED BY <1>0, <1>1, <2>1, TellTypes
<1>3. hit
  BY <1>1, <1>2 DEF Tried
<1>4. target \in Callers /\ RefOf[target] = RefOf[n] /\ row.state = "verified"
  BY <1>0 DEF CallOK
<1>5. PICK t \in Callers : t = target
  BY <1>4
<1>6. rows'[t].state = "verified"
  <2> HIDE DEF target, row
  <2> QED BY <1>0, <1>1, <1>3, <1>4, <1>5 DEF Ledger
<1>7. RefOf[t] = RefOf[n]
  BY <1>4, <1>5
<1> QED BY <1>6, <1>7 DEF EverVerified

LEMMA WroteKept ==
  ASSUME TypeInv, RowsInv, Alone, WroteInv, [Next]_vars
  PROVE  WroteInv'
<1>1. SUFFICES ASSUME NEW n \in Notices, Wrote(n)', RefOf[n] \notin EverVerified'
               PROVE  FALSE
  BY DEF WroteInv
<1>2. n \in Callers /\ Nobody \notin Callers
  BY CallersAssumption DEF CallersAssumption, Callers
<1>3. EverVerified \subseteq EverVerified'
  BY RowsKept DEF Grows, EverVerified
<1>4. ~Wrote(n)
  BY <1>1, <1>3 DEF WroteInv
<1>5. ASSUME NEW c \in Callers, CallStep(c) \/ CallerEvicted(c) PROVE FALSE
  <2>1. CASE c # n
    <3>1. call'[n] = call[n] /\ job' = job
      BY <1>2, <1>5, <2>1, CallMoves
    <3> QED BY <1>1, <1>4, <3>1 DEF Wrote, Informed
  <2>2. CASE c = n
    <3>1. /\ job' = job
          /\ \/ call'[n].told = call[n].told
             \/ call'[n].told \in {"nothing", "failed", "unknown"}
          /\ call'[n].at \in {"session", "ask"} => Write(n) \/ call[n].at = "session"
      BY <1>5, <2>2, CallMoves, CallersAssumption DEF CallersAssumption
    <3>2. Informed(n)' => Informed(n)
      BY <3>1 DEF Informed
    <3>3. call'[n].at \in {"session", "ask"}
      BY <1>1, <1>4, <3>1, <3>2 DEF Wrote
    <3> QED BY <1>1, <1>4, <3>1, <3>3, WriteIsPaid DEF Wrote
  <2> QED BY <2>1, <2>2
<1>6. CASE \E c \in Callers : Reverse(c)
  <2>1. UNCHANGED <<call, job>>
    BY <1>6 DEF Reverse
  <2> QED BY <1>1, <1>4, <2>1 DEF Wrote, Informed
<1>7. ASSUME NEW c \in Callers, Accept(c) PROVE FALSE
  <2>1. UNCHANGED call /\ job'.by = c /\ call[c].at = "ask"
    BY <1>7 DEF Accept, NoJob
  <2> QED BY <1>1, <1>4, <2>1 DEF Wrote, Informed
<1>8. CASE Rearm \/ Disarm \/ Evict
  <2>1. /\ job'.by = Nobody
        /\ \/ call'[n] = call[n]
           \/ n = job.by
           \/ call'[n].at = "done" /\ call'[n].told \in {"retry_required", "failed"}
    BY <1>2, <1>8, JobTells, NoJobTypes
  <2> QED BY <1>1, <1>2, <1>4, <2>1 DEF Wrote, Informed
<1>9. CASE BetweenSteps
  BY <1>1, <1>4, <1>9, JobMoves DEF Wrote, Informed
<1>10. CASE AlarmFires \/ Land \/ UNCHANGED vars
  <2>1. UNCHANGED call /\ (job'.by = job.by \/ job'.by = Nobody)
    BY <1>10, NoJobTypes DEF AlarmFires, Land, vars, NoJob
  <2> QED BY <1>1, <1>2, <1>4, <2>1 DEF Wrote, Informed
<1> QED BY <1>5, <1>6, <1>7, <1>8, <1>9, <1>10, NextKinds

LEMMA WroteInit == Init => WroteInv
BY CallersAssumption
DEF Init, WroteInv, Wrote, Informed, NewCall, NoJob, CallersAssumption, Callers

-----------------------------------------------------------------------------
(* What is shown.                                                          *)

LEMMA ShownKept ==
  ASSUME TypeInv, RowsInv, ShownInv, Paid \in Nat, Paid' \in Nat, Paid <= Paid',
         [Next]_vars
  PROVE  ShownInv'
<1> HIDE DEF Paid
<1>0. /\ shown \in Nat /\ flight \subseteq Nat /\ job \in JobType /\ rows \in Ledger
      /\ job.seen \in Ledger
  BY DEF TypeInv, TypeOK, JobType
<1>1. Received(job.seen) \in Nat /\ Received(rows) \in Nat
  BY <1>0, ReceivedNat
<1>2. ASSUME UNCHANGED <<shown, flight>>,
             job'.pc \in {"fresh", "patch"} =>
               job.pc \in {"fresh", "patch"} /\ job'.seen = job.seen
      PROVE  ShownInv'
  BY <1>0, <1>1, <1>2 DEF ShownInv
<1>3. CASE \E c \in Callers : CallStep(c) \/ CallerEvicted(c)
  BY <1>2, <1>3, CallMoves
<1>4. CASE \/ \E c \in Callers : Reverse(c) \/ Accept(c)
           \/ AlarmFires \/ UNCHANGED vars
  <2>1. UNCHANGED <<shown, flight>> /\ (UNCHANGED job \/ job'.pc \in {"arm", "begin"})
    BY <1>4, NoJobTypes DEF Reverse, Accept, AlarmFires, session, vars, NoJob
  <2> QED BY <1>2, <2>1
<1>5. CASE Rearm \/ Disarm \/ Evict
  BY <1>2, <1>5, JobTells, NoJobTypes
<1>6. CASE Land
  <2>1. PICK sum \in flight : shown' = sum /\ flight' = flight \ {sum}
    BY <1>6 DEF Land
  <2>2. UNCHANGED job
    BY <1>6 DEF Land
  <2>3. sum \in Nat /\ sum <= Paid /\ \A u \in flight' : u \in Nat /\ u <= Paid
    BY <1>0, <2>1 DEF ShownInv
  <2>4. Received(job'.seen) = Received(job.seen)
    BY <2>2
  <2> QED BY <1>0, <1>1, <2>1, <2>2, <2>3, <2>4 DEF ShownInv
<1>7. CASE ReadFirst
  <2>1. CASE Failing("first")
    BY <1>0, <1>2, <1>7, <2>1 DEF Failing, StepBlind, ReadFirst, session, JobType
  <2>2. CASE Readable /\ job' = [job EXCEPT !.pc = "fresh", !.seen = rows]
    <3>1. Received(job'.seen) = Paid
      BY <1>0, <2>2, ReceivedIsPaid DEF Readable, JobType
    <3>2. UNCHANGED <<shown, flight>>
      BY <1>7 DEF ReadFirst, session
    <3> QED BY <1>0, <3>1, <3>2 DEF ShownInv
  <2> QED BY <1>7, <2>1, <2>2 DEF ReadFirst
<1>8. CASE Patch
  <2>1. job.pc = "patch" /\ job'.pc \in {"verify", "transient", "final"}
    BY <1>0, <1>8 DEF Patch, Step, StepBlind, JobType
  <2>2. /\ shown' \in {shown, Received(job.seen)}
        /\ flight' \in {flight, flight \cup {Received(job.seen)}}
    BY <1>8 DEF Patch
  <2> QED BY <1>0, <1>1, <2>1, <2>2 DEF ShownInv
<1>9. CASE Arm \/ Begin \/ ReadFresh \/ ReadBack \/ Conclude \/ Fail \/ Clear
  <2>1. UNCHANGED <<shown, flight>>
    BY <1>9 DEF Arm, Begin, ReadFresh, ReadBack, Conclude, Fail, Clear, session
  <2>2. job'.pc \in {"fresh", "patch"} => job.pc = "fresh" /\ job'.seen = job.seen
    BY <1>0, <1>9 DEF Arm, Begin, ReadFresh, ReadBack, Conclude, Fail, Clear, Failing,
       Step, StepBlind, JobType
  <2> QED BY <1>2, <2>1, <2>2
<1> QED BY <1>3, <1>4, <1>5, <1>6, <1>7, <1>8, <1>9, NextKinds DEF BetweenSteps

LEMMA SumOfNone == SumOfRefs({}) = 0
<1>1. DOMAIN [ref \in {} |-> AmountOf[ref]] = {}
  OBVIOUS
<1> QED BY <1>1, SumOfNothing DEF SumOfRefs

LEMMA PaidInit == Init => Paid = 0
<1> SUFFICES ASSUME Init PROVE Paid = 0
  OBVIOUS
<1>1. EverVerified = {}
  BY DEF Init, EverVerified, NoRows, NoRow
<1>2. Paid = SumOfRefs(EverVerified)
  BY DEF Paid, SumOfRefs
<1> HIDE DEF Paid
<1> QED BY <1>1, <1>2, SumOfNone

LEMMA ShownInit == Init => ShownInv
<1> SUFFICES ASSUME Init PROVE ShownInv
  OBVIOUS
<1>1. Paid = 0
  BY PaidInit
<1> HIDE DEF Paid
<1> QED BY <1>1, NoJobTypes DEF Init, ShownInv

-----------------------------------------------------------------------------
(* Where writes are made in time, the amount shown only rises.             *)

LEMMA KnownRefsType == KnownRefs \subseteq Refs
BY CallersAssumption DEF CallersAssumption, Callers, KnownRefs

LEMMA KnownIsPaid ==
  ASSUME WroteInv
  PROVE  KnownRefs \subseteq EverVerified /\ SumOfRefs(KnownRefs) <= Paid
<1>1. KnownRefs \subseteq EverVerified
  BY DEF KnownRefs, WroteInv, Wrote
<1>2. Paid = SumOfRefs(EverVerified)
  BY DEF Paid, SumOfRefs
<1>3. EverVerified \in SUBSET Refs /\ KnownRefs \in SUBSET EverVerified
  BY <1>1, EverVerifiedType
<1> HIDE DEF Paid, EverVerified, KnownRefs
<1> QED BY <1>1, <1>2, <1>3, SumOfRefsOK

\* The coordinator does not come to know of more while it ends a job.
LEMMA RisingKept ==
  ASSUME TypeInv, RowsInv, WroteInv, ShownInv, RisingInv, LatePatches = FALSE,
         [Next]_vars
  PROVE  RisingInv'
<1>0. /\ shown \in Nat /\ job \in JobType /\ rows \in Ledger /\ flight = {}
      /\ job.seen \in Ledger /\ Received(job.seen) \in Nat
  BY ReceivedNat DEF TypeInv, TypeOK, JobType, RisingInv
<1>1. ASSUME UNCHANGED <<shown, flight>>,
             job'.pc = "patch" => job.pc = "patch" /\ job'.seen = job.seen,
             Succeeds' => Succeeds /\ KnownRefs' \subseteq KnownRefs
      PROVE  RisingInv'
  <2>1. CASE Succeeds'
    <3>1. KnownRefs \in SUBSET Refs /\ KnownRefs' \in SUBSET KnownRefs
      BY <1>1, <2>1, KnownRefsType
    <3>2. /\ SumOfRefs(KnownRefs') <= SumOfRefs(KnownRefs)
          /\ SumOfRefs(KnownRefs) \in Nat /\ SumOfRefs(KnownRefs') \in Nat
      <4> HIDE DEF KnownRefs, SumOfRefs
      <4> QED BY <3>1, SumOfRefsOK
    <3>3. SumOfRefs(KnownRefs)' = SumOfRefs(KnownRefs')
      BY DEF SumOfRefs
    <3>4. SumOfRefs(KnownRefs) <= shown
      BY <1>1, <2>1 DEF RisingInv
    <3> HIDE DEF KnownRefs, SumOfRefs
    <3>5. SumOfRefs(KnownRefs)' <= shown'
      BY <1>0, <1>1, <3>2, <3>3, <3>4
    <3> QED BY <1>0, <1>1, <3>5 DEF RisingInv
  <2>2. CASE ~Succeeds'
    BY <1>0, <1>1, <2>2 DEF RisingInv
  <2> QED BY <2>1, <2>2
<1>2. ASSUME UNCHANGED <<shown, flight>>,
             job'.pc \notin {"patch", "conclude", "clear", "disarm"}
      PROVE  RisingInv'
  BY <1>1, <1>2 DEF Succeeds
<1>3. ASSUME NEW c \in Callers, CallStep(c) \/ CallerEvicted(c) PROVE RisingInv'
  <2>1. /\ UNCHANGED <<shown, flight, storage, job>>
        /\ \A d \in Callers \ {c} : call'[d] = call[d]
        /\ \/ call'[c].told = call[c].told
           \/ call'[c].told \in {"nothing", "failed", "unknown"}
           \/ c \in Intents
    BY <1>3, CallMoves
  <2>2. \A n \in Notices : Informed(n)' => Informed(n)
    BY <2>1, CallersAssumption DEF CallersAssumption, Callers, Informed
  <2>3. KnownRefs' \subseteq KnownRefs
    BY <2>1, <2>2 DEF KnownRefs
  <2>4. Succeeds' => Succeeds
    BY <2>1 DEF Succeeds, storage
  <2> QED BY <1>1, <2>1, <2>3, <2>4
<1>4. CASE \/ \E c \in Callers : Reverse(c)
           \/ UNCHANGED vars
  <2>1. UNCHANGED <<shown, flight, job, lastResult, call>>
    BY <1>4 DEF Reverse, vars, session, storage
  <2>2. Succeeds' => Succeeds /\ KnownRefs' \subseteq KnownRefs
    BY <2>1 DEF Succeeds, KnownRefs, Informed
  <2> QED BY <1>1, <2>1, <2>2
<1>5. CASE AlarmFires \/ \E c \in Callers : Accept(c)
  <2>1. /\ UNCHANGED <<shown, flight>>
        /\ job'.pc \in {"idle", "arm", "begin"}
    BY <1>5, NoJobTypes DEF Accept, AlarmFires, session, NoJob
  <2> QED BY <1>2, <2>1
<1>6. CASE Rearm \/ Disarm \/ Evict
  BY <1>2, <1>6, JobTells, NoJobTypes
<1>7. ~Land
  BY <1>0 DEF Land
<1>8. ASSUME BetweenSteps
      PROVE  KnownRefs' = KnownRefs
  <2>1. UNCHANGED call /\ job'.by = job.by
    BY <1>8, JobMoves
  <2> QED BY <2>1 DEF KnownRefs, Informed
<1>9. CASE Arm \/ Begin \/ ReadFirst
  <2>1. /\ UNCHANGED <<shown, flight>>
        /\ job'.pc \notin {"patch", "conclude", "clear", "disarm"}
    BY <1>0, <1>9 DEF Arm, Begin, ReadFirst, Failing, Step, StepBlind, JobType, session
  <2> QED BY <1>2, <2>1
<1>10. CASE ReadFresh
  <2>1. UNCHANGED <<shown, flight>>
    BY <1>10 DEF ReadFresh, session
  <2>2. CASE Failing("fresh")
    <3>1. job'.pc \in {"transient", "final"}
      BY <1>0, <2>2 DEF Failing, StepBlind, JobType
    <3> QED BY <1>2, <2>1, <3>1
  <2>3. CASE /\ Readable /\ rows = job.seen
             /\ Step("fresh", IF shown = Received(rows) THEN "verify" ELSE "patch")
    <3>1. Received(job.seen) = Paid
      BY <1>0, <2>3, ReceivedIsPaid DEF Readable
    <3>2. shown <= Paid
      BY DEF ShownInv
    <3>3. /\ job'.seen = job.seen /\ job'.pc \in {"verify", "patch"}
          /\ job'.pc = "patch" => shown # Received(job.seen)
      BY <1>0, <2>3 DEF Step, JobType
    <3> HIDE DEF Paid
    <3>4. job'.pc = "patch" => shown < Received(job.seen)
      BY <1>0, <3>1, <3>2, <3>3
    <3>5. ~Succeeds'
      BY <3>3 DEF Succeeds
    <3> QED BY <1>0, <2>1, <3>3, <3>4, <3>5 DEF RisingInv
  <2> QED BY <1>10, <2>2, <2>3 DEF ReadFresh
<1>11. CASE Patch
  <2>1. /\ job'.pc \in {"verify", "transient", "final"}
        /\ flight' = flight
    BY <1>0, <1>11 DEF Patch, Step, StepBlind, JobType
  <2> QED BY <1>0, <2>1 DEF RisingInv, Succeeds
<1>12. CASE ReadBack
  <2>1. UNCHANGED <<rows, shown, flight>>
    BY <1>12 DEF ReadBack, session
  <2>2. CASE Failing("verify")
    <3>1. job'.pc \in {"transient", "final"}
      BY <1>0, <2>2 DEF Failing, StepBlind, JobType
    <3> QED BY <1>2, <2>1, <3>1
  <2>3. CASE Readable /\ shown = Received(rows) /\ StepBlind("verify", "conclude")
    <3>1. Received(rows) = Paid
      BY <1>0, <2>3, ReceivedIsPaid DEF Readable
    <3>2. SumOfRefs(KnownRefs) <= Paid
      BY KnownIsPaid
    <3>3. SumOfRefs(KnownRefs)' = SumOfRefs(KnownRefs)
      <4>1. KnownRefs' = KnownRefs
        BY <1>8, <1>12 DEF BetweenSteps
      <4> QED BY <4>1 DEF SumOfRefs
    <3>4. job'.pc = "conclude"
      BY <1>0, <2>3 DEF StepBlind, JobType
    <3> HIDE DEF Paid, SumOfRefs
    <3> QED BY <1>0, <2>1, <2>3, <3>1, <3>2, <3>3, <3>4 DEF RisingInv
  <2> QED BY <1>12, <2>2, <2>3 DEF ReadBack
<1>13. CASE Conclude \/ Fail \/ Clear
  <2>1. UNCHANGED <<shown, flight>>
    BY <1>13 DEF Conclude, Fail, Clear, session
  <2>2. job'.pc \in {"clear", "rearm", "disarm"}
    BY <1>0, <1>13 DEF Conclude, Fail, Clear, Step, JobType
  <2>3. Succeeds' => Succeeds
    BY <1>0, <1>13, <2>2 DEF Conclude, Fail, Clear, Step, JobType, Succeeds
  <2>4. KnownRefs' = KnownRefs
    BY <1>8, <1>13 DEF BetweenSteps
  <2> QED BY <1>1, <2>1, <2>2, <2>3, <2>4
<1> QED BY <1>3, <1>4, <1>5, <1>6, <1>7, <1>9, <1>10, <1>11, <1>12, <1>13, NextKinds
        DEF BetweenSteps

LEMMA RisingInit == Init => RisingInv
BY NoJobTypes DEF Init, RisingInv, Succeeds

-----------------------------------------------------------------------------
(* The sum that was read back stays current.                               *)

\* A ledger with the same verified payments has the same sum.
LEMMA SameSum ==
  ASSUME NEW l, NEW m, Verified(l) = Verified(m),
         \A c \in Verified(m) : l[c].amount = m[c].amount
  PROVE  Received(l) = Received(m)
<1>1. [c \in Verified(l) |-> l[c].amount] = [c \in Verified(m) |-> m[c].amount]
  OBVIOUS
<1> QED BY <1>1 DEF Received

\* A call that has asked does nothing more of its own.
LEMMA AskedStays ==
  ASSUME TypeInv, RowsInv, NEW c \in Callers, CallStep(c) \/ CallerEvicted(c),
         call[c].at \in {"ask", "done"}
  PROVE  call'[c].at = "done" /\ call'[c].told = "unknown"
<1>1. ~CallStep(c)
  BY DEF CallStep, Seek, Find, Write, Session, Balance, Look, Create
<1>2. "unknown" \in Told
  BY DEF Told
<1> QED BY <1>1, <1>2, TellTypes DEF CallerEvicted, TypeInv, TypeOK

LEMMA JobByKept ==
  ASSUME TypeInv, RowsInv, JobByOK, [Next]_vars
  PROVE  JobByOK'
<1>0. job.by \in Callers \cup {Nobody}
  BY DEF TypeInv, TypeOK, JobType
<1>1. ASSUME NEW c \in Callers, CallStep(c) \/ CallerEvicted(c) PROVE JobByOK'
  <2>1. job' = job /\ \A d \in Callers \ {c} : call'[d] = call[d]
    BY <1>1, CallMoves
  <2>2. call[c].at \in {"ask", "done"} => call'[c].at = "done"
    BY <1>1, AskedStays
  <2> QED BY <1>0, <2>1, <2>2 DEF JobByOK
<1>2. CASE \E c \in Callers : Accept(c)
  <2>1. PICK c \in Callers : job'.by = c /\ call[c].at = "ask" /\ UNCHANGED call
    BY <1>2 DEF Accept, NoJob
  <2> QED BY <2>1 DEF JobByOK
<1>3. CASE Rearm \/ Disarm \/ Evict
  BY <1>3, JobTells, NoJobTypes DEF JobByOK
<1>4. CASE BetweenSteps
  BY <1>4, JobMoves DEF JobByOK
<1>5. CASE AlarmFires \/ Land \/ UNCHANGED vars \/ \E c \in Callers : Reverse(c)
  <2>1. UNCHANGED call /\ (job'.by = job.by \/ job'.by = Nobody)
    BY <1>5 DEF AlarmFires, Land, vars, NoJob, Reverse
  <2> QED BY <2>1 DEF JobByOK
<1> QED BY <1>1, <1>2, <1>3, <1>4, <1>5, NextKinds

\* A call that writes a row adds no verified payment, or is a verification that is
\* not heard of.
LEMMA WriteUnheard ==
  ASSUME TypeInv, RowsInv, Alone, NEW c \in Callers, Write(c)
  PROVE  \/ c \in Notices /\ ~Heard(c)'
         \/ c \in Intents /\ Received(rows') = Received(rows)
<1> DEFINE target == IF call[c].found = Nobody THEN c ELSE call[c].found
           row == [state  |-> IF c \in Notices \/ call[c].verified
                              THEN "verified" ELSE "pending",
                   amount |-> AmountOf[RefOf[c]]]
<1>0. /\ call \in [Callers -> CallType] /\ rows \in Ledger /\ CallOK(c)
      /\ call[c].at = "write" /\ call[c].found \in Callers \cup {Nobody}
      /\ Nobody \notin Callers
  BY CallersAssumption
  DEF TypeInv, TypeOK, RowsInv, CallOK, CallersAssumption, Write, CallType
<1>1. CASE c \in Notices
  <2>1. Tell(c, "failed") \/ Goto(c, "session")
    BY <1>1 DEF Write
  <2>2. "failed" \in Told /\ "session" \in Places
    BY DEF Told, Places
  <2>3. /\ call'[c].at \in {"done", "session"}
        /\ call'[c].told \in {"nothing", "failed"}
    BY <1>0, <2>1, <2>2, TellTypes, GotoTypes
  <2> QED BY <1>1, <2>3 DEF Heard, Informed
<1>2. CASE c \in Intents /\ c \notin Notices
  <2>1. rows' = [rows EXCEPT ![target] = row] \/ rows' = rows
    BY DEF Write
  <2>2. target \in Callers /\ RefOf[target] = RefOf[c]
    BY <1>0 DEF CallOK
  <2>3. PICK t \in Callers : t = target
    BY <2>2
  <2>4. \/ rows[t].state = "none" /\ row.state = "pending"
        \/ /\ rows[t].state = "verified" /\ row.state = "verified"
           /\ rows[t].amount = row.amount
    <3>1. CASE call[c].found = Nobody
      BY <1>0, <1>2, <2>3, <3>1 DEF CallOK
    <3>2. CASE call[c].found # Nobody
      <4>1. /\ RefOf[t] = RefOf[c] /\ rows[t].state # "none" /\ call[c].verified
            /\ rows[c].state = "none"
        BY <1>0, <1>2, <2>3, <3>2 DEF CallOK
      <4>2. t \in Notices
        BY <1>2, <4>1 DEF Alone, Callers
      <4>3. rows[t].state \in {"none", "pending", "verified", "reversed"}
        BY <1>0 DEF Ledger, RowType
      <4>4. rows[t].state = "verified" /\ rows[t].amount = AmountOf[RefOf[c]]
        BY <1>2, <4>1, <4>2, <4>3 DEF RowsInv, RowOK
      <4> QED BY <4>1, <4>4
    <3> QED BY <3>1, <3>2
  <2> HIDE DEF target, row
  <2>5. \A d \in Callers :
          /\ rows'[d].state = "verified" <=> rows[d].state = "verified"
          /\ rows[d].state = "verified" => rows'[d].amount = rows[d].amount
    <3>1. CASE rows' = rows
      BY <3>1
    <3>2. CASE rows' = [rows EXCEPT ![target] = row]
      <4>1. rows'[t] = row /\ \A d \in Callers \ {t} : rows'[d] = rows[d]
        BY <1>0, <2>3, <3>2 DEF Ledger
      <4> QED BY <2>4, <4>1
    <3> QED BY <2>1, <3>1, <3>2
  <2>6. Verified(rows') = Verified(rows)
    BY <2>5 DEF Verified
  <2>7. \A d \in Verified(rows) : rows'[d].amount = rows[d].amount
    BY <2>5 DEF Verified
  <2> QED BY <1>2, <2>6, <2>7, SameSum
<1> QED BY <1>0, <1>1, <1>2 DEF CallOK

LEMMA CallKeepsCurrent ==
  ASSUME TypeInv, RowsInv, Alone, JobByOK, Current, NEW c \in Callers,
         CallStep(c) \/ CallerEvicted(c)
  PROVE  Current'
<1>0. /\ UNCHANGED <<shown, lastResult, pending, job>>
      /\ \A d \in Callers \ {c} : call'[d] = call[d]
      /\ call \in [Callers -> CallType] /\ rows \in Ledger /\ CallOK(c)
      /\ c \in Intents => c \notin Notices
      /\ c \in Activations => c \notin Notices
  BY CallMoves, CallersAssumption
  DEF storage, TypeInv, TypeOK, RowsInv, CallersAssumption
<1>1. SUFFICES ASSUME Premise' PROVE NotReversed /\ Received(rows') = Received(rows)
                                     /\ \A n \in Notices : Heard(n)
  BY <1>0 DEF Current, Premise, ReadBackDone
<1>2. \A n \in Notices : n \in Callers /\ Heard(n)'
  BY <1>1 DEF Premise, Callers
<1>3. \A n \in Notices \ {c} : Heard(n)
  BY <1>0, <1>2 DEF Heard, Informed
<1>4. NotReversed' /\ (c \in Notices => Heard(c)')
  BY <1>1, <1>2 DEF Premise
<1>5. ASSUME UNCHANGED rows, c \in Notices => Heard(c)
      PROVE  NotReversed /\ Received(rows') = Received(rows)
             /\ \A n \in Notices : Heard(n)
  BY <1>3, <1>4, <1>5 DEF NotReversed
<1>6. CASE Write(c)
  <2>1. c \in Intents /\ c \notin Notices /\ Received(rows') = Received(rows)
    BY <1>0, <1>4, <1>6, WriteUnheard
  <2>2. NotReversed
    BY <2>1 DEF RowsInv, RowOK, NotReversed
  <2> QED BY <1>3, <2>1, <2>2
<1>7. CASE Create(c)
  <2>1. c \notin Notices /\ rows[c].state = "none"
    BY <1>0, <1>7 DEF Create, CallOK
  <2>2. /\ \A d \in Callers \ {c} : rows'[d] = rows[d]
        /\ rows'[c].state \in {"none", "pending"}
    BY <1>0, <1>7, <2>1 DEF Create, Ledger
  <2>3. Verified(rows') = Verified(rows) /\ \A d \in Verified(rows) : rows'[d].amount = rows[d].amount
    BY <2>1, <2>2 DEF Verified
  <2>4. NotReversed
    BY <1>4, <2>1, <2>2 DEF NotReversed
  <2>5. Received(rows') = Received(rows)
    BY <2>3, SameSum
  <2> QED BY <1>3, <2>1, <2>4, <2>5
<1>8. CASE Seek(c) \/ Balance(c) \/ Look(c)
  <2>1. UNCHANGED rows /\ c \notin Notices
    BY <1>0, <1>8 DEF Seek, Balance, Look, CallOK
  <2> QED BY <1>5, <2>1
<1>9. CASE Find(c)
  <2>1. UNCHANGED rows /\ (c \in Notices => call[c].at = "idle")
    BY <1>0, <1>9 DEF Find
  <2> QED BY <1>5, <2>1 DEF Heard
<1>10. CASE Session(c)
  <2>1. c \in Notices /\ UNCHANGED rows /\ job.by # c
    BY <1>0, <1>10, CallersAssumption DEF Session, CallOK, JobByOK, CallersAssumption
  <2>2. Tell(c, "failed") \/ Goto(c, "ask")
    BY <1>10 DEF Session
  <2>3. "failed" \in Told /\ "ask" \in Places
    BY DEF Told, Places
  <2>4. call'[c].at \in {"done", "ask"} /\ call'[c].told \in {"failed", "nothing"}
    BY <1>0, <2>2, <2>3, TellTypes, GotoTypes
  <2>5. ~Heard(c)'
    BY <1>0, <2>1, <2>4 DEF Heard, Informed
  <2> QED BY <1>4, <2>1, <2>5
<1>11. CASE CallerEvicted(c)
  <2>1. "unknown" \in Told
    BY DEF Told
  <2>2. call'[c].at = "done" /\ call'[c].told = "unknown" /\ UNCHANGED rows
    BY <1>0, <1>11, <2>1, TellTypes DEF CallerEvicted
  <2>3. ~Heard(c)'
    BY <2>2 DEF Heard, Informed
  <2> QED BY <1>4, <1>5, <2>2, <2>3
<1> QED BY <1>6, <1>7, <1>8, <1>9, <1>10, <1>11 DEF CallStep

LEMMA CurrentKept ==
  ASSUME TypeInv, RowsInv, Alone, JobByOK, Current, flight = {}, [Next]_vars
  PROVE  Current'
<1>0. job \in JobType /\ Nobody \notin Callers /\ Notices \subseteq Callers
  BY CallersAssumption DEF TypeInv, TypeOK, CallersAssumption, Callers
<1>1. CASE \E c \in Callers : CallStep(c) \/ CallerEvicted(c)
  BY <1>1, CallKeepsCurrent
<1>2. CASE \E c \in Callers : Reverse(c)
  <2>1. ~NotReversed'
    BY <1>2 DEF Reverse, NotReversed, TypeInv, TypeOK, Ledger, RowType
  <2> QED BY <2>1 DEF Current, Premise
<1>3. CASE \E c \in Callers : Accept(c)
  <2>1. job'.pc = "arm" /\ pending'.attempts = 0
    BY <1>3 DEF Accept, NoJob
  <2>2. pending' # NoTask
    BY <2>1 DEF NoTask
  <2> QED BY <2>1, <2>2 DEF Current, Premise, ReadBackDone
<1>4. CASE Rearm \/ Disarm \/ Evict
  <2>0. /\ job'.pc = "idle" /\ job'.by = Nobody /\ UNCHANGED <<rows, shown, lastResult, pending>>
    BY <1>4, JobTells, NoJobTypes DEF Rearm, Disarm, Evict, session
  <2>1. ReadBackDone' => lastResult = "ok" /\ pending = NoTask
    BY <2>0 DEF ReadBackDone
  <2>2. lastResult = "ok" => ~Rearm
    BY DEF Rearm, TypeInv, ResultOK
  <2>3. ASSUME lastResult = "ok", NEW n \in Notices, Heard(n)' PROVE Heard(n)
    <3>1. call'[n].at \in {"idle", "write"} \/ Informed(n)'
      BY <1>0, <2>0, <2>3 DEF Heard
    <3>2. CASE Evict
      BY <1>0, <3>1, <3>2, EvictCalls DEF Heard, Informed
    <3>3. CASE Disarm
      <4>1. job.pc = "disarm"
        BY <3>3 DEF Disarm
      <4> QED BY <1>0, <3>1, <3>3, <4>1, JobTells DEF Heard, Informed
    <3> QED BY <1>4, <2>2, <2>3, <3>2, <3>3
  <2> QED BY <2>0, <2>1, <2>3 DEF Current, Premise, ReadBackDone, NotReversed
<1>5. CASE BetweenSteps
  <2>0. UNCHANGED <<rows, call>> /\ job'.by = job.by
    BY <1>5, JobMoves
  <2>1. TaskOK'
    BY <1>5, TypesKept DEF TypeInv, BetweenSteps, Next, JobStep
  <2>2. ASSUME ~ReadBackDone' PROVE Current'
    BY <2>2 DEF Current, Premise
  <2>3. CASE Arm \/ Begin \/ ReadFirst \/ ReadFresh \/ Patch
    <3>1. job'.pc \in {"begin", "first", "fresh", "verify", "patch", "transient", "final"}
      BY <1>0, <2>3 DEF Arm, Begin, ReadFirst, ReadFresh, Patch, Failing, Step,
         StepBlind, JobType
    <3> QED BY <2>1, <2>2, <3>1 DEF ReadBackDone, TaskOK
  <2>4. CASE ReadBack
    <3>1. CASE Failing("verify")
      <4>1. job'.pc \in {"transient", "final"}
        BY <1>0, <3>1 DEF Failing, StepBlind, JobType
      <4> QED BY <2>1, <2>2, <4>1 DEF ReadBackDone, TaskOK
    <3>2. CASE shown = Received(rows)
      BY <2>0, <2>4, <3>2 DEF ReadBack, session, Current
    <3> QED BY <2>4, <3>1, <3>2 DEF ReadBack
  <2>5. CASE Conclude \/ Clear
    <3>1. /\ job.pc \in {"conclude", "clear"} /\ job'.pc \in {"clear", "disarm"}
          /\ UNCHANGED shown
          /\ lastResult' = "ok" => ReadBackDone
      BY <1>0, <2>5 DEF Conclude, Clear, Step, JobType, session, ReadBackDone
    <3>2. \A n \in Notices : Heard(n)' => Heard(n)
      BY <2>0, <3>1 DEF Heard, Informed
    <3>3. ReadBackDone' => lastResult' = "ok"
      BY <3>1 DEF ReadBackDone
    <3> QED BY <2>0, <3>1, <3>2, <3>3 DEF Current, Premise, NotReversed
  <2>6. CASE Fail
    <3>1. lastResult' # "ok" /\ job'.pc \in {"rearm", "clear"}
      BY <1>0, <2>6 DEF Fail, JobType
    <3> QED BY <2>2, <3>1 DEF ReadBackDone
  <2> QED BY <1>5, <2>3, <2>4, <2>5, <2>6 DEF BetweenSteps
<1>6. CASE AlarmFires
  <2>1. CASE pending = NoTask /\ UNCHANGED job
    <3>1. UNCHANGED <<rows, shown, call, job, pending, lastResult>>
      BY <1>6, <2>1 DEF AlarmFires, session
    <3> QED BY <3>1 DEF Current, Premise, ReadBackDone, NotReversed, Heard, Informed
  <2>2. CASE pending # NoTask /\ job' = [NoJob EXCEPT !.pc = "begin"]
    <3>1. job'.pc = "begin" /\ pending' # NoTask
      BY <1>6, <2>2 DEF AlarmFires, NoJob
    <3> QED BY <3>1 DEF Current, Premise, ReadBackDone
  <2> QED BY <1>6, <2>1, <2>2 DEF AlarmFires
<1>7. ~Land
  BY DEF Land
<1>8. CASE UNCHANGED vars
  BY <1>8 DEF vars, Current, Premise, ReadBackDone, NotReversed, Heard, Informed,
     session, storage
<1> QED BY <1>1, <1>2, <1>3, <1>4, <1>5, <1>6, <1>7, <1>8, NextKinds

LEMMA CurrentInit == Init => JobByOK /\ Current
BY DEF Init, JobByOK, Current, Premise, ReadBackDone, NoJob

-----------------------------------------------------------------------------
(* The theorems.                                                           *)

\* Every variable keeps its type, whatever the constants: a task is tried at
\* most MaxAttempts times and once more for each eviction, and a caller is told
\* a result that the coordinator can have, never one it has not reached.
THEOREM TypeCorrect == Spec => []TypeOK
<1>1. TypeInv => TypeOK
  BY DEF TypeInv
<1> QED BY <1>1, TypesInit, TypesKept, PTL DEF Spec

\* Whatever fails, is evicted or is reversed, between two jobs a task that was
\* tried, and a last result that promises an attempt (it was withdrawn when one
\* began, or says that one is scheduled), have the task in storage and an alarm
\* that is still to fire: nothing is left to be retried by nobody.
THEOREM RetryHasAlarm ==
  Spec => [](/\ job = NoJob
             /\ \/ lastResult \in {"reconciling", "retry_scheduled"}
                \/ pending.attempts > 0
             => pending # NoTask /\ alarm = "set")
<1> DEFINE Waits ==
      /\ job = NoJob
      /\ \/ lastResult \in {"reconciling", "retry_scheduled"}
         \/ pending.attempts > 0
      => pending # NoTask /\ alarm = "set"
<1>1. Init => TypeInv /\ Armed
  BY TypesInit, ArmedInit
<1>2. TypeInv /\ Armed /\ [Next]_vars => TypeInv' /\ Armed'
  BY TypesKept, ArmedKept
<1>3. TypeInv /\ Armed => Waits
  BY DEF TypeInv, TypeOK, Armed, NoTask
<1> QED BY <1>1, <1>2, <1>3, PTL DEF Spec

LEMMA RowsInvariance == ASSUME Alone PROVE Spec => [](TypeInv /\ RowsInv)
<1>1. TypeInv /\ RowsInv /\ [Next]_vars => TypeInv' /\ RowsInv'
  BY TypesKept, RowsKept
<1> QED BY <1>1, TypesInit, RowsInit, PTL DEF Spec

\* What was verified is not set back to pending where an intent shares its
\* reference with verifications only, and while there are intents no payment is
\* reversed: an activation makes its row where there was none, a verification
\* sets what it found to verified, and the only row an intent can find is a
\* verified one, which it leaves verified.  Writes may be late.
THEOREM TruthStays ==
  ASSUME Alone
  PROVE  Spec => MoneyTruthStays
<1> DEFINE Stays == \A c \in Callers :
                      rows[c].state = "verified" => rows'[c].state # "pending"
<1>1. TypeInv /\ RowsInv /\ [Next]_vars => [Stays]_vars
  BY RowsKept DEF Grows
<1>2. MoneyTruthStays <=> [][Stays]_vars
  BY DEF MoneyTruthStays
<1> QED BY <1>1, <1>2, RowsInvariance, PTL DEF Spec

PaidInv == TypeInv /\ RowsInv /\ WroteInv /\ ShownInv

LEMMA PaidInvKept ==
  ASSUME Alone, PaidInv, [Next]_vars
  PROVE  /\ PaidInv' /\ Paid \in Nat /\ Paid' \in Nat /\ Paid <= Paid'
<1>1. TypeInv' /\ RowsInv' /\ WroteInv' /\ Grows
  BY TypesKept, RowsKept, WroteKept DEF PaidInv
<1>2. EverVerified' \subseteq Refs
  BY CallersAssumption DEF CallersAssumption, EverVerified
<1>3. Paid \in Nat /\ Paid' \in Nat /\ Paid <= Paid'
  BY <1>1, <1>2, PaidGrows
<1>4. ShownInv'
  BY <1>3, ShownKept DEF PaidInv
<1> QED BY <1>1, <1>3, <1>4 DEF PaidInv

LEMMA PaidInvariance == ASSUME Alone PROVE Spec => []PaidInv
<1>1. Init => PaidInv
  BY TypesInit, RowsInit, WroteInit, ShownInit DEF PaidInv
<1>2. PaidInv /\ [Next]_vars => PaidInv'
  BY PaidInvKept
<1> QED BY <1>1, <1>2, PTL DEF Spec

\* The session never shows more than was paid: no reference is counted twice,
\* however many verifications repeat or overlap, whatever rows they duplicate,
\* and however late a write of the sum is made.  (Intents as above: one that sets
\* a verified payment back takes it out of what counts as paid.)
THEOREM NeverTooMuch ==
  ASSUME Alone
  PROVE  Spec => []NeverOverstated
<1>1. PaidInv => NeverOverstated
  BY DEF PaidInv, ShownInv, NeverOverstated
<1> QED BY <1>1, PaidInvariance, PTL

LEMMA RisingInvariance ==
  ASSUME Alone, LatePatches = FALSE
  PROVE  Spec => [](PaidInv /\ RisingInv)
<1>1. Init => RisingInv
  BY RisingInit
<1>2. PaidInv /\ RisingInv /\ [Next]_vars => RisingInv'
  BY RisingKept DEF PaidInv
<1> QED BY <1>1, <1>2, PaidInvariance, PTL DEF Spec

\* A session whose amount received is not the verified sum is known to need
\* attention: a task is stored, the last result is not a success, a payment was
\* reversed, or a verification has not been answered with a result of the
\* coordinator.  However many calls run at once, whatever fails, and whenever the
\* coordinator is evicted, provided the writes of the sum are made in time.
THEOREM StaleIsKnown ==
  ASSUME Alone, LatePatches = FALSE
  PROVE  Spec => []NeverSilentlyStale
<1> DEFINE CurrentInv == JobByOK /\ Current
<1>1. Init => CurrentInv
  BY CurrentInit
<1>2. PaidInv /\ RisingInv /\ CurrentInv /\ [Next]_vars => CurrentInv'
  BY JobByKept, CurrentKept DEF PaidInv, RisingInv
<1>3. CurrentInv => NeverSilentlyStale
  BY DEF NeverSilentlyStale, Current, Premise, ReadBackDone, NotReversed, Heard
<1> HIDE DEF CurrentInv
<1> QED BY <1>1, <1>2, <1>3, RisingInvariance, PTL DEF Spec

\* Who is told "ok" learns it when the coordinator ends a job that succeeded.
LEMMA OkOfDisarm ==
  ASSUME TypeInv, RowsInv, [Next]_vars, NEW c \in Notices \cup Activations,
         call'[c].told = "ok", call[c].told # "ok"
  PROVE  Disarm /\ lastResult = "ok"
<1>0. c \in Callers /\ c \notin Intents
  BY CallersAssumption DEF CallersAssumption, Callers
<1>1. ~ \E d \in Callers : CallStep(d) \/ CallerEvicted(d)
  <2>1. SUFFICES ASSUME NEW d \in Callers, CallStep(d) \/ CallerEvicted(d)
                 PROVE  FALSE
    OBVIOUS
  <2>2. CASE d = c
    BY <1>0, <2>1, <2>2, CallMoves
  <2>3. CASE d # c
    BY <1>0, <2>1, <2>3, CallMoves
  <2> QED BY <2>2, <2>3
<1>2. ~ (BetweenSteps \/ AlarmFires \/ Land \/ UNCHANGED vars
         \/ \E d \in Callers : Reverse(d) \/ Accept(d))
  <2>1. UNCHANGED call => FALSE
    OBVIOUS
  <2> QED BY <2>1, JobMoves DEF AlarmFires, Land, vars, Reverse, Accept
<1>3. Rearm \/ Disarm \/ Evict
  BY <1>1, <1>2, NextKinds
<1> QED BY <1>0, <1>3, JobTells

\* A call told "ok" by the coordinator finds the session to show at least the
\* payments of every verification answered before, and its own: for any number
\* of calls, provided the writes of the sum are made in time.
THEOREM OkShowsAll ==
  ASSUME Alone, LatePatches = FALSE
  PROVE  Spec => OkIsCurrent
<1> DEFINE Shows == \A c \in Notices \cup Activations :
             call'[c].told = "ok" /\ call[c].told # "ok" =>
               LET known == {RefOf[n] : n \in {m \in Notices : Informed(m)'}}
               IN  shown' >= SumFunction([ref \in known |-> AmountOf[ref]])
<1>1. PaidInv /\ RisingInv /\ [Next]_vars => [Shows]_vars
  <2> SUFFICES ASSUME PaidInv, RisingInv, Next,
                      NEW c \in Notices \cup Activations,
                      call'[c].told = "ok", call[c].told # "ok"
               PROVE  shown' >= SumOfRefs({RefOf[n] : n \in {m \in Notices : Informed(m)'}})
    BY DEF SumOfRefs
  <2> DEFINE known == {RefOf[n] : n \in {m \in Notices : Informed(m)'}}
  <2>1. Disarm /\ lastResult = "ok" /\ job.pc = "disarm"
    BY OkOfDisarm DEF PaidInv, Disarm
  <2>2. SumOfRefs(KnownRefs) <= shown
    BY <2>1 DEF RisingInv, Succeeds
  <2>3. \A m \in Notices : Informed(m)' => Informed(m) \/ m = job.by
    BY <2>1, JobTells DEF PaidInv, Informed, Callers
  <2>4. known \in SUBSET KnownRefs /\ KnownRefs \in SUBSET Refs
    BY <2>3, KnownRefsType DEF KnownRefs
  <2>5. shown' = shown /\ shown \in Nat
    BY <2>1 DEF Disarm, session, PaidInv, TypeInv, TypeOK
  <2> HIDE DEF known, KnownRefs, SumOfRefs
  <2>6. /\ SumOfRefs(known) <= SumOfRefs(KnownRefs)
        /\ SumOfRefs(known) \in Nat /\ SumOfRefs(KnownRefs) \in Nat
    BY <2>4, SumOfRefsOK
  <2>7. shown' >= SumOfRefs(known)
    BY <2>2, <2>5, <2>6
  <2> QED BY <2>7 DEF known
<1>2. OkIsCurrent <=> [][Shows]_vars
  BY DEF OkIsCurrent
<1> QED BY <1>1, <1>2, RisingInvariance, PTL DEF Spec

\* The projection implements the derived amount: what is shown changes only when
\* the coordinator writes, and then it rises, to no more than was paid; what was
\* paid never shrinks.
THEOREM ProjectionKeepsAmount ==
  ASSUME Alone, LatePatches = FALSE
  PROVE  Spec => KeepsAmount
<1>1. Init => Amount!Init
  BY PaidInit DEF Init, Amount!Init
<1>2. PaidInv /\ RisingInv /\ [Next]_vars => [Amount!Next]_(Amount!vars)
  <2> SUFFICES ASSUME PaidInv, RisingInv, [Next]_vars
               PROVE  [Amount!Next]_(Amount!vars)
    OBVIOUS
  <2>1. Paid \in Nat /\ Paid' \in Nat /\ Paid <= Paid'
    BY PaidInvKept
  <2>2. shown \in Nat /\ job \in JobType /\ Received(job.seen) \in Nat
    BY ReceivedNat DEF PaidInv, TypeInv, TypeOK, JobType
  <2>3. CASE UNCHANGED shown
    <3> HIDE DEF Paid
    <3>1. Paid' = Paid \/ Paid' > Paid
      BY <2>1
    <3> QED BY <2>1, <2>3, <3>1 DEF Amount!Next, Amount!Receive, Amount!vars
  <2>4. CASE shown' # shown
    <3>1. Patch
      <4>1. ~Land
        BY DEF Land, RisingInv
      <4> QED BY <2>4, <4>1, CallMoves, JobTells, NextKinds
              DEF PaidInv, BetweenSteps, Reverse, Accept, AlarmFires, Arm, Begin,
                  ReadFirst, ReadFresh, ReadBack, Conclude, Fail, Clear, session, vars
    <3>2. job.pc = "patch" /\ UNCHANGED rows /\ shown' = Received(job.seen)
      BY <2>4, <3>1 DEF Patch, Step, StepBlind
    <3>3. shown < Received(job.seen) /\ Received(job.seen) <= Paid
      BY <3>2 DEF RisingInv, PaidInv, ShownInv
    <3>4. Paid' = Paid
      BY <3>2 DEF Paid, EverVerified
    <3> HIDE DEF Paid
    <3>5. shown' \in (shown + 1)..Paid
      BY <2>1, <2>2, <3>2, <3>3
    <3> QED BY <3>4, <3>5 DEF Amount!Next, Amount!Show
  <2> QED BY <2>3, <2>4
<1> QED BY <1>1, <1>2, RisingInvariance, PTL DEF Spec, KeepsAmount, Amount!Spec
==============================================================================

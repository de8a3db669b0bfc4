--------------------------- MODULE ShopStockProofs ---------------------------
(***************************************************************************)
(* Proofs about ShopStock, for any orders, batches, reviews and            *)
(* cancellations, whether reviews overlap or not, and any number of        *)
(* faults.  Two facts carry them: what kind of step each kind of job may   *)
(* be at (JobOK), and that every copy of a reservation, wherever it is     *)
(* kept, is backed by the reserve movements of its order (BackedBy).       *)
(***************************************************************************)
EXTENDS ShopStock, WellFoundedInduction, TLAPS

\* The units a reservation says it has of each batch are in the reserve movements
\* held of its order.
BackedBy(held, o, r) == \A b \in Batches : r.alloc[b] <= held[o][b]

\* A job of a caller is about the order of that caller, and only the sweep has
\* no caller to answer; each kind of job has its own steps, the batch in hand is
\* a batch, and from it no more is taken than is wanted.
JobOK(held, j) ==
  /\ j \in Jobs
  /\ j.op = "sweep" => j.pc \in {"give", "given", "close", "sync"}
  /\ j.op # "sweep" => j.by \in Callers /\ j.of = OrderFor(j.by)
  /\ j.op \in {"claim", "commit"} => j.pc \notin {"give", "given"}
  /\ j.pc \in {"take", "record", "undo", "note"} => j.op = "reserve"
  /\ j.pc \in {"record", "undo", "given"} => j.batch \in Batches
  /\ j.pc = "record" => j.take <= j.left
  /\ BackedBy(held, j.of, j.copy)

WorkOK == job = Idle \/ JobOK(moved["reserve"], job)

\* Every other copy of a reservation is backed: in the notes of the orders, in
\* the hands of the callers, and in what the sweep has read.
NotesBacked == \A o \in Orders : BackedBy(moved["reserve"], o, notes[o])
CopiesBacked ==
  \A c \in Callers : BackedBy(moved["reserve"], OrderFor(c), copy[c])
RoundBacked == \A o \in Orders : BackedBy(moved["reserve"], o, round.seen[o])

RoundType == [free : SUBSET Orders, void : SUBSET Orders,
              seen : [Orders -> ReservationType]]

IInv == TypeOK /\ WorkOK /\ NotesBacked /\ CopiesBacked /\ RoundBacked

-----------------------------------------------------------------------------
(* Facts about the constants and the helpers.                              *)

\* A set of batches has a first one.
LEMMA MinOfBatches ==
  ASSUME NEW S \in SUBSET Batches, S # {}
  PROVE  Min(S) \in S
<1> DEFINE Less == OpToRel(<, Nat)
<1>1. S \subseteq Nat
  BY StockAssumption DEF Batches, StockAssumption
<1>2. PICK x \in S : \A y \in S : <<y, x>> \notin Less
  <2> HIDE DEF Less
  <2>1. IsWellFoundedOn(Less, Nat)
    BY NatLessThanWellFounded DEF Less
  <2> QED BY <2>1, <1>1, WFMin
<1>3. \A y \in S : x =< y
  <2> SUFFICES ASSUME NEW y \in S PROVE ~ (y < x)
    BY <1>1
  <2>1. <<y, x>> \notin Less /\ <<y, x>> \in Nat \X Nat
    BY <1>1, <1>2
  <2> QED BY <2>1, <1>1 DEF OpToRel
<1> QED BY <1>3 DEF Min

LEMMA MinOfTwo ==
  ASSUME NEW m \in Nat, NEW n \in Nat
  PROVE  /\ Min({m, n}) \in Nat
         /\ Min({m, n}) <= m
         /\ Min({m, n}) <= n
<1>1. CASE m <= n
  <2>1. \A y \in {m, n} : m =< y
    BY <1>1
  <2>2. \A x \in {m, n} : (\A y \in {m, n} : x =< y) => x = m
    BY <1>1
  <2> QED BY <2>1, <2>2, <1>1 DEF Min
<1>2. CASE n <= m
  <2>1. \A y \in {m, n} : n =< y
    BY <1>2
  <2>2. \A x \in {m, n} : (\A y \in {m, n} : x =< y) => x = n
    BY <1>2
  <2> QED BY <2>1, <2>2, <1>2 DEF Min
<1> QED BY <1>1, <1>2

LEMMA OrderOfCaller == \A c \in Callers : OrderFor(c) \in Orders
BY CallersAssumption DEF Callers, OrderFor, CallersAssumption

LEMMA UnmovedIsBatches ==
  ASSUME NEW kind, NEW o, NEW r
  PROVE  Unmoved(kind, o, r) \in SUBSET Batches
BY DEF Unmoved

LEMMA FaultType ==
  ASSUME faults \in 0..MaxFaults, Fault \/ UNCHANGED faults
  PROVE  faults' \in 0..MaxFaults
BY BoundsAssumption DEF Fault, BoundsAssumption

LEMMA TriedType ==
  ASSUME faults \in 0..MaxFaults, NEW hit, NEW bad, Tried(hit, bad)
  PROVE  faults' \in 0..MaxFaults
BY FaultType DEF Tried

LEMMA EmptyReservation ==
  /\ NoReservation \in ReservationType
  /\ [NoReservation EXCEPT !.state = "reserved"] \in ReservationType
BY DEF NoReservation, ReservationType, NoUnits

LEMMA EmptyIsBacked ==
  ASSUME NEW held \in [Orders -> [Batches -> Nat]], NEW o \in Orders
  PROVE  /\ BackedBy(held, o, NoReservation)
         /\ BackedBy(held, o, [NoReservation EXCEPT !.state = "reserved"])
BY DEF BackedBy, NoReservation, NoUnits

\* More movements back what fewer did.
LEMMA StillBacked ==
  ASSUME NEW held \in [Orders -> [Batches -> Nat]],
         NEW more \in [Orders -> [Batches -> Nat]],
         \A o \in Orders, b \in Batches : held[o][b] <= more[o][b],
         NEW o \in Orders, NEW r \in ReservationType, BackedBy(held, o, r)
  PROVE  BackedBy(more, o, r)
BY DEF BackedBy, ReservationType

\* A job of a caller that is about to begin.
LEMMA NewJob ==
  ASSUME NEW held, NEW op \in Ops, NEW c \in Callers, NEW r \in ReservationType,
         NEW pc \in {"take", "give", "out", "save", "answer", "refuse"},
         NEW todo \in SUBSET Batches,
         BackedBy(held, OrderFor(c), r),
         op \in {"claim", "commit"} => pc # "give",
         pc = "take" => op = "reserve"
  PROVE  JobOK(held, JobFor(op, c, r, pc, todo))
<1>1. JobFor(op, c, r, pc, todo) \in Jobs
  BY OrderOfCaller DEF JobFor, Jobs
<1> QED BY <1>1 DEF JobFor, JobOK, Ops

-----------------------------------------------------------------------------
(* The requests.                                                           *)

LEMMA WorkType == IInv => job \in Jobs \cup {Idle}
BY DEF IInv, TypeOK

\* A step that changes the job alone.
LEMMA JobAlone ==
  ASSUME IInv, UNCHANGED <<stock, records, due, round, callers, faults>>,
         job' = Idle \/ JobOK(moved["reserve"], job')
  PROVE  IInv'
<1>1. job' \in Jobs \cup {Idle}
  BY DEF JobOK
<1>2. TypeOK'
  BY <1>1 DEF IInv, TypeOK, stock, records, callers
<1>3. WorkOK'
  BY DEF WorkOK, stock
<1>4. NotesBacked' /\ CopiesBacked' /\ RoundBacked'
  BY DEF IInv, NotesBacked, CopiesBacked, RoundBacked, stock, records, callers
<1> QED BY <1>2, <1>3, <1>4 DEF IInv

LEMMA CopyType ==
  ASSUME IInv, NEW c \in Callers
  PROVE  /\ copy[c] \in ReservationType
         /\ BackedBy(moved["reserve"], OrderFor(c), copy[c])
BY DEF IInv, TypeOK, CopiesBacked

LEMMA ReservedFor ==
  IInv => moved["reserve"] \in [Orders -> [Batches -> Nat]]
BY DEF IInv, TypeOK

LEMMA ReserveStep ==
  ASSUME IInv, NEW c \in Orders, Reserve(c)
  PROVE  IInv'
<1> DEFINE r == [NoReservation EXCEPT !.state = "reserved"]
           j == JobFor("reserve", c, r, "take", {})
           held == moved["reserve"]
<1>1. c \in Callers /\ OrderFor(c) = c
  BY DEF Callers, OrderFor
<1>2. BackedBy(held, OrderFor(c), r) /\ r \in ReservationType
  BY <1>1, ReservedFor, EmptyIsBacked, EmptyReservation
<1>3. JobOK(held, j)
  <2> HIDE DEF r, held
  <2> QED BY <1>1, <1>2, NewJob DEF Ops, j
<1>4. Need[c] \in Nat
  BY StockAssumption DEF StockAssumption
<1>5. job' = [j EXCEPT !.left = Need[c]]
  BY <1>1 DEF Reserve
<1>6. JobOK(held, job')
  <2> HIDE DEF r, held
  <2>1. job' \in Jobs
    BY <1>3, <1>4, <1>5 DEF Jobs, JobOK, j, JobFor
  <2> QED BY <1>3, <1>5, <2>1 DEF JobOK, JobFor, j
<1> QED BY <1>6, JobAlone DEF Reserve, Takes

LEMMA ReleaseStep ==
  ASSUME IInv, NEW c \in Callers, Release(c)
  PROVE  IInv'
<1> DEFINE r == copy[c]
           held == moved["reserve"]
<1>1. r \in ReservationType /\ BackedBy(held, OrderFor(c), r)
  BY CopyType
<1>2. \A pc \in {"give", "answer", "refuse"} : \A todo \in SUBSET Batches :
        JobOK(held, JobFor("release", c, r, pc, todo))
  <2> HIDE DEF r, held
  <2> QED BY <1>1, NewJob DEF Ops
<1>3. Unmoved("release", OrderFor(c), r) \in SUBSET Batches
  BY UnmovedIsBatches
<1>4. JobOK(held, job')
  <2> \/ job' = JobFor("release", c, r, "give", Unmoved("release", OrderFor(c), r))
      \/ job' = JobFor("release", c, r, "answer", {})
      \/ job' = JobFor("release", c, r, "refuse", {})
    BY DEF Release
  <2> HIDE DEF r, held
  <2> QED BY <1>2, <1>3
<1> QED BY <1>4, JobAlone DEF Release, Takes

LEMMA ClaimStep ==
  ASSUME IInv, NEW c \in Reviews, Claim(c)
  PROVE  IInv'
<1> DEFINE r == copy[c]
           claimed == [r EXCEPT !.state = "payment_review", !.key = KeyOf[c]]
           held == moved["reserve"]
<1>1. c \in Callers
  BY DEF Callers
<1>2. r \in ReservationType /\ BackedBy(held, OrderFor(c), r)
  BY <1>1, CopyType
<1>3. claimed \in ReservationType /\ BackedBy(held, OrderFor(c), claimed)
  BY <1>2 DEF ReservationType, BackedBy
<1>4. \A pc \in {"save", "answer", "refuse"} :
        /\ JobOK(held, JobFor("claim", c, r, pc, {}))
        /\ JobOK(held, JobFor("claim", c, claimed, pc, {}))
  <2> HIDE DEF r, held, claimed
  <2> QED BY <1>1, <1>2, <1>3, NewJob DEF Ops
<1>5. JobOK(held, job')
  <2> \/ job' = JobFor("claim", c, r, "answer", {})
      \/ job' = JobFor("claim", c, claimed, "save", {})
      \/ job' = JobFor("claim", c, r, "refuse", {})
    BY DEF Claim
  <2> HIDE DEF r, held, claimed
  <2> QED BY <1>4
<1> QED BY <1>5, JobAlone DEF Claim, Takes

LEMMA AbortStep ==
  ASSUME IInv, NEW c \in Reviews, Abort(c)
  PROVE  IInv'
<1> DEFINE r == copy[c]
           open == [r EXCEPT !.state = "reserved", !.key = NoKey]
           lapsed == [r EXCEPT !.state = "reserved"]
           todo == Unmoved("release", OrderFor(c), r)
           held == moved["reserve"]
<1>1. c \in Callers
  BY DEF Callers
<1>2. r \in ReservationType /\ BackedBy(held, OrderFor(c), r)
  BY <1>1, CopyType
<1>3. /\ open \in ReservationType /\ BackedBy(held, OrderFor(c), open)
      /\ lapsed \in ReservationType /\ BackedBy(held, OrderFor(c), lapsed)
  BY <1>2 DEF ReservationType, BackedBy
<1>4. todo \in SUBSET Batches
  BY UnmovedIsBatches
<1>5. /\ JobOK(held, JobFor("abort", c, r, "answer", {}))
      /\ JobOK(held, JobFor("abort", c, r, "refuse", {}))
      /\ JobOK(held, JobFor("abort", c, lapsed, "give", todo))
      /\ JobOK(held, JobFor("abort", c, open, "save", {}))
  <2> HIDE DEF r, held, open, lapsed, todo
  <2> QED BY <1>1, <1>2, <1>3, <1>4, NewJob DEF Ops
<1>6. JobOK(held, job')
  <2> \/ job' = JobFor("abort", c, r, "answer", {})
      \/ job' = JobFor("abort", c, r, "refuse", {})
      \/ job' = JobFor("abort", c, lapsed, "give", todo)
      \/ job' = JobFor("abort", c, open, "save", {})
    BY DEF Abort
  <2> HIDE DEF r, held, open, lapsed, todo
  <2> QED BY <1>5
<1> QED BY <1>6, JobAlone DEF Abort, Takes

LEMMA CommitStep ==
  ASSUME IInv, NEW c \in Reviews, Commit(c)
  PROVE  IInv'
<1> DEFINE r == copy[c]
           todo == Unmoved("out", OrderFor(c), r)
           held == moved["reserve"]
<1>1. c \in Callers
  BY DEF Callers
<1>2. r \in ReservationType /\ BackedBy(held, OrderFor(c), r)
  BY <1>1, CopyType
<1>3. todo \in SUBSET Batches
  BY UnmovedIsBatches
<1>4. /\ JobOK(held, JobFor("commit", c, r, "out", todo))
      /\ JobOK(held, JobFor("commit", c, r, "answer", {}))
      /\ JobOK(held, JobFor("commit", c, r, "refuse", {}))
  <2> HIDE DEF r, held, todo
  <2> QED BY <1>1, <1>2, <1>3, NewJob DEF Ops
<1>5. JobOK(held, job')
  <2> \/ job' = JobFor("commit", c, r, "out", todo)
      \/ job' = JobFor("commit", c, r, "answer", {})
      \/ job' = JobFor("commit", c, r, "refuse", {})
    BY DEF Commit
  <2> HIDE DEF r, held, todo
  <2> QED BY <1>4
<1> QED BY <1>5, JobAlone DEF Commit, Takes

LEMMA RequestStep == IInv /\ Request => IInv'
<1> SUFFICES ASSUME IInv, Request PROVE IInv'
  OBVIOUS
<1>1. Orders \cup Admins \subseteq Callers
  BY DEF Callers
<1> QED BY <1>1, ReserveStep, ReleaseStep, ClaimStep, AbortStep, CommitStep
        DEF Request

-----------------------------------------------------------------------------
(* The steps of a job.                                                     *)

LEMMA AtWork ==
  ASSUME IInv, NEW pc, Running(pc)
  PROVE  job \in Jobs /\ JobOK(moved["reserve"], job) /\ job.pc = pc
BY DEF IInv, WorkOK, JobOK, Running

LEMMA ThrownJob ==
  ASSUME NEW held, JobOK(held, job), job.op # "sweep"
  PROVE  JobOK(held, [job EXCEPT !.pc = "refuse"])
<1>1. [job EXCEPT !.pc = "refuse"] \in Jobs
  BY DEF JobOK, Jobs
<1> QED BY <1>1 DEF JobOK, Jobs

LEMMA AfterThrow ==
  ASSUME NEW held, JobOK(held, job)
  PROVE  Thrown = Idle \/ JobOK(held, Thrown)
BY ThrownJob DEF Thrown

LEMMA AfterRollback ==
  ASSUME NEW held, JobOK(held, job), job.op = "reserve"
  PROVE  JobOK(held, RolledBack)
<1> DEFINE u == Unmoved("release", job.of, job.copy)
<1>1. u \in SUBSET Batches
  BY UnmovedIsBatches
<1>2. RolledBack = [job EXCEPT !.pc = "give", !.todo = u]
  BY DEF RolledBack
<1> HIDE DEF u
<1>3. RolledBack \in Jobs
  BY <1>1, <1>2 DEF JobOK, Jobs
<1> QED BY <1>2, <1>3 DEF JobOK, Jobs

\* A step that moves a job on within a batch: the job keeps its order, its copy
\* and its caller.
LEMMA MovedOn ==
  ASSUME NEW held, JobOK(held, job),
         NEW j \in Jobs, j.op = job.op, j.by = job.by, j.of = job.of,
         j.copy.alloc = job.copy.alloc,
         j.op = "sweep" => j.pc \in {"give", "given", "close", "sync"},
         j.op \in {"claim", "commit"} => j.pc \notin {"give", "given"},
         j.pc \in {"take", "record", "undo", "note"} => j.op = "reserve",
         j.pc \in {"record", "undo", "given"} => j.batch \in Batches,
         j.pc = "record" => j.take <= j.left
  PROVE  JobOK(held, j)
BY DEF JobOK, BackedBy

\* A step that changes the batches, and what the job does next.
LEMMA JobAndBatches ==
  ASSUME IInv, UNCHANGED <<moved, records, due, round, callers>>,
         remaining' \in [Batches -> Nat], faults' \in 0..MaxFaults,
         job' = Idle \/ JobOK(moved["reserve"], job')
  PROVE  IInv'
<1>1. job' \in Jobs \cup {Idle}
  BY DEF JobOK
<1>2. TypeOK'
  BY <1>1 DEF IInv, TypeOK, records, callers
<1>3. WorkOK'
  BY DEF WorkOK
<1>4. NotesBacked' /\ CopiesBacked' /\ RoundBacked'
  BY DEF IInv, NotesBacked, CopiesBacked, RoundBacked, records, callers
<1> QED BY <1>2, <1>3, <1>4 DEF IInv

\* A step that adds movements, and changes what the job does next.
LEMMA JobAndMovements ==
  ASSUME IInv, UNCHANGED <<remaining, records, due, round, callers>>,
         moved' \in [{"reserve", "release", "out"} ->
                       [Orders -> [Batches -> Nat]]],
         \A o \in Orders, b \in Batches :
            moved["reserve"][o][b] <= moved'["reserve"][o][b],
         faults' \in 0..MaxFaults,
         job' = Idle \/ JobOK(moved'["reserve"], job')
  PROVE  IInv'
<1> DEFINE held == moved["reserve"]
           more == moved'["reserve"]
<1>1. job' \in Jobs \cup {Idle}
  BY DEF JobOK
<1>2. TypeOK'
  BY <1>1 DEF IInv, TypeOK, records, callers
<1>3. WorkOK'
  BY DEF WorkOK
<1>4. held \in [Orders -> [Batches -> Nat]] /\ more \in [Orders -> [Batches -> Nat]]
  BY DEF IInv, TypeOK
<1>5. \A o \in Orders : \A r \in ReservationType :
        BackedBy(held, o, r) => BackedBy(more, o, r)
  <2>1. \A o \in Orders, b \in Batches : held[o][b] <= more[o][b]
    OBVIOUS
  <2> HIDE DEF held, more
  <2> QED BY <1>4, <2>1, StillBacked
<1>6. NotesBacked'
  BY <1>5 DEF IInv, TypeOK, NotesBacked, records
<1>7. CopiesBacked'
  BY <1>5, OrderOfCaller DEF IInv, TypeOK, CopiesBacked, callers
<1>8. RoundBacked'
  BY <1>5 DEF IInv, TypeOK, RoundBacked
<1> QED BY <1>2, <1>3, <1>6, <1>7, <1>8 DEF IInv

LEMMA StockedBatch ==
  ASSUME IInv, Stocked # {}
  PROVE  Min(Stocked) \in Batches
BY MinOfBatches DEF Stocked

LEMMA TakeStep == IInv /\ Take => IInv'
<1> SUFFICES ASSUME IInv, Take PROVE IInv'
  OBVIOUS
<1> DEFINE b == Min(Stocked)
           q == Min({job.left, remaining[b]})
           held == moved["reserve"]
           next == [job EXCEPT !.pc = "record", !.batch = b, !.take = q]
<1>1. job \in Jobs /\ JobOK(held, job) /\ job.pc = "take"
  BY AtWork DEF Take
<1>2. b \in Batches
  BY StockedBatch DEF Take
<1>3. b \in Nat
  BY <1>2, StockAssumption DEF Batches, StockAssumption
<1>4. remaining \in [Batches -> Nat] /\ faults \in 0..MaxFaults
  BY DEF IInv, TypeOK
<1>5. q \in Nat /\ q <= job.left /\ q <= remaining[b]
  <2>1. job.left \in Nat /\ remaining[b] \in Nat
    BY <1>1, <1>2, <1>4 DEF Jobs
  <2> QED BY <2>1, MinOfTwo
<1>6. PICK hit, bad \in BOOLEAN :
        /\ Tried(hit, bad)
        /\ remaining' = IF hit THEN [remaining EXCEPT ![b] = @ - q]
                        ELSE remaining
        /\ job' = IF bad THEN Thrown ELSE next
  BY DEF Take
<1> HIDE DEF b, q
<1>7. remaining' \in [Batches -> Nat]
  <2>1. remaining[b] - q \in Nat
    BY <1>2, <1>4, <1>5
  <2> QED BY <1>6, <1>4, <2>1
<1>8. faults' \in 0..MaxFaults
  BY <1>4, <1>6, TriedType
<1>9. JobOK(held, next)
  <2>1. next \in Jobs
    BY <1>1, <1>3, <1>5 DEF Jobs
  <2>2. /\ next.op = job.op /\ next.by = job.by /\ next.of = job.of
        /\ next.copy = job.copy /\ next.pc = "record" /\ next.batch = b
        /\ next.take = q /\ next.left = job.left
    BY <1>1 DEF Jobs
  <2>3. job.op = "reserve"
    BY <1>1 DEF JobOK
  <2> HIDE DEF next, held
  <2> QED BY <1>1, <1>2, <1>5, <2>1, <2>2, <2>3, MovedOn
<1>10. job' = Idle \/ JobOK(held, job')
  BY <1>1, <1>6, <1>9, AfterThrow
<1> QED BY <1>7, <1>8, <1>10, JobAndBatches DEF Take

LEMMA UndoStep == IInv /\ Undo => IInv'
<1> SUFFICES ASSUME IInv, Undo PROVE IInv'
  OBVIOUS
<1>1. job \in Jobs /\ JobOK(moved["reserve"], job) /\ job.pc = "undo"
  BY AtWork DEF Undo
<1>2. remaining \in [Batches -> Nat] /\ faults \in 0..MaxFaults
  BY DEF IInv, TypeOK
<1>3. job.batch \in Batches /\ job.take \in Nat
  BY <1>1 DEF JobOK, Jobs
<1>4. PICK hit, bad \in BOOLEAN :
        /\ Tried(hit, bad)
        /\ remaining' = IF hit
                        THEN [remaining EXCEPT ![job.batch] = @ + job.take]
                        ELSE remaining
  BY DEF Undo
<1>5. remaining' \in [Batches -> Nat] /\ faults' \in 0..MaxFaults
  BY <1>2, <1>3, <1>4, TriedType
<1>6. job' = Idle \/ JobOK(moved["reserve"], job')
  BY <1>1, AfterThrow DEF Undo
<1> QED BY <1>5, <1>6, JobAndBatches DEF Undo

LEMMA GiveStep == IInv /\ Give => IInv'
<1> SUFFICES ASSUME IInv, Give PROVE IInv'
  OBVIOUS
<1> DEFINE b == Min(job.todo)
           held == moved["reserve"]
           next == [job EXCEPT !.pc = "given", !.batch = b]
<1>1. job \in Jobs /\ JobOK(held, job) /\ job.pc = "give"
  BY AtWork DEF Give
<1>2. b \in Batches
  BY <1>1, MinOfBatches DEF Give, Jobs
<1>3. b \in Nat
  BY <1>2, StockAssumption DEF Batches, StockAssumption
<1>4. remaining \in [Batches -> Nat] /\ faults \in 0..MaxFaults
  BY DEF IInv, TypeOK
<1>5. PICK hit, bad \in BOOLEAN :
        /\ Tried(hit, bad)
        /\ remaining' = IF hit
                        THEN [remaining EXCEPT ![b] = @ + job.copy.alloc[b]]
                        ELSE remaining
        /\ job' = IF bad THEN Thrown ELSE next
  BY DEF Give
<1> HIDE DEF b
<1>6. remaining' \in [Batches -> Nat]
  <2>1. job.copy.alloc[b] \in Nat
    BY <1>1, <1>2 DEF Jobs, ReservationType
  <2>2. remaining[b] + job.copy.alloc[b] \in Nat
    BY <2>1, <1>2, <1>4
  <2> QED BY <2>2, <1>4, <1>5
<1>7. faults' \in 0..MaxFaults
  BY <1>4, <1>5, TriedType
<1>8. JobOK(held, next)
  <2>1. next \in Jobs
    BY <1>1, <1>3 DEF Jobs
  <2>2. /\ next.op = job.op /\ next.by = job.by /\ next.of = job.of
        /\ next.copy = job.copy /\ next.pc = "given" /\ next.batch = b
    BY <1>1 DEF Jobs
  <2>3. job.op \notin {"claim", "commit"}
    BY <1>1 DEF JobOK
  <2> HIDE DEF next, held
  <2> QED BY <1>1, <1>2, <2>1, <2>2, <2>3, MovedOn
<1>9. job' = Idle \/ JobOK(held, job')
  BY <1>1, <1>5, <1>8, AfterThrow
<1> QED BY <1>6, <1>7, <1>9, JobAndBatches DEF Give

\* What one more movement of a kind does to the movements.
LEMMA OneMore ==
  ASSUME IInv, NEW kind \in {"reserve", "release", "out"}, NEW o \in Orders,
         NEW b \in Batches, NEW n \in Nat, NEW hit \in BOOLEAN,
         moved' = IF hit THEN [moved EXCEPT ![kind][o][b] = @ + n] ELSE moved
  PROVE  /\ moved' \in [{"reserve", "release", "out"} ->
                          [Orders -> [Batches -> Nat]]]
         /\ \A p \in Orders, c \in Batches :
               moved["reserve"][p][c] <= moved'["reserve"][p][c]
         /\ hit /\ kind = "reserve" => n <= moved'["reserve"][o][b]
<1>1. moved \in [{"reserve", "release", "out"} -> [Orders -> [Batches -> Nat]]]
  BY DEF IInv, TypeOK
<1>2. \A k \in {"reserve", "release", "out"}, p \in Orders, c \in Batches :
        moved[k][p][c] \in Nat
  BY <1>1
<1>3. CASE ~hit
  BY <1>1, <1>2, <1>3
<1>4. CASE hit
  <2>1. moved[kind][o][b] + n \in Nat
    BY <1>2
  <2>2. [moved[kind][o] EXCEPT ![b] = @ + n] \in [Batches -> Nat]
    BY <1>1, <2>1
  <2>3. [moved[kind] EXCEPT ![o][b] = @ + n] \in [Orders -> [Batches -> Nat]]
    BY <1>1, <2>2
  <2>4. moved' = [moved EXCEPT ![kind] = [moved[kind] EXCEPT ![o][b] = @ + n]]
    BY <1>1, <1>4
  <2>5. moved' \in [{"reserve", "release", "out"} ->
                      [Orders -> [Batches -> Nat]]]
    BY <1>1, <2>3, <2>4
  <2>6. \A p \in Orders, c \in Batches :
          [moved[kind] EXCEPT ![o][b] = @ + n][p][c] =
            IF p = o /\ c = b THEN moved[kind][p][c] + n ELSE moved[kind][p][c]
    BY <1>1
  <2>7. moved'[kind] = [moved[kind] EXCEPT ![o][b] = @ + n]
    BY <1>1, <2>4
  <2>8. kind # "reserve" => moved'["reserve"] = moved["reserve"]
    BY <1>1, <2>4
  <2> QED BY <1>2, <2>5, <2>6, <2>7, <2>8
<1> QED BY <1>3, <1>4

LEMMA RecordStep == IInv /\ Record => IInv'
<1> SUFFICES ASSUME IInv, Record PROVE IInv'
  OBVIOUS
<1> DEFINE held == moved["reserve"]
           more == moved'["reserve"]
           b == job.batch
           n == job.take
           copied == [job.copy EXCEPT !.alloc[b] = n]
           next == [job EXCEPT !.pc = "take", !.left = @ - n, !.copy = copied]
           undo == [job EXCEPT !.pc = "undo"]
<1>1. job \in Jobs /\ JobOK(held, job) /\ job.pc = "record"
  BY AtWork DEF Record
<1>2. /\ b \in Batches /\ n \in Nat /\ job.left \in Nat /\ n <= job.left
      /\ job.of \in Orders /\ job.copy \in ReservationType
      /\ job.op = "reserve"
  BY <1>1 DEF JobOK, Jobs
<1>3. PICK hit, bad \in BOOLEAN :
        /\ Tried(hit, bad)
        /\ moved' = IF hit THEN [moved EXCEPT !["reserve"][job.of][b] = @ + n]
                    ELSE moved
        /\ job' = IF bad THEN undo
                  ELSE [job EXCEPT !.pc = "take", !.left = @ - job.take,
                                   !.copy.alloc[job.batch] = job.take]
  BY DEF Record
<1>4. /\ moved' \in [{"reserve", "release", "out"} ->
                       [Orders -> [Batches -> Nat]]]
      /\ \A p \in Orders, c \in Batches : held[p][c] <= more[p][c]
      /\ hit => n <= more[job.of][b]
  BY <1>2, <1>3, OneMore
<1>5. faults' \in 0..MaxFaults
  BY <1>3, TriedType DEF IInv, TypeOK
<1>6. held \in [Orders -> [Batches -> Nat]] /\ more \in [Orders -> [Batches -> Nat]]
  BY <1>4, ReservedFor
<1>7. BackedBy(more, job.of, job.copy)
  <2>1. BackedBy(held, job.of, job.copy)
    BY <1>1 DEF JobOK
  <2> HIDE DEF held, more
  <2> QED BY <1>2, <1>4, <1>6, <2>1, StillBacked
<1>8. JobOK(more, job)
  BY <1>1, <1>7 DEF JobOK
<1>9. JobOK(more, undo)
  <2>1. undo \in Jobs
    BY <1>1 DEF Jobs
  <2>2. /\ undo.op = job.op /\ undo.by = job.by /\ undo.of = job.of
        /\ undo.copy = job.copy /\ undo.pc = "undo" /\ undo.batch = b
    BY <1>1 DEF Jobs
  <2> HIDE DEF undo, more
  <2> QED BY <1>2, <1>8, <2>1, <2>2, MovedOn
<1>10. hit => JobOK(more, next)
  <2>1. copied \in ReservationType
    <3>1. job.copy.alloc \in [Batches -> Nat]
      BY <1>2 DEF ReservationType
    <3>2. [job.copy.alloc EXCEPT ![b] = n] \in [Batches -> Nat]
      BY <3>1, <1>2
    <3>3. copied = [job.copy EXCEPT !.alloc = [job.copy.alloc EXCEPT ![b] = n]]
      BY <1>2 DEF ReservationType
    <3> QED BY <3>2, <3>3, <1>2 DEF ReservationType
  <2>2. job.left - n \in Nat
    BY <1>2
  <2>3. next \in Jobs
    BY <1>1, <2>1, <2>2 DEF Jobs
  <2>4. /\ next.op = job.op /\ next.by = job.by /\ next.of = job.of
        /\ next.copy = copied /\ next.pc = "take"
    BY <1>1 DEF Jobs
  <2>5. \A c \in Batches :
          copied.alloc[c] = IF c = b THEN n ELSE job.copy.alloc[c]
    BY <1>2 DEF ReservationType
  <2>6. hit => BackedBy(more, job.of, copied)
    <3> HIDE DEF copied, more, b, n
    <3> QED BY <1>4, <1>7, <2>5 DEF BackedBy
  <2> HIDE DEF copied, next, more
  <2> QED BY <1>8, <1>2, <2>3, <2>4, <2>6 DEF JobOK
<1>11. bad \/ job' = next
  <2>1. [job EXCEPT !.pc = "take", !.left = @ - job.take,
                    !.copy.alloc[job.batch] = job.take] = next
    BY <1>1, <1>2 DEF Jobs
  <2> QED BY <1>3, <2>1
<1>12. JobOK(more, job')
  <2> hit \/ bad
    BY <1>3 DEF Tried
  <2> HIDE DEF more, next, undo
  <2> QED BY <1>3, <1>9, <1>10, <1>11
<1> QED BY <1>4, <1>5, <1>12, JobAndMovements DEF Record

\* A movement of a job in hand that is no reserve movement.
LEMMA MovementStep ==
  ASSUME IInv, JobOK(moved["reserve"], job),
         NEW kind \in {"release", "out"}, NEW b \in Batches,
         NEW hit \in BOOLEAN, NEW bad \in BOOLEAN, Tried(hit, bad),
         moved' = IF hit
                  THEN [moved EXCEPT ![kind][job.of][b] = @ + job.copy.alloc[b]]
                  ELSE moved,
         NEW j \in Jobs, j.op = job.op, j.by = job.by, j.of = job.of,
         j.copy.alloc = job.copy.alloc, j.pc \in {"give", "out"},
         job.op = "sweep" => j.pc = "give",
         job.op \in {"claim", "commit"} => j.pc = "out",
         job' = IF bad THEN Thrown ELSE j,
         UNCHANGED <<remaining, records, due, round, callers>>
  PROVE  IInv'
<1> DEFINE held == moved["reserve"]
           more == moved'["reserve"]
<1>1. job \in Jobs /\ job.of \in Orders /\ job.copy \in ReservationType
  BY DEF JobOK, Jobs
<1>2. job.copy.alloc[b] \in Nat
  BY <1>1 DEF ReservationType
<1>3. /\ moved' \in [{"reserve", "release", "out"} ->
                       [Orders -> [Batches -> Nat]]]
      /\ \A p \in Orders, c \in Batches : held[p][c] <= more[p][c]
  BY <1>1, <1>2, OneMore
<1>4. faults' \in 0..MaxFaults
  BY TriedType DEF IInv, TypeOK
<1>5. held \in [Orders -> [Batches -> Nat]] /\ more \in [Orders -> [Batches -> Nat]]
  BY <1>3, ReservedFor
<1>6. BackedBy(more, job.of, job.copy)
  <2>1. BackedBy(held, job.of, job.copy)
    BY DEF JobOK
  <2> HIDE DEF held, more
  <2> QED BY <1>1, <1>3, <1>5, <2>1, StillBacked
<1>7. JobOK(more, job)
  BY <1>6 DEF JobOK
<1>8. JobOK(more, j)
  <2> HIDE DEF more
  <2> QED BY <1>7, MovedOn
<1>9. job' = Idle \/ JobOK(more, job')
  <2> HIDE DEF more
  <2> QED BY <1>7, <1>8, AfterThrow
<1> QED BY <1>3, <1>4, <1>9, JobAndMovements

LEMMA GivenStep == IInv /\ Given => IInv'
<1> SUFFICES ASSUME IInv, Given PROVE IInv'
  OBVIOUS
<1> DEFINE b == job.batch
           j == [job EXCEPT !.pc = "give", !.todo = @ \ {b}]
<1>1. job \in Jobs /\ JobOK(moved["reserve"], job) /\ job.pc = "given"
  BY AtWork DEF Given
<1>2. b \in Batches /\ job.op \notin {"claim", "commit"}
  BY <1>1 DEF JobOK
<1>3. PICK hit, bad \in BOOLEAN :
        /\ Tried(hit, bad)
        /\ moved' = IF hit
                    THEN [moved EXCEPT !["release"][job.of][b] =
                            @ + job.copy.alloc[b]]
                    ELSE moved
        /\ job' = IF bad THEN Thrown ELSE j
  BY DEF Given
<1>4. /\ j \in Jobs /\ j.op = job.op /\ j.by = job.by /\ j.of = job.of
      /\ j.copy = job.copy /\ j.pc = "give"
  BY <1>1 DEF Jobs
<1> HIDE DEF j, b
<1> QED BY <1>1, <1>2, <1>3, <1>4, MovementStep DEF Given

LEMMA OutStep == IInv /\ Out => IInv'
<1> SUFFICES ASSUME IInv, Out PROVE IInv'
  OBVIOUS
<1> DEFINE b == Min(job.todo)
           j == [job EXCEPT !.todo = @ \ {b}]
<1>1. job \in Jobs /\ JobOK(moved["reserve"], job) /\ job.pc = "out"
  BY AtWork DEF Out
<1>2. b \in Batches /\ job.op # "sweep"
  BY <1>1, MinOfBatches DEF Out, Jobs, JobOK
<1>3. PICK hit, bad \in BOOLEAN :
        /\ Tried(hit, bad)
        /\ moved' = IF hit
                    THEN [moved EXCEPT !["out"][job.of][b] =
                            @ + job.copy.alloc[b]]
                    ELSE moved
        /\ job' = IF bad THEN Thrown ELSE j
  BY DEF Out
<1>4. /\ j \in Jobs /\ j.op = job.op /\ j.by = job.by /\ j.of = job.of
      /\ j.copy = job.copy /\ j.pc = "out"
  BY <1>1 DEF Jobs
<1> HIDE DEF j, b
<1> QED BY <1>1, <1>2, <1>3, <1>4, MovementStep DEF Out

\* The steps of a job that write nothing.
LEMMA ShortageStep == IInv /\ Shortage => IInv'
<1> SUFFICES ASSUME IInv, Shortage PROVE IInv'
  OBVIOUS
<1>1. JobOK(moved["reserve"], job) /\ job.op = "reserve"
  BY AtWork DEF Shortage, JobOK
<1>2. JobOK(moved["reserve"], RolledBack)
  BY <1>1, AfterRollback
<1> QED BY <1>2, JobAlone DEF Shortage

LEMMA AllocatedStep == IInv /\ Allocated => IInv'
<1> SUFFICES ASSUME IInv, Allocated PROVE IInv'
  OBVIOUS
<1>1. job \in Jobs /\ JobOK(moved["reserve"], job) /\ job.op = "reserve"
  BY AtWork DEF Allocated, JobOK
<1>2. job' \in Jobs
  BY <1>1 DEF Allocated, Jobs
<1>3. JobOK(moved["reserve"], job')
  BY <1>1, <1>2 DEF Allocated, Jobs, JobOK
<1> QED BY <1>3, JobAlone DEF Allocated

LEMMA SoldStep == IInv /\ Sold => IInv'
<1> SUFFICES ASSUME IInv, Sold PROVE IInv'
  OBVIOUS
<1> DEFINE held == moved["reserve"]
           r == [job.copy EXCEPT !.state = "committed"]
           j == [job EXCEPT !.pc = "save", !.copy = r]
<1>1. job \in Jobs /\ JobOK(held, job) /\ job.op # "sweep"
  BY AtWork DEF Sold, JobOK
<1>2. r \in ReservationType /\ r.alloc = job.copy.alloc
  BY <1>1 DEF Jobs, ReservationType
<1>3. job' = j
  BY <1>1 DEF Sold, Jobs
<1> HIDE DEF r
<1>4. /\ j \in Jobs /\ j.op = job.op /\ j.by = job.by /\ j.of = job.of
      /\ j.copy.alloc = job.copy.alloc /\ j.pc = "save"
  BY <1>1, <1>2 DEF Jobs
<1>5. JobOK(held, job')
  <2> HIDE DEF j, held
  <2> QED BY <1>1, <1>3, <1>4, MovedOn
<1> QED BY <1>5, JobAlone DEF Sold

LEMMA FreedStep == IInv /\ Freed => IInv'
<1> SUFFICES ASSUME IInv, Freed PROVE IInv'
  OBVIOUS
<1> DEFINE held == moved["reserve"]
           ended(pc, state) == [job EXCEPT !.pc = pc, !.copy.state = state]
<1>1. job \in Jobs /\ JobOK(held, job) /\ job.pc = "give"
  BY AtWork DEF Freed
<1>2. \A pc \in {"answer", "save", "close"}, state \in {"released", "expired"} :
        (job.op = "sweep" <=> pc = "close") => JobOK(held, ended(pc, state))
  <2> TAKE pc \in {"answer", "save", "close"}, state \in {"released", "expired"}
  <2> HAVE job.op = "sweep" <=> pc = "close"
  <2> DEFINE r == [job.copy EXCEPT !.state = state]
             j == [job EXCEPT !.pc = pc, !.copy = r]
  <2>1. r \in ReservationType /\ r.alloc = job.copy.alloc
    BY <1>1 DEF Jobs, ReservationType
  <2>2. ended(pc, state) = j
    BY <1>1 DEF Jobs
  <2> HIDE DEF r
  <2>3. /\ j \in Jobs /\ j.op = job.op /\ j.by = job.by /\ j.of = job.of
        /\ j.copy.alloc = job.copy.alloc /\ j.pc = pc
    BY <1>1, <2>1 DEF Jobs
  <2>4. JobOK(held, j)
    <3> HIDE DEF j, held
    <3> QED BY <1>1, <2>3, MovedOn
  <2> QED BY <2>2, <2>4
<1>3. job.op \in {"reserve", "release", "abort", "sweep"}
  BY <1>1 DEF JobOK, Jobs, Ops
<1>4. job' = Idle \/ JobOK(held, job')
  <2>1. CASE job.op = "reserve"
    BY <2>1, <1>1, AfterThrow DEF Freed
  <2>2. CASE job.op = "release"
    BY <2>2, <1>2 DEF Freed
  <2>3. CASE job.op = "abort"
    BY <2>3, <1>2 DEF Freed
  <2>4. CASE job.op = "sweep"
    BY <2>4, <1>2 DEF Freed
  <2> QED BY <1>3, <2>1, <2>2, <2>3, <2>4
<1> QED BY <1>4, JobAlone DEF Freed

-----------------------------------------------------------------------------
(* The steps that write notes.                                             *)

\* Steps that write a backed reservation in the notes of an order; they may
\* change its status, what the job does next, and what the sweep still has to
\* do, but not what it has read.
LEMMA NotesWritten ==
  ASSUME IInv, NEW o \in Orders, NEW r \in ReservationType,
         BackedBy(moved["reserve"], o, r),
         notes' = notes \/ notes' = [notes EXCEPT ![o] = r],
         order' \in [Orders -> {"none", "draft", "confirmed", "cancelled"}],
         paid' \in SUBSET Orders,
         UNCHANGED <<stock, intent, due, copy>>,
         round'.seen = round.seen,
         round' \in [free : SUBSET Orders, void : SUBSET Orders,
                     seen : [Orders -> ReservationType]],
         at' \in [Callers -> PlaceType], faults' \in 0..MaxFaults,
         job' = Idle \/ JobOK(moved["reserve"], job')
  PROVE  IInv'
<1>1. job' \in Jobs \cup {Idle}
  BY DEF JobOK
<1>2. notes' \in [Orders -> ReservationType]
  BY DEF IInv, TypeOK
<1>3. TypeOK'
  BY <1>1, <1>2 DEF IInv, TypeOK, stock
<1>4. WorkOK'
  BY DEF WorkOK, stock
<1>5. NotesBacked'
  <2>1. \A p \in Orders : notes'[p] = notes[p] \/ (p = o /\ notes'[p] = r)
    BY DEF IInv, TypeOK
  <2>2. \A p \in Orders : BackedBy(moved["reserve"], p, notes'[p])
    BY <2>1 DEF IInv, NotesBacked
  <2> QED BY <2>2 DEF NotesBacked, stock
<1>6. CopiesBacked' /\ RoundBacked'
  BY DEF IInv, CopiesBacked, RoundBacked, stock
<1> QED BY <1>3, <1>4, <1>5, <1>6 DEF IInv

LEMMA Answering ==
  ASSUME NEW held, JobOK(held, job), job.op # "sweep"
  PROVE  JobOK(held, [job EXCEPT !.pc = "answer"])
<1>1. [job EXCEPT !.pc = "answer"] \in Jobs
  BY DEF JobOK, Jobs
<1> QED BY <1>1 DEF JobOK, Jobs

LEMMA NoteStep == IInv /\ Note => IInv'
<1> SUFFICES ASSUME IInv, Note PROVE IInv'
  OBVIOUS
<1>1. job \in Jobs /\ JobOK(moved["reserve"], job) /\ job.op = "reserve"
  BY AtWork DEF Note, JobOK
<1>2. /\ job.of \in Orders /\ job.copy \in ReservationType
      /\ BackedBy(moved["reserve"], job.of, job.copy)
  BY <1>1 DEF JobOK, Jobs
<1>3. PICK hit, bad \in BOOLEAN :
        /\ Tried(hit, bad)
        /\ notes' = IF hit THEN [notes EXCEPT ![job.of] = job.copy] ELSE notes
        /\ job' = IF bad THEN RolledBack ELSE [job EXCEPT !.pc = "answer"]
  BY DEF Note
<1>4. JobOK(moved["reserve"], job')
  BY <1>1, <1>3, AfterRollback, Answering
<1>5. faults' \in 0..MaxFaults
  BY <1>3, TriedType DEF IInv, TypeOK
<1> QED BY <1>2, <1>3, <1>4, <1>5, NotesWritten
        DEF Note, IInv, TypeOK, callers, stock

LEMMA SaveStep == IInv /\ Save => IInv'
<1> SUFFICES ASSUME IInv, Save PROVE IInv'
  OBVIOUS
<1>1. job \in Jobs /\ JobOK(moved["reserve"], job) /\ job.op # "sweep"
  BY AtWork DEF Save, JobOK
<1>2. /\ job.of \in Orders /\ job.copy \in ReservationType
      /\ BackedBy(moved["reserve"], job.of, job.copy)
  BY <1>1 DEF JobOK, Jobs
<1>3. PICK hit, bad \in BOOLEAN :
        /\ Tried(hit, bad)
        /\ notes' = IF hit THEN [notes EXCEPT ![job.of] = job.copy] ELSE notes
        /\ job' = IF bad THEN Thrown ELSE [job EXCEPT !.pc = "answer"]
  BY DEF Save
<1>4. job' = Idle \/ JobOK(moved["reserve"], job')
  BY <1>1, <1>3, AfterThrow, Answering
<1>5. faults' \in 0..MaxFaults
  BY <1>3, TriedType DEF IInv, TypeOK
<1> QED BY <1>2, <1>3, <1>4, <1>5, NotesWritten
        DEF Save, IInv, TypeOK, callers, stock

LEMMA CloseStep == IInv /\ Close => IInv'
<1> SUFFICES ASSUME IInv, Close PROVE IInv'
  OBVIOUS
<1>1. job \in Jobs /\ JobOK(moved["reserve"], job)
  BY AtWork DEF Close
<1>2. /\ job.of \in Orders /\ job.copy \in ReservationType
      /\ BackedBy(moved["reserve"], job.of, job.copy)
  BY <1>1 DEF JobOK, Jobs
<1>3. PICK hit, bad \in BOOLEAN :
        /\ Tried(hit, bad)
        /\ IF hit
           THEN /\ order' = [order EXCEPT ![job.of] = "cancelled"]
                /\ notes' = [notes EXCEPT ![job.of] = job.copy]
           ELSE UNCHANGED <<order, notes>>
        /\ round' = IF bad THEN round ELSE [round EXCEPT !.void = @ \cup {job.of}]
  BY DEF Close
<1>4. faults' \in 0..MaxFaults
  BY <1>3, TriedType DEF IInv, TypeOK
<1>5. /\ round'.seen = round.seen
      /\ round' \in [free : SUBSET Orders, void : SUBSET Orders,
                     seen : [Orders -> ReservationType]]
  <2>1. round \in [free : SUBSET Orders, void : SUBSET Orders,
                   seen : [Orders -> ReservationType]]
    BY DEF IInv, TypeOK
  <2> QED BY <1>2, <1>3, <2>1
<1>6. order' \in [Orders -> {"none", "draft", "confirmed", "cancelled"}]
  BY <1>3 DEF IInv, TypeOK
<1> QED BY <1>2, <1>3, <1>4, <1>5, <1>6, NotesWritten
        DEF Close, IInv, TypeOK, callers, stock

LEMMA SyncStep == IInv /\ Sync => IInv'
<1> SUFFICES ASSUME IInv, Sync PROVE IInv'
  OBVIOUS
<1> DEFINE o == job.of
           r == [notes[o] EXCEPT !.synced = TRUE]
<1>1. job \in Jobs
  BY AtWork DEF Sync
<1>2. o \in Orders
  BY <1>1 DEF Jobs
<1>3. notes[o] \in ReservationType /\ BackedBy(moved["reserve"], o, notes[o])
  BY <1>2 DEF IInv, TypeOK, NotesBacked
<1>4. r \in ReservationType /\ BackedBy(moved["reserve"], o, r)
  BY <1>3 DEF ReservationType, BackedBy
<1>5. PICK hit, bad \in BOOLEAN :
        /\ Tried(hit, bad)
        /\ notes' = IF hit /\ notes[o].state = "expired"
                    THEN [notes EXCEPT ![o].synced = TRUE] ELSE notes
  BY DEF Sync
<1>6. notes' = notes \/ notes' = [notes EXCEPT ![o] = r]
  BY <1>5
<1>7. faults' \in 0..MaxFaults
  BY <1>5, TriedType DEF IInv, TypeOK
<1> HIDE DEF r
<1> QED BY <1>2, <1>4, <1>6, <1>7, NotesWritten
        DEF Sync, IInv, TypeOK, callers, stock

-----------------------------------------------------------------------------
(* The sweep, and the answer.                                              *)

LEMMA SweepStep == IInv /\ Sweep => IInv'
<1> SUFFICES ASSUME IInv, Sweep PROVE IInv'
  OBVIOUS
<1>1. Expirable \in SUBSET Orders /\ Untold \in SUBSET Orders
  BY DEF Expirable, Untold
<1>2. round' \in RoundType /\ round'.seen = notes
  BY <1>1 DEF Sweep, IInv, TypeOK, RoundType
<1>3. TypeOK'
  BY <1>2 DEF Sweep, IInv, TypeOK, RoundType, stock, records, callers
<1>4. WorkOK' /\ NotesBacked' /\ CopiesBacked' /\ RoundBacked'
  BY <1>2 DEF Sweep, IInv, WorkOK, NotesBacked, CopiesBacked, RoundBacked,
              stock, records, callers
<1> QED BY <1>3, <1>4 DEF IInv

\* The sweep takes up one order.
LEMMA NewSweepJob ==
  ASSUME NEW held, NEW o \in Orders, NEW r \in ReservationType,
         BackedBy(held, o, r), NEW pc \in {"give", "sync"},
         NEW todo \in SUBSET Batches
  PROVE  JobOK(held, SweepJob(o, r, pc, todo))
<1>1. SweepJob(o, r, pc, todo) \in Jobs
  BY DEF SweepJob, Jobs
<1> QED BY <1>1 DEF SweepJob, JobOK

LEMMA ExpireStep ==
  ASSUME IInv, NEW o \in Orders, Expire(o)
  PROVE  IInv'
<1> DEFINE r == round.seen[o]
           todo == Unmoved("release", o, r)
<1>1. r \in ReservationType /\ BackedBy(moved["reserve"], o, r)
  BY DEF IInv, TypeOK, RoundBacked
<1>2. todo \in SUBSET Batches
  BY UnmovedIsBatches
<1>3. JobOK(moved["reserve"], SweepJob(o, r, "give", todo))
  <2> HIDE DEF r, todo
  <2> QED BY <1>1, <1>2, NewSweepJob
<1>4. JobOK(moved["reserve"], job') /\ job' \in Jobs
  BY <1>3 DEF Expire, JobOK
<1>5. round' \in RoundType /\ round'.seen = round.seen
  BY DEF Expire, IInv, TypeOK, RoundType
<1>6. TypeOK'
  BY <1>4, <1>5 DEF Expire, IInv, TypeOK, RoundType, stock, records, callers
<1>7. WorkOK'
  BY <1>4 DEF Expire, WorkOK, stock
<1>8. NotesBacked' /\ CopiesBacked' /\ RoundBacked'
  BY <1>5 DEF Expire, IInv, NotesBacked, CopiesBacked, RoundBacked,
              stock, records, callers
<1> QED BY <1>6, <1>7, <1>8 DEF IInv

LEMMA VoidStep ==
  ASSUME IInv, NEW o \in Orders, Void(o)
  PROVE  IInv'
<1>1. BackedBy(moved["reserve"], o, NoReservation)
  BY ReservedFor, EmptyIsBacked
<1>2. JobOK(moved["reserve"], SweepJob(o, NoReservation, "sync", {}))
  BY <1>1, EmptyReservation, NewSweepJob
<1>3. job' = Idle \/ JobOK(moved["reserve"], job')
  BY <1>2 DEF Void
<1>4. job' \in Jobs \cup {Idle}
  BY <1>3 DEF JobOK
<1>5. round' \in RoundType /\ round'.seen = round.seen
  BY DEF Void, IInv, TypeOK, RoundType
<1>6. intent' \in [Orders -> {"none", "pending", "paid", "cancelled"}]
  BY DEF Void, IInv, TypeOK
<1>7. faults' \in 0..MaxFaults
  BY TriedType DEF Void, IInv, TypeOK
<1>8. TypeOK'
  BY <1>4, <1>5, <1>6, <1>7 DEF Void, IInv, TypeOK, RoundType, stock, callers
<1>9. WorkOK'
  BY <1>3 DEF Void, WorkOK, stock
<1>10. NotesBacked' /\ CopiesBacked' /\ RoundBacked'
  BY <1>5 DEF Void, IInv, NotesBacked, CopiesBacked, RoundBacked, stock, callers
<1> QED BY <1>8, <1>9, <1>10 DEF IInv

LEMMA SweepEndsStep == IInv /\ SweepEnds => IInv'
<1> SUFFICES ASSUME IInv, SweepEnds PROVE IInv'
  OBVIOUS
<1> DEFINE empty == [o \in Orders |-> NoReservation]
<1>1. round' \in RoundType /\ round'.seen = empty
  BY EmptyReservation DEF SweepEnds, NoRound, RoundType
<1>2. \A o \in Orders : BackedBy(moved["reserve"], o, empty[o])
  BY ReservedFor, EmptyIsBacked
<1>3. TypeOK'
  BY <1>1 DEF SweepEnds, IInv, TypeOK, RoundType, stock, records, callers
<1>4. RoundBacked'
  BY <1>1, <1>2 DEF SweepEnds, RoundBacked, stock
<1>5. WorkOK' /\ NotesBacked' /\ CopiesBacked'
  BY DEF SweepEnds, IInv, WorkOK, NotesBacked, CopiesBacked,
         stock, records, callers
<1> QED BY <1>3, <1>4, <1>5 DEF IInv

LEMMA AnswerPlaces ==
  /\ \A op \in Ops : OnAnswer[op] \in PlaceType
  /\ \A c \in Callers : OnFailure(c) \in PlaceType
BY DEF Ops, OnAnswer, OnFailure, PlaceType

LEMMA AnswerStep == IInv /\ Answer => IInv'
<1> SUFFICES ASSUME IInv, Answer PROVE IInv'
  OBVIOUS
<1> DEFINE c == job.by
           held == moved["reserve"]
<1>1. job \in Jobs /\ JobOK(held, job) /\ job.op # "sweep"
  BY DEF Answer, IInv, WorkOK, JobOK
<1>2. /\ c \in Callers /\ job.copy \in ReservationType /\ job.op \in Ops
      /\ BackedBy(held, OrderFor(c), job.copy)
  BY <1>1 DEF JobOK, Jobs
<1>3. PICK lost \in BOOLEAN :
        LET heard == at[c] = job.op
            good == job.pc = "answer" /\ ~lost
        IN  /\ IF lost THEN Fault /\ heard ELSE UNCHANGED faults
            /\ at' = IF ~heard THEN at
                     ELSE [at EXCEPT ![c] = IF good THEN OnAnswer[job.op]
                                            ELSE OnFailure(c)]
            /\ copy' = IF heard /\ good THEN [copy EXCEPT ![c] = job.copy]
                       ELSE copy
  BY DEF Answer
<1> HIDE DEF c, held
<1>4. at' \in [Callers -> PlaceType]
  BY <1>2, <1>3, AnswerPlaces DEF IInv, TypeOK
<1>5. copy' = copy \/ copy' = [copy EXCEPT ![c] = job.copy]
  BY <1>3
<1>6. copy' \in [Callers -> ReservationType]
  BY <1>2, <1>5 DEF IInv, TypeOK
<1>7. faults' \in 0..MaxFaults
  BY <1>3, FaultType DEF IInv, TypeOK
<1>8. TypeOK'
  BY <1>4, <1>6, <1>7 DEF Answer, IInv, TypeOK, stock, records
<1>9. CopiesBacked'
  <2>1. \A d \in Callers : copy'[d] = copy[d] \/ (d = c /\ copy'[d] = job.copy)
    BY <1>5 DEF IInv, TypeOK
  <2>2. \A d \in Callers : BackedBy(held, OrderFor(d), copy'[d])
    BY <2>1, <1>2 DEF IInv, CopiesBacked, held
  <2> QED BY <2>2 DEF CopiesBacked, Answer, stock, held
<1>10. WorkOK' /\ NotesBacked' /\ RoundBacked'
  BY DEF Answer, IInv, WorkOK, NotesBacked, RoundBacked, stock, records
<1> QED BY <1>8, <1>9, <1>10 DEF IInv

LEMMA JobSteps == IInv /\ JobStep => IInv'
BY TakeStep, RecordStep, UndoStep, ShortageStep, AllocatedStep, NoteStep,
   GiveStep, GivenStep, FreedStep, OutStep, SoldStep, SaveStep, AnswerStep,
   CloseStep, SyncStep, SweepEndsStep, ExpireStep, VoidStep DEF JobStep

-----------------------------------------------------------------------------
(* The callers, time and evictions.                                        *)

\* Steps that change no copy of a reservation.
LEMMA NoCopyChanged ==
  ASSUME IInv, UNCHANGED <<stock, notes, work, copy>>, TypeOK'
  PROVE  IInv'
<1>1. WorkOK'
  BY DEF IInv, WorkOK, stock, work
<1>2. NotesBacked' /\ CopiesBacked' /\ RoundBacked'
  BY DEF IInv, NotesBacked, CopiesBacked, RoundBacked, stock, work
<1> QED BY <1>1, <1>2 DEF IInv

LEMMA PlaceStep ==
  ASSUME IInv, NEW o \in Orders, Place(o)
  PROVE  IInv'
<1>1. o \in Callers
  BY DEF Callers
<1>2. TypeOK'
  BY <1>1 DEF Place, Goto, IInv, TypeOK, PlaceType, Ops, stock, work
<1> QED BY <1>2, NoCopyChanged DEF Place

LEMMA PayStep ==
  ASSUME IInv, NEW o \in Orders, Pay(o)
  PROVE  IInv'
<1>1. o \in Callers
  BY DEF Callers
<1>2. at' \in [Callers -> PlaceType]
  BY <1>1 DEF Pay, Goto, IInv, TypeOK, PlaceType, Ops
<1>3. intent' \in [Orders -> {"none", "pending", "paid", "cancelled"}]
  BY DEF Pay, IInv, TypeOK
<1>4. faults' \in 0..MaxFaults
  BY FaultType DEF Pay, IInv, TypeOK
<1>5. TypeOK'
  BY <1>2, <1>3, <1>4 DEF Pay, IInv, TypeOK, stock, work
<1> QED BY <1>5, NoCopyChanged DEF Pay

LEMMA NotifyStep ==
  ASSUME IInv, NEW v \in Reviews, Notify(v)
  PROVE  IInv'
<1>1. v \in Callers /\ Target[v] \in Orders
  BY CallersAssumption DEF Callers, CallersAssumption
<1>2. at' \in [Callers -> PlaceType]
  BY <1>1 DEF Notify, Goto, IInv, TypeOK, PlaceType, Ops
<1>3. intent' \in [Orders -> {"none", "pending", "paid", "cancelled"}]
  BY <1>1 DEF Notify, IInv, TypeOK
<1>4. faults' \in 0..MaxFaults
  BY FaultType DEF Notify, IInv, TypeOK
<1>5. TypeOK'
  BY <1>2, <1>3, <1>4 DEF Notify, IInv, TypeOK, stock, work
<1> QED BY <1>5, NoCopyChanged DEF Notify

LEMMA TickStep ==
  ASSUME IInv, NEW o \in Orders, Tick(o)
  PROVE  IInv'
<1>1. TypeOK'
  BY DEF Tick, IInv, TypeOK, stock, records, work, callers
<1> QED BY <1>1, NoCopyChanged DEF Tick, records, callers

LEMMA EvictStep ==
  ASSUME IInv, NEW c \in Callers, Evict(c)
  PROVE  IInv'
<1>1. faults' \in 0..MaxFaults
  BY FaultType DEF Evict, IInv, TypeOK
<1>2. TypeOK'
  BY <1>1 DEF Evict, Goto, IInv, TypeOK, PlaceType, stock, records, work
<1> QED BY <1>2, NoCopyChanged DEF Evict, records

LEMMA CoordinatorEvictedStep == IInv /\ CoordinatorEvicted => IInv'
<1> SUFFICES ASSUME IInv, CoordinatorEvicted PROVE IInv'
  OBVIOUS
<1>1. NoRound \in RoundType
  BY EmptyReservation DEF NoRound, RoundType
<1>2. at' \in [Callers -> PlaceType]
  BY AnswerPlaces DEF CoordinatorEvicted, IInv, TypeOK
<1>3. faults' \in 0..MaxFaults
  BY FaultType DEF CoordinatorEvicted, IInv, TypeOK
<1>4. TypeOK'
  BY <1>1, <1>2, <1>3
     DEF CoordinatorEvicted, IInv, TypeOK, RoundType, stock, records
<1>5. \A o \in Orders : BackedBy(moved["reserve"], o, NoReservation)
  BY ReservedFor, EmptyIsBacked
<1>6. RoundBacked'
  BY <1>5 DEF CoordinatorEvicted, RoundBacked, NoRound, stock
<1>7. WorkOK' /\ NotesBacked' /\ CopiesBacked'
  BY DEF CoordinatorEvicted, IInv, WorkOK, NotesBacked, CopiesBacked,
         stock, records
<1> QED BY <1>4, <1>6, <1>7 DEF IInv

\* A caller reads the notes of its order.
LEMMA KeepStep ==
  ASSUME IInv, NEW c \in Callers, NEW place \in PlaceType, Keep(c, place),
         UNCHANGED <<stock, records, due, work, faults>>
  PROVE  IInv'
<1> DEFINE r == notes[OrderFor(c)]
<1>1. r \in ReservationType /\ BackedBy(moved["reserve"], OrderFor(c), r)
  BY OrderOfCaller DEF IInv, TypeOK, NotesBacked
<1>2. copy' = [copy EXCEPT ![c] = r]
  BY DEF Keep
<1> HIDE DEF r
<1>3. copy' \in [Callers -> ReservationType]
  BY <1>1, <1>2 DEF IInv, TypeOK
<1>4. at' \in [Callers -> PlaceType]
  BY DEF Keep, Goto, IInv, TypeOK
<1>5. TypeOK'
  BY <1>3, <1>4 DEF IInv, TypeOK, stock, records, work
<1>6. CopiesBacked'
  <2>1. \A d \in Callers : copy'[d] = copy[d] \/ (d = c /\ copy'[d] = r)
    BY <1>2 DEF IInv, TypeOK
  <2>2. \A d \in Callers : BackedBy(moved["reserve"], OrderFor(d), copy'[d])
    BY <2>1, <1>1 DEF IInv, CopiesBacked
  <2> QED BY <2>2 DEF CopiesBacked, stock
<1>7. WorkOK' /\ NotesBacked' /\ RoundBacked'
  BY DEF IInv, WorkOK, NotesBacked, RoundBacked, stock, records, work
<1> QED BY <1>5, <1>6, <1>7 DEF IInv

LEMMA ReadingStep ==
  /\ IInv /\ (\E v \in Reviews : Preflight(v) \/ Settle(v) \/ Abandon(v)) => IInv'
  /\ IInv /\ (\E a \in Admins : AdminCancel(a)) => IInv'
<1>1. ASSUME IInv, NEW v \in Reviews, Preflight(v) \/ Settle(v) \/ Abandon(v)
      PROVE  IInv'
  <2>1. v \in Callers
    BY DEF Callers
  <2>2. PICK place \in PlaceType : Keep(v, place)
    BY <1>1 DEF Preflight, Settle, Abandon, PlaceType, Ops
  <2>3. UNCHANGED <<stock, records, due, work, faults>>
    BY <1>1 DEF Preflight, Settle, Abandon
  <2> QED BY <1>1, <2>1, <2>2, <2>3, KeepStep
<1>2. ASSUME IInv, NEW a \in Admins, AdminCancel(a)
      PROVE  IInv'
  <2>1. a \in Callers
    BY DEF Callers
  <2>2. PICK place \in PlaceType : Keep(a, place)
    BY <1>2 DEF AdminCancel, PlaceType, Ops
  <2> QED BY <1>2, <2>1, <2>2, KeepStep DEF AdminCancel
<1> QED BY <1>1, <1>2

\* A caller writes its copy over the notes of its order.
LEMMA WritingStep ==
  ASSUME IInv, NEW c \in Callers, NEW hit \in BOOLEAN, NEW bad \in BOOLEAN,
         Tried(hit, bad),
         notes' = IF hit THEN [notes EXCEPT ![OrderFor(c)] = copy[c]] ELSE notes,
         order' \in [Orders -> {"none", "draft", "confirmed", "cancelled"}],
         paid' \in SUBSET Orders, NEW place \in PlaceType, Goto(c, place),
         UNCHANGED <<stock, intent, due, work, copy>>
  PROVE  IInv'
<1> DEFINE o == OrderFor(c)
           r == copy[c]
<1>1. r \in ReservationType /\ BackedBy(moved["reserve"], o, r) /\ o \in Orders
  BY CopyType, OrderOfCaller
<1>2. notes' = notes \/ notes' = [notes EXCEPT ![o] = r]
  OBVIOUS
<1>3. faults' \in 0..MaxFaults
  BY TriedType DEF IInv, TypeOK
<1>4. at' \in [Callers -> PlaceType]
  BY DEF Goto, IInv, TypeOK
<1>5. job' = Idle \/ JobOK(moved["reserve"], job')
  BY DEF IInv, WorkOK, work
<1>6. round' = round /\ round \in RoundType
  BY DEF IInv, TypeOK, RoundType, work
<1> HIDE DEF o, r
<1> QED BY <1>1, <1>2, <1>3, <1>4, <1>5, <1>6, NotesWritten DEF RoundType

LEMMA JotStep ==
  ASSUME IInv, NEW o \in Orders, Jot(o)
  PROVE  IInv'
<1>1. o \in Callers /\ OrderFor(o) = o
  BY DEF Callers, OrderFor
<1>2. PICK hit, bad \in BOOLEAN :
        /\ Tried(hit, bad)
        /\ notes' = IF hit THEN [notes EXCEPT ![OrderFor(o)] = copy[o]] ELSE notes
  BY <1>1 DEF Jot
<1>3. order' \in [Orders -> {"none", "draft", "confirmed", "cancelled"}]
  BY DEF Jot, IInv, TypeOK
<1> QED BY <1>1, <1>2, <1>3, WritingStep DEF Jot, PlaceType, IInv, TypeOK

LEMMA CancelStep ==
  ASSUME IInv, NEW c \in Callers, Cancel(c)
  PROVE  IInv'
<1>1. PICK hit, bad \in BOOLEAN :
        /\ Tried(hit, bad)
        /\ IF hit
           THEN /\ order' = [order EXCEPT ![OrderFor(c)] = "cancelled"]
                /\ notes' = [notes EXCEPT ![OrderFor(c)] = copy[c]]
           ELSE UNCHANGED <<order, notes>>
  BY DEF Cancel
<1>2. order' \in [Orders -> {"none", "draft", "confirmed", "cancelled"}]
  BY <1>1, OrderOfCaller DEF IInv, TypeOK
<1>3. PICK place \in PlaceType : Goto(c, place)
  BY DEF Cancel, PlaceType
<1> QED BY <1>1, <1>2, <1>3, WritingStep DEF Cancel, IInv, TypeOK

LEMMA ConfirmStep ==
  ASSUME IInv, NEW v \in Reviews, Confirm(v)
  PROVE  IInv'
<1>1. v \in Callers /\ OrderFor(v) = Target[v] /\ Target[v] \in Orders
  BY CallersAssumption DEF Callers, OrderFor, CallersAssumption
<1>2. PICK hit, bad \in BOOLEAN :
        /\ Tried(hit, bad)
        /\ IF hit
           THEN /\ order' = [order EXCEPT ![OrderFor(v)] = "confirmed"]
                /\ paid' = paid \cup {OrderFor(v)}
                /\ notes' = [notes EXCEPT ![OrderFor(v)] = copy[v]]
           ELSE UNCHANGED <<order, paid, notes>>
  BY <1>1 DEF Confirm
<1>3. /\ order' \in [Orders -> {"none", "draft", "confirmed", "cancelled"}]
      /\ paid' \in SUBSET Orders
  BY <1>1, <1>2 DEF IInv, TypeOK
<1> QED BY <1>1, <1>2, <1>3, WritingStep DEF Confirm, PlaceType

-----------------------------------------------------------------------------
(* The theorems.                                                           *)

LEMMA InvInit == Init => IInv
<1> SUFFICES ASSUME Init PROVE IInv
  OBVIOUS
<1>1. NoReservation \in ReservationType
  BY EmptyReservation
<1>2. NoRound \in RoundType
  BY <1>1 DEF NoRound, RoundType
<1>3. moved \in [{"reserve", "release", "out"} -> [Orders -> [Batches -> Nat]]]
  BY DEF Init, NoUnits
<1>4. faults \in 0..MaxFaults
  BY BoundsAssumption DEF Init, BoundsAssumption
<1>5. TypeOK
  BY <1>1, <1>2, <1>3, <1>4, StockAssumption
     DEF Init, TypeOK, RoundType, PlaceType, StockAssumption
<1>6. \A o \in Orders : BackedBy(moved["reserve"], o, NoReservation)
  BY <1>3, EmptyIsBacked
<1>7. NotesBacked /\ CopiesBacked /\ RoundBacked
  BY <1>6, OrderOfCaller
     DEF Init, NoRound, NotesBacked, CopiesBacked, RoundBacked
<1>8. WorkOK
  BY DEF Init, WorkOK
<1> QED BY <1>5, <1>7, <1>8 DEF IInv

LEMMA InvStep == IInv /\ [Next]_vars => IInv'
<1> SUFFICES ASSUME IInv, [Next]_vars PROVE IInv'
  OBVIOUS
<1>1. Orders \subseteq Callers /\ Admins \subseteq Callers
  BY DEF Callers
<1>2. CASE UNCHANGED vars
  BY <1>2 DEF vars, IInv, TypeOK, WorkOK, NotesBacked, CopiesBacked, RoundBacked
<1>3. CASE Request \/ JobStep \/ Sweep
  BY <1>3, RequestStep, JobSteps, SweepStep
<1>4. ASSUME NEW o \in Orders, Place(o) \/ CheckoutStep(o) \/ Tick(o)
      PROVE  IInv'
  BY <1>1, <1>4, PlaceStep, TickStep, PayStep, JotStep, CancelStep
     DEF CheckoutStep
<1>5. ASSUME NEW v \in Reviews, Preflight(v) \/ ReviewStep(v)
      PROVE  IInv'
  BY <1>5, ReadingStep, NotifyStep, ConfirmStep DEF ReviewStep
<1>6. ASSUME NEW a \in Admins, AdminCancel(a) \/ Cancel(a)
      PROVE  IInv'
  BY <1>1, <1>6, ReadingStep, CancelStep
<1>7. CASE (\E c \in Callers : Evict(c)) \/ CoordinatorEvicted
  BY <1>7, EvictStep, CoordinatorEvictedStep
<1> QED BY <1>2, <1>3, <1>4, <1>5, <1>6, <1>7 DEF Next

LEMMA Invariant == Spec => []IInv
BY InvInit, InvStep, PTL DEF Spec

\* Every variable keeps its type: no batch ever falls below zero, however
\* reservations, sales and releases interleave and fail.
THEOREM StockTypeCorrect == Spec => []TypeOK
<1>1. IInv => TypeOK
  BY DEF IInv
<1> QED BY <1>1, Invariant, PTL

\* No reservation, written or passed around, ever claims units that no reserve
\* movement of its order accounts for: for any number of orders, callers,
\* batches and faults, with overlapping reviews and cancellations.
THEOREM NothingUnbacked == Spec => []AllocationsBacked
<1>1. IInv => AllocationsBacked
  BY DEF IInv, NotesBacked, CopiesBacked, BackedBy, AllocationsBacked
<1> QED BY <1>1, Invariant, PTL
=============================================================================

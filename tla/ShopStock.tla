------------------------------ MODULE ShopStock ------------------------------
(***************************************************************************)
(* The stock of the shop: what holds it, sells it and gives it back.       *)
(*                                                                         *)
(* Inventory batches, movement records, orders and payment intents live in *)
(* Airtable.  The global stock coordinator, a Durable Object, runs one job *)
(* at a time (reserve, release, claim, abort, commit, or the expiry sweep) *)
(* and each job writes several records, one after the other, with no       *)
(* transaction around them.  Around it are its callers, which pass the     *)
(* reservation by value, as they last read it: the checkout of each order, *)
(* the reviews of its payment proof (payments-worker), and cancellations   *)
(* by an admin (admin-worker).                                             *)
(*                                                                         *)
(* A write can be refused, or made with its answer lost; a caller or the   *)
(* coordinator can be evicted between two steps.  MaxFaults bounds how     *)
(* often.  An order has one line of one product, tracked (Need > 0) or on  *)
(* demand (Need = 0), and the batches are numbered in the order in which   *)
(* they are used up.                                                       *)
(***************************************************************************)
EXTENDS Integers, FiniteSetsExt, Functions

CONSTANTS
  Orders,          \* each with the checkout that places it
  Reviews,         \* official reviews of payment proofs
  Admins,          \* cancellations by an admin
  Nobody,          \* the sweep has no caller to answer
  Target,          \* the order of each review and cancellation
  KeyOf,           \* the payment reference a review names
  LastBatch,
  Initial,         \* units in each batch
  Need,            \* units of the product each order wants
  OverlapReviews,  \* two reviews of one order may overlap
  MaxFaults        \* bound: failed writes, lost answers and evictions

Callers == Orders \cup Reviews \cup Admins
Batches == 1..LastBatch

ASSUME CallersAssumption ==
  /\ Orders \cap Reviews = {}
  /\ Orders \cap Admins = {}
  /\ Reviews \cap Admins = {}
  /\ Nobody \notin Callers
  /\ Target \in [Reviews \cup Admins -> Orders]
ASSUME OrdersAssumption == IsFiniteSet(Orders)
ASSUME StockAssumption ==
  /\ LastBatch \in Nat
  /\ Initial \in [Batches -> Nat]
  /\ Need \in [Orders -> Nat]
ASSUME BoundsAssumption == MaxFaults \in Nat /\ OverlapReviews \in BOOLEAN

VARIABLES
  remaining,   \* units left in each batch
  moved,       \* units in the movement records of each kind, order and batch
  notes,       \* the reservation kept in the notes of each order
  order,       \* the status of each order
  paid,        \* the orders whose payment status is paid
  intent,      \* the payment intent of each order
  due,         \* the orders whose reservation has passed its expiry time
  job,         \* what the coordinator is doing
  round,       \* what is left of its sweep
  at,          \* where each caller is
  copy,        \* the reservation each caller holds
  faults

vars == <<remaining, moved, notes, order, paid, intent, due, job, round, at,
          copy, faults>>

-----------------------------------------------------------------------------
NoUnits == [b \in Batches |-> 0]
NoKey == "no key"

\* A reservation, as written in the notes of its order and passed around.
ReservationType ==
  [state : {"none", "reserved", "payment_review", "committed", "released",
            "expired"},
   key : {KeyOf[v] : v \in Reviews} \cup {NoKey},
   alloc : [Batches -> Nat],    \* units taken from each batch
   synced : BOOLEAN]            \* its payment intent was told of its expiry

NoReservation ==
  [state |-> "none", key |-> NoKey, alloc |-> NoUnits, synced |-> FALSE]

Idle == [op |-> "none"]

Ops == {"reserve", "release", "claim", "abort", "commit"}

Jobs ==
  [op : Ops \cup {"sweep"}, by : Callers \cup {Nobody}, of : Orders,
   pc : {"take", "record", "undo", "note", "give", "given", "out", "save",
         "close", "sync", "answer", "refuse"},
   copy : ReservationType,
   todo : SUBSET Batches,       \* allocations still to be processed
   left : Nat,                  \* units still to be taken
   batch : Nat, take : Nat]     \* the batch in hand, and the units of it

NoRound == [free |-> {}, void |-> {}, seen |-> [o \in Orders |-> NoReservation]]

\* A caller whose place is the name of an operation waits for the coordinator.
PlaceType == Ops \cup {"idle", "pay", "jot", "placed", "cancel", "failed",
                       "notify", "settle", "confirm", "abandon", "done"}

TypeOK ==
  /\ remaining \in [Batches -> Nat]
  /\ moved \in [{"reserve", "release", "out"} -> [Orders -> [Batches -> Nat]]]
  /\ notes \in [Orders -> ReservationType]
  /\ order \in [Orders -> {"none", "draft", "confirmed", "cancelled"}]
  /\ paid \subseteq Orders
  /\ intent \in [Orders -> {"none", "pending", "paid", "cancelled"}]
  /\ due \subseteq Orders
  /\ job \in Jobs \cup {Idle}
  /\ round \in [free : SUBSET Orders, void : SUBSET Orders,
                seen : [Orders -> ReservationType]]
  /\ at \in [Callers -> PlaceType]
  /\ copy \in [Callers -> ReservationType]
  /\ faults \in 0..MaxFaults

Init ==
  /\ remaining = Initial
  /\ moved = [k \in {"reserve", "release", "out"} |->
                [o \in Orders |-> NoUnits]]
  /\ notes = [o \in Orders |-> NoReservation]
  /\ order = [o \in Orders |-> "none"]
  /\ paid = {}
  /\ intent = [o \in Orders |-> "none"]
  /\ due = {}
  /\ job = Idle
  /\ round = NoRound
  /\ at = [c \in Callers |-> "idle"]
  /\ copy = [c \in Callers |-> NoReservation]
  /\ faults = 0

-----------------------------------------------------------------------------
(* Building blocks.                                                        *)

OrderFor(c) == IF c \in Orders THEN c ELSE Target[c]

stock == <<remaining, moved>>
records == <<notes, order, paid, intent>>
work == <<job, round>>
callers == <<at, copy>>

Fault ==
  /\ faults < MaxFaults
  /\ faults' = faults + 1

\* A write: made or not (hit), answered or not (bad).  One that is answered
\* was made.
Tried(hit, bad) ==
  /\ hit \/ bad
  /\ IF bad THEN Fault ELSE UNCHANGED faults

\* Mutant: the movements are not looked up.
Unmoved_NoLookup(kind, o, r) == {b \in Batches : r.alloc[b] > 0}

\* The allocations of a reservation that have no movement of a kind yet.
Unmoved(kind, o, r) == {b \in Batches : r.alloc[b] > 0 /\ moved[kind][o][b] = 0}

JobFor(op, c, r, pc, todo) ==
  [op |-> op, by |-> c, of |-> OrderFor(c), pc |-> pc, copy |-> r,
   todo |-> todo, left |-> 0, batch |-> 0, take |-> 0]

\* The coordinator is free and takes up the request c waits with: it accepts
\* nothing else until the job has been answered (the tail of its promises).
Takes(op, c) ==
  /\ job = Idle
  /\ round = NoRound
  /\ at[c] = op
  /\ UNCHANGED <<stock, records, due, round, callers, faults>>

-----------------------------------------------------------------------------
(* The requests of the coordinator: what each does before its first write. *)

Reserve(c) ==
  /\ Takes("reserve", c)
  /\ job' = [JobFor("reserve", c,
                    [NoReservation EXCEPT !.state = "reserved"], "take", {})
             EXCEPT !.left = Need[OrderFor(c)]]

Release(c) ==
  LET r == copy[c]
  IN  /\ Takes("release", c)
      /\ job' =
           CASE r.state = "reserved" ->
                  JobFor("release", c, r, "give",
                         Unmoved("release", OrderFor(c), r))
             [] r.state \in {"released", "expired"} ->
                  JobFor("release", c, r, "answer", {})
             [] OTHER -> JobFor("release", c, r, "refuse", {})

Claim(c) ==
  LET r == copy[c]
      mine == r.key \in {NoKey, KeyOf[c]}
      late == OrderFor(c) \in due
      claimed == [r EXCEPT !.state = "payment_review", !.key = KeyOf[c]]
  IN  /\ Takes("claim", c)
      /\ \/ /\ r.state = "committed" \/ (r.state = "payment_review" /\ mine)
            /\ job' = JobFor("claim", c, r, "answer", {})
         \/ /\ r.state = "reserved" /\ ~late
            /\ job' = JobFor("claim", c, claimed, "save", {})
         \/ /\ \/ r.state \in {"released", "expired"}
               \/ r.state = "payment_review" /\ ~mine
               \/ r.state = "reserved" /\ late
            /\ job' = JobFor("claim", c, r, "refuse", {})

\* An aborted claim is reserved again, unless its time is up: then its stock is
\* given back at once.
Abort(c) ==
  LET r == copy[c]
      open == [r EXCEPT !.state = "reserved", !.key = NoKey]
      lapsed == [r EXCEPT !.state = "reserved"]
  IN  /\ Takes("abort", c)
      /\ job' =
           CASE r.state # "payment_review" -> JobFor("abort", c, r, "answer", {})
             [] r.state = "payment_review" /\ r.key \notin {NoKey, KeyOf[c]} ->
                  JobFor("abort", c, r, "refuse", {})
             [] r.state = "payment_review" /\ r.key \in {NoKey, KeyOf[c]} ->
                  IF OrderFor(c) \in due
                  THEN JobFor("abort", c, lapsed, "give",
                              Unmoved("release", OrderFor(c), r))
                  ELSE JobFor("abort", c, open, "save", {})

Commit(c) ==
  LET r == copy[c]
  IN  /\ Takes("commit", c)
      /\ job' =
           CASE r.state \in {"reserved", "payment_review"} ->
                  JobFor("commit", c, r, "out", Unmoved("out", OrderFor(c), r))
             [] r.state = "committed" -> JobFor("commit", c, r, "answer", {})
             [] OTHER -> JobFor("commit", c, r, "refuse", {})

-----------------------------------------------------------------------------
(* The steps of a job.                                                     *)

Running(pc) == job # Idle /\ job.pc = pc

\* Where a job goes when a write of it throws.
Thrown == IF job.op = "sweep" THEN Idle ELSE [job EXCEPT !.pc = "refuse"]

Stocked == {b \in Batches : remaining[b] > 0}

\* Mutant: a shortage is reported, what was taken for it is kept.
RolledBack_Kept == Thrown

\* The allocations made so far are given back, best effort.
RolledBack ==
  [job EXCEPT !.pc = "give", !.todo = Unmoved("release", job.of, job.copy)]

\* Mutant: a batch is asked for all that is needed, not for what it has.
Take_Whole ==
  /\ Running("take")
  /\ job.left > 0
  /\ Stocked # {}
  /\ LET b == Min(Stocked)
         q == job.left
     IN  \E hit, bad \in BOOLEAN :
           /\ Tried(hit, bad)
           /\ remaining' = IF hit THEN [remaining EXCEPT ![b] = @ - q]
                           ELSE remaining
           /\ job' = IF bad THEN Thrown
                     ELSE [job EXCEPT !.pc = "record", !.batch = b, !.take = q]
  /\ UNCHANGED <<moved, records, due, round, callers>>

\* Take what the oldest batch has: first the batch is patched ...
Take ==
  /\ Running("take")
  /\ job.left > 0
  /\ Stocked # {}
  /\ LET b == Min(Stocked)
         q == Min({job.left, remaining[b]})
     IN  \E hit, bad \in BOOLEAN :
           /\ Tried(hit, bad)
           /\ remaining' = IF hit THEN [remaining EXCEPT ![b] = @ - q]
                           ELSE remaining
           /\ job' = IF bad THEN Thrown
                     ELSE [job EXCEPT !.pc = "record", !.batch = b, !.take = q]
  /\ UNCHANGED <<moved, records, due, round, callers>>

\* Mutant: the allocation is noted even when its movement was not made.
Record_Unchecked ==
  /\ Running("record")
  /\ \E hit, bad \in BOOLEAN :
       /\ Tried(hit, bad)
       /\ moved' = IF hit
                   THEN [moved EXCEPT !["reserve"][job.of][job.batch] =
                           @ + job.take]
                   ELSE moved
       /\ job' = [job EXCEPT !.pc = "take", !.left = @ - job.take,
                             !.copy.alloc[job.batch] = job.take]
  /\ UNCHANGED <<remaining, records, due, round, callers>>

\* ... then its movement is recorded.
Record ==
  /\ Running("record")
  /\ \E hit, bad \in BOOLEAN :
       /\ Tried(hit, bad)
       /\ moved' = IF hit
                   THEN [moved EXCEPT !["reserve"][job.of][job.batch] = @ + job.take]
                   ELSE moved
       /\ job' = IF bad THEN [job EXCEPT !.pc = "undo"]
                 ELSE [job EXCEPT !.pc = "take", !.left = @ - job.take,
                                  !.copy.alloc[job.batch] = job.take]
  /\ UNCHANGED <<remaining, records, due, round, callers>>

\* The movement failed: put the batch back, best effort, and give up.  What was
\* taken from earlier batches is not given back.
Undo ==
  /\ Running("undo")
  /\ \E hit, bad \in BOOLEAN :
       /\ Tried(hit, bad)
       /\ remaining' = IF hit
                       THEN [remaining EXCEPT ![job.batch] = @ + job.take]
                       ELSE remaining
  /\ job' = Thrown
  /\ UNCHANGED <<moved, records, due, round, callers>>

\* The batches ran out between the customer's cart and the reservation.
Shortage ==
  /\ Running("take")
  /\ job.left > 0
  /\ Stocked = {}
  /\ job' = RolledBack
  /\ UNCHANGED <<stock, records, due, round, callers, faults>>

Allocated ==
  /\ Running("take")
  /\ job.left = 0
  /\ job' = [job EXCEPT !.pc = "note"]
  /\ UNCHANGED <<stock, records, due, round, callers, faults>>

\* The reservation is written to the notes of the order; if that fails its
\* stock is given back.
Note ==
  /\ Running("note")
  /\ \E hit, bad \in BOOLEAN :
       /\ Tried(hit, bad)
       /\ notes' = IF hit THEN [notes EXCEPT ![job.of] = job.copy] ELSE notes
       /\ job' = IF bad THEN RolledBack ELSE [job EXCEPT !.pc = "answer"]
  /\ UNCHANGED <<stock, order, paid, intent, due, round, callers>>

\* Give back one allocation: first the batch is patched ...
Give ==
  /\ Running("give")
  /\ job.todo # {}
  /\ LET b == Min(job.todo)
     IN  \E hit, bad \in BOOLEAN :
           /\ Tried(hit, bad)
           /\ remaining' = IF hit
                           THEN [remaining EXCEPT ![b] = @ + job.copy.alloc[b]]
                           ELSE remaining
           /\ job' = IF bad THEN Thrown
                     ELSE [job EXCEPT !.pc = "given", !.batch = b]
  /\ UNCHANGED <<moved, records, due, round, callers>>

\* ... then its movement is recorded.
Given ==
  /\ Running("given")
  /\ \E hit, bad \in BOOLEAN :
       /\ Tried(hit, bad)
       /\ moved' = IF hit
                   THEN [moved EXCEPT !["release"][job.of][job.batch] =
                           @ + job.copy.alloc[job.batch]]
                   ELSE moved
       /\ job' = IF bad THEN Thrown
                 ELSE [job EXCEPT !.pc = "give", !.todo = @ \ {job.batch}]
  /\ UNCHANGED <<remaining, records, due, round, callers>>

\* Mutant: nobody writes down that a late claim was released.
Freed_NotSaved ==
  /\ Running("give")
  /\ job.todo = {}
  /\ job' =
       CASE job.op = "reserve" -> Thrown
         [] job.op \in {"release", "abort"} ->
              [job EXCEPT !.pc = "answer", !.copy.state = "released"]
         [] job.op = "sweep" ->
              [job EXCEPT !.pc = "close", !.copy.state = "expired"]
  /\ UNCHANGED <<stock, records, due, round, callers, faults>>

\* All is given back.  A release leaves it to its caller to write that down.
Freed ==
  /\ Running("give")
  /\ job.todo = {}
  /\ job' =
       CASE job.op = "reserve" -> Thrown
         [] job.op = "release" ->
              [job EXCEPT !.pc = "answer", !.copy.state = "released"]
         [] job.op = "abort" ->
              [job EXCEPT !.pc = "save", !.copy.state = "expired"]
         [] job.op = "sweep" ->
              [job EXCEPT !.pc = "close", !.copy.state = "expired"]
  /\ UNCHANGED <<stock, records, due, round, callers, faults>>

\* Record the sale of one allocation.
Out ==
  /\ Running("out")
  /\ job.todo # {}
  /\ LET b == Min(job.todo)
     IN  \E hit, bad \in BOOLEAN :
           /\ Tried(hit, bad)
           /\ moved' = IF hit
                       THEN [moved EXCEPT !["out"][job.of][b] = @ + job.copy.alloc[b]]
                       ELSE moved
           /\ job' = IF bad THEN Thrown ELSE [job EXCEPT !.todo = @ \ {b}]
  /\ UNCHANGED <<remaining, records, due, round, callers>>

Sold ==
  /\ Running("out")
  /\ job.todo = {}
  /\ job' = [job EXCEPT !.pc = "save", !.copy.state = "committed"]
  /\ UNCHANGED <<stock, records, due, round, callers, faults>>

\* Write the reservation into the order's notes, whatever they say by now.
Save ==
  /\ Running("save")
  /\ \E hit, bad \in BOOLEAN :
       /\ Tried(hit, bad)
       /\ notes' = IF hit THEN [notes EXCEPT ![job.of] = job.copy] ELSE notes
       /\ job' = IF bad THEN Thrown ELSE [job EXCEPT !.pc = "answer"]
  /\ UNCHANGED <<stock, order, paid, intent, due, round, callers>>

-----------------------------------------------------------------------------
(* The answer to the caller.                                               *)

\* Where a caller goes on from an answer, and from a failed call.
OnAnswer == [reserve |-> "pay", release |-> "cancel", claim |-> "notify",
             commit |-> "confirm", abort |-> "done"]

OnFailure(c) == IF c \in Orders THEN "cancel" ELSE "done"

\* Mutant: the caller of a commit keeps the reservation it passed.
Answer_OldCopy ==
  /\ job # Idle
  /\ job.pc \in {"answer", "refuse"}
  /\ LET good == job.pc = "answer"
     IN  /\ at' = [at EXCEPT ![job.by] = IF good THEN OnAnswer[job.op]
                                         ELSE OnFailure(job.by)]
         /\ copy' = IF good /\ job.op # "commit"
                    THEN [copy EXCEPT ![job.by] = job.copy] ELSE copy
  /\ job' = Idle
  /\ UNCHANGED <<stock, records, due, round, faults>>

\* The job is answered; a caller that has been evicted does not hear it, and an
\* answer that is lost is a failure to its caller.
Answer ==
  /\ job # Idle
  /\ job.pc \in {"answer", "refuse"}
  /\ \E lost \in BOOLEAN :
       LET c == job.by
           heard == at[c] = job.op
           good == job.pc = "answer" /\ ~lost
       IN  /\ IF lost THEN Fault /\ heard ELSE UNCHANGED faults
           /\ at' = IF ~heard THEN at
                    ELSE [at EXCEPT ![c] = IF good THEN OnAnswer[job.op]
                                           ELSE OnFailure(c)]
           /\ copy' = IF heard /\ good THEN [copy EXCEPT ![c] = job.copy]
                      ELSE copy
  /\ job' = Idle
  /\ UNCHANGED <<stock, records, due, round>>

-----------------------------------------------------------------------------
(* The expiry sweep.                                                       *)

\* Mutants: the sweep looks at the time alone; it looks for confirmed orders.
Expirable_AnyState ==
  {o \in Orders : notes[o].state # "none" /\ o \in due /\ order[o] # "cancelled"}

Expirable_Confirmed ==
  {o \in Orders \ paid : /\ notes[o].state = "reserved"
                         /\ order[o] = "confirmed"
                         /\ o \in due}

\* The orders whose unpaid reservation the sweep ends, and those whose payment
\* intent has not been told of an earlier end.
Expirable ==
  {o \in Orders \ paid : /\ notes[o].state = "reserved"
                         /\ order[o] # "cancelled"
                         /\ o \in due}

\* Mutant: only the orders this sweep ends are told of.
Untold_Never == {}

Untold == {o \in Orders \ paid : notes[o].state = "expired" /\ ~notes[o].synced}

\* Every five minutes; all the orders are read at once.
Sweep ==
  /\ job = Idle
  /\ round = NoRound
  /\ Expirable \cup Untold # {}
  /\ round' = [free |-> Expirable, void |-> Untold, seen |-> notes]
  /\ UNCHANGED <<stock, records, due, job, callers, faults>>

SweepJob(o, r, pc, todo) ==
  [op |-> "sweep", by |-> Nobody, of |-> o, pc |-> pc, copy |-> r, todo |-> todo,
   left |-> 0, batch |-> 0, take |-> 0]

\* The reservation is given back as it was when the orders were read.
Expire(o) ==
  LET r == round.seen[o]
  IN  /\ job = Idle
      /\ o \in round.free
      /\ job' = SweepJob(o, r, "give", Unmoved("release", o, r))
      /\ round' = [round EXCEPT !.free = @ \ {o}]
      /\ UNCHANGED <<stock, records, due, callers, faults>>

\* The order is cancelled, and its notes rewritten from what was read.
Close ==
  /\ Running("close")
  /\ \E hit, bad \in BOOLEAN :
       /\ Tried(hit, bad)
       /\ IF hit
          THEN /\ order' = [order EXCEPT ![job.of] = "cancelled"]
               /\ notes' = [notes EXCEPT ![job.of] = job.copy]
          ELSE UNCHANGED <<order, notes>>
       /\ round' = IF bad THEN round ELSE [round EXCEPT !.void = @ \cup {job.of}]
  /\ job' = Idle
  /\ UNCHANGED <<stock, paid, intent, due, callers>>

\* Then, for each order that ended, payments-worker is told.  A paid intent is a
\* conflict left to a person.
Void(o) ==
  /\ job = Idle
  /\ round.free = {}
  /\ o \in round.void
  /\ round' = [round EXCEPT !.void = @ \ {o}]
  /\ \E hit, bad \in BOOLEAN :
       /\ Tried(hit, bad)
       /\ intent' = IF hit /\ intent[o] = "pending"
                    THEN [intent EXCEPT ![o] = "cancelled"] ELSE intent
       /\ job' = IF bad \/ intent[o] = "paid" THEN Idle
                 ELSE SweepJob(o, NoReservation, "sync", {})
  /\ UNCHANGED <<stock, notes, order, paid, due, callers>>

\* The expired reservation is marked as told.
Sync ==
  LET o == job.of
  IN  /\ Running("sync")
      /\ \E hit, bad \in BOOLEAN :
           /\ Tried(hit, bad)
           /\ notes' = IF hit /\ notes[o].state = "expired"
                       THEN [notes EXCEPT ![o].synced = TRUE] ELSE notes
      /\ job' = Idle
      /\ UNCHANGED <<stock, order, paid, intent, due, round, callers>>

SweepEnds ==
  /\ job = Idle
  /\ round # NoRound
  /\ round.free = {}
  /\ round.void = {}
  /\ round' = NoRound
  /\ UNCHANGED <<stock, records, due, job, callers, faults>>

-----------------------------------------------------------------------------
(* The checkout of an order (ShopCheckout has it step by step).            *)

Goto(c, place) == at' = [at EXCEPT ![c] = place]

\* The order is created, and its stock asked for.
Place(o) ==
  /\ at[o] = "idle"
  /\ order' = [order EXCEPT ![o] = "draft"]
  /\ Goto(o, "reserve")
  /\ UNCHANGED <<stock, notes, paid, intent, due, work, copy, faults>>

\* The payment intent, refused for an order that has ended.
Pay(o) ==
  /\ at[o] = "pay"
  /\ \/ /\ order[o] # "cancelled"
        /\ notes[o].state \notin {"released", "expired"}
        /\ intent' = [intent EXCEPT ![o] = "pending"]
        /\ \/ Goto(o, "jot") /\ UNCHANGED faults
           \/ Goto(o, "release") /\ Fault
     \/ /\ Goto(o, "release")
        /\ UNCHANGED <<intent, faults>>
  /\ UNCHANGED <<stock, notes, order, paid, due, work, copy>>

\* The payment reference is noted on the order, from the notes in memory.
Jot(o) ==
  /\ at[o] = "jot"
  /\ \E hit, bad \in BOOLEAN :
       /\ Tried(hit, bad)
       /\ notes' = IF hit THEN [notes EXCEPT ![o] = copy[o]] ELSE notes
  /\ Goto(o, "placed")
  /\ UNCHANGED <<stock, order, paid, intent, due, work, copy>>

\* A checkout that failed, or an admin, cancels the order; its notes are
\* rewritten from the copy in memory: nothing, when the reservation failed.
Cancel(c) ==
  /\ at[c] = "cancel"
  /\ \E hit, bad \in BOOLEAN :
       /\ Tried(hit, bad)
       /\ IF hit
          THEN /\ order' = [order EXCEPT ![OrderFor(c)] = "cancelled"]
               /\ notes' = [notes EXCEPT ![OrderFor(c)] = copy[c]]
          ELSE UNCHANGED <<order, notes>>
  /\ Goto(c, IF c \in Orders THEN "failed" ELSE "done")
  /\ UNCHANGED <<stock, paid, intent, due, work, copy>>

-----------------------------------------------------------------------------
(* The review of a payment proof, and a cancellation by an admin.          *)

\* A caller reads the notes and goes on with what it has read.
Keep(c, place) ==
  /\ copy' = [copy EXCEPT ![c] = notes[OrderFor(c)]]
  /\ Goto(c, place)

Ended(o) ==
  \/ order[o] = "cancelled"
  \/ notes[o].state \in {"released", "expired"}
  \/ notes[o].state = "reserved" /\ o \in due

\* Mutant: the order is read, and not claimed.
Preflight_NoClaim(v) ==
  LET o == Target[v]
  IN  /\ at[v] = "idle"
      /\ at[o] = "placed"
      /\ OverlapReviews \/ \A w \in Reviews : Target[w] = o => at[w] \in {"idle", "done"}
      /\ Keep(v, IF o \notin paid /\ Ended(o) THEN "done" ELSE "notify")
      /\ UNCHANGED <<stock, records, due, work, faults>>

\* A review starts once the customer has the payment link: an order that has
\* ended is refused, an unpaid one is claimed first.
Preflight(v) ==
  LET o == Target[v]
  IN  /\ at[v] = "idle"
      /\ at[o] = "placed"
      /\ OverlapReviews \/ \A w \in Reviews : Target[w] = o => at[w] \in {"idle", "done"}
      /\ Keep(v, CASE o \in paid -> "notify"
                   [] o \notin paid /\ Ended(o) -> "done"
                   [] OTHER -> IF notes[o].state \in {"none", "committed"}
                               THEN "notify" ELSE "claim")
      /\ UNCHANGED <<stock, records, due, work, faults>>

\* The payment is verified, or the review finds against it.
Notify(v) ==
  /\ at[v] = "notify"
  /\ \/ /\ intent' = [intent EXCEPT ![Target[v]] = "paid"]
        /\ \/ Goto(v, "settle") /\ UNCHANGED faults
           \/ Goto(v, "abandon") /\ Fault
     \/ /\ Goto(v, "abandon")
        /\ UNCHANGED <<intent, faults>>
  /\ UNCHANGED <<stock, notes, order, paid, due, work, copy>>

\* Mutant: a reservation under review is taken for committed.
Settle_NoCommit(v) ==
  LET now == notes[Target[v]].state
  IN  /\ at[v] = "settle"
      /\ Keep(v, CASE now = "reserved" -> "commit"
                   [] now \in {"none", "payment_review", "committed"} -> "confirm"
                   [] OTHER -> "done")
      /\ UNCHANGED <<stock, records, due, work, faults>>

\* After a verified payment the order is read again, and its stock committed.
Settle(v) ==
  LET now == notes[Target[v]].state
  IN  /\ at[v] = "settle"
      /\ Keep(v, CASE now \in {"reserved", "payment_review"} -> "commit"
                   [] now \in {"none", "committed"} -> "confirm"
                   [] OTHER -> "done")
      /\ UNCHANGED <<stock, records, due, work, faults>>

\* The order is marked paid, its notes rewritten from the committed copy.
Confirm(v) ==
  LET o == Target[v]
  IN  /\ at[v] = "confirm"
      /\ \E hit, bad \in BOOLEAN :
           /\ Tried(hit, bad)
           /\ IF hit
              THEN /\ order' = [order EXCEPT ![o] = "confirmed"]
                   /\ paid' = paid \cup {o}
                   /\ notes' = [notes EXCEPT ![o] = copy[v]]
              ELSE UNCHANGED <<order, paid, notes>>
      /\ Goto(v, "done")
      /\ UNCHANGED <<stock, intent, due, work, copy>>

\* After a review that did not verify, the claim found by then is aborted.
Abandon(v) ==
  /\ at[v] = "abandon"
  /\ Keep(v, IF notes[Target[v]].state = "payment_review" THEN "abort" ELSE "done")
  /\ UNCHANGED <<stock, records, due, work, faults>>

\* An admin cancels an order that is neither paid nor under review: its stock is
\* released first.
AdminCancel(a) ==
  LET o == Target[a]
  IN  /\ at[a] = "idle"
      /\ order[o] # "none"
      /\ Keep(a, CASE o \in paid \/ notes[o].state = "payment_review" -> "done"
                   [] o \notin paid /\ notes[o].state = "reserved" -> "release"
                   [] OTHER -> "cancel")
      /\ UNCHANGED <<stock, records, due, work, faults>>

-----------------------------------------------------------------------------
(* Time and evictions.                                                     *)

\* 45 minutes after the reservation; the checkout is long over by then.
Tick(o) ==
  /\ o \notin due
  /\ at[o] \in {"placed", "failed", "done"}
  /\ job # Idle => job.by # o
  /\ due' = due \cup {o}
  /\ UNCHANGED <<stock, records, work, callers, faults>>

\* A caller's worker is evicted.
Evict(c) ==
  /\ at[c] \notin {"idle", "placed", "failed", "done"}
  /\ Fault
  /\ Goto(c, "done")
  /\ UNCHANGED <<stock, records, due, work, copy>>

\* The coordinator is evicted: the job and its queue were only in memory.
CoordinatorEvicted ==
  /\ job # Idle \/ round # NoRound
  /\ Fault
  /\ job' = Idle
  /\ round' = NoRound
  /\ at' = [c \in Callers |-> IF at[c] \in Ops THEN OnFailure(c) ELSE at[c]]
  /\ UNCHANGED <<stock, records, due, copy>>

-----------------------------------------------------------------------------
Request ==
  \/ \E o \in Orders : Reserve(o)
  \/ \E c \in Orders \cup Admins : Release(c)
  \/ \E v \in Reviews : Claim(v) \/ Abort(v) \/ Commit(v)

JobStep ==
  \/ Take \/ Record \/ Undo \/ Shortage \/ Allocated \/ Note
  \/ Give \/ Given \/ Freed \/ Out \/ Sold \/ Save \/ Answer
  \/ Close \/ Sync \/ SweepEnds
  \/ \E o \in Orders : Expire(o) \/ Void(o)

CheckoutStep(o) == Pay(o) \/ Jot(o) \/ Cancel(o)
ReviewStep(v) == Notify(v) \/ Settle(v) \/ Confirm(v) \/ Abandon(v)

Next ==
  \/ Request \/ JobStep \/ Sweep
  \/ \E o \in Orders : Place(o) \/ CheckoutStep(o) \/ Tick(o)
  \/ \E v \in Reviews : Preflight(v) \/ ReviewStep(v)
  \/ \E a \in Admins : AdminCancel(a) \/ Cancel(a)
  \/ \E c \in Callers : Evict(c)
  \/ CoordinatorEvicted

\* A job goes on, the queue is served, the sweep is scheduled every five minutes
\* and a caller that has its answer goes on.
Fairness ==
  /\ WF_vars(JobStep)
  /\ WF_vars(Request)
  /\ WF_vars(Sweep)
  /\ \A o \in Orders : WF_vars(CheckoutStep(o))
  /\ \A v \in Reviews : WF_vars(ReviewStep(v))
  /\ \A a \in Admins : WF_vars(Cancel(a))

Spec == Init /\ [][Next]_vars /\ Fairness

-----------------------------------------------------------------------------
(* Properties.                                                             *)

Units(kind, o, b) == moved[kind][o][b]

\* What the stock-health inspection expects a batch to hold, from its movements
\* (buildMmdShopStockReconciliation).
Expected(b) ==
  Max({0, Initial[b] - SumFunction([o \in Orders |->
            Units("reserve", o, b) - Units("release", o, b)
            + Max({0, Units("out", o, b) - Units("reserve", o, b)})])})

\* Whenever no job is running, which is when the inspection looks, the units
\* left in each batch are those its movement records explain.
LedgerReconciles ==
  job = Idle => \A b \in Batches : remaining[b] = Expected(b)

\* The notes of the orders account for every unit: a unit that is not in its
\* batch is in the live reservation of exactly one order, however reservations
\* were passed around by value, rewritten and swept.
UnitsAccountedFor ==
  LET live(o) == /\ notes[o].state \in {"reserved", "payment_review", "committed"}
                 /\ at[o] # "cancel"
  IN  job = Idle =>
        \A b \in Batches :
          remaining[b] + SumFunction([o \in Orders |->
            IF live(o) THEN notes[o].alloc[b] ELSE 0]) = Initial[b]

\* A verified payment never ends up on an order whose stock was given back or
\* that was cancelled: from the verification on, its reservation is under review
\* or committed, whatever the sweep and the earlier reviews of the order do.  It is
\* about reviews that follow one another; with overlapping ones it fails.
MoneyKeepsOrder ==
  \A o \in Orders : intent[o] = "paid" =>
    /\ notes[o].state \in {"payment_review", "committed"}
    /\ order[o] # "cancelled"

\* The units of an order marked paid have left the stock for it, exactly.
PaidOrderHasUnits ==
  \A o \in paid :
    /\ SumFunction(moved["out"][o]) = Need[o]
    /\ \A b \in Batches : moved["release"][o][b] = 0

\* While a payment is reviewed, and no job is ending the review, the units of its
\* order stay held: nobody releases a reservation that was claimed.
ReviewHoldsStock ==
  job = Idle =>
    \A o \in Orders : notes[o].state = "payment_review" =>
      \A b \in Batches : notes[o].alloc[b] > 0 => moved["release"][o][b] = 0

\* Every reservation, in the notes of an order or in the hands of a caller, is
\* backed by reserve movements for all the units it says it holds, whatever
\* failed: a commit or a release never moves units that were not reserved.
AllocationsBacked ==
  LET backed(o, r) == \A b \in Batches : r.alloc[b] <= moved["reserve"][o][b]
  IN  /\ \A o \in Orders : backed(o, notes[o])
      /\ \A c \in Callers : backed(OrderFor(c), copy[c])

\* However often an operation is repeated after a failure, the movements say at
\* most once that the units of an order were given back, or sold.
MovedOnce ==
  \A o \in Orders, b \in Batches, kind \in {"release", "out"} :
    moved[kind][o][b] \in {0, moved["reserve"][o][b]}

\* An order, once its reservation is committed, does not lose it again.
CommittedIsFinal ==
  [][\A o \in Orders :
       notes[o].state = "committed" => notes'[o].state = "committed"]_vars

\* An unpaid reservation whose time is up does not stay reserved.
HoldsEnd ==
  \A o \in Orders :
    notes[o].state = "reserved" /\ o \in due ~> notes[o].state # "reserved"

\* After a reservation expired, its payment intent does not stay open, and the
\* order says so.
IntentFollows ==
  \A o \in Orders :
    notes[o].state = "expired" ~> notes[o].synced /\ intent[o] # "pending"

Ledger == INSTANCE ShopStockLedger WITH
  held <- moved["reserve"], sold <- moved["out"], freed <- moved["release"]

\* The movements the coordinator writes implement the promise of the ledger.
KeepsLedger == Ledger!Spec
=============================================================================

------------------------ MODULE ShopStockUnitsProofs ------------------------
(***************************************************************************)
(* More proofs about ShopStock: where the units are.  They build on the    *)
(* invariant of ShopStockProofs, in layers, each under the weakest         *)
(* conditions it needs:                                                    *)
(*                                                                         *)
(*   MovesInv    whatever fails and whoever interferes: all the copies of  *)
(*               a reservation that hold a batch hold the units its order  *)
(*               reserved, and a movement is made once;                    *)
(*   UnreviewedInv  whatever fails and whoever interferes: an order that   *)
(*               nobody reviews is not paid, and none of its copies sold;  *)
(*   ShelfInv    when no write fails: a batch has what its movements say;  *)
(*   HoldInv     when besides no admin cancels a reviewed order: nobody    *)
(*               gives back the units of a payment under review;           *)
(*   CalmInv     when besides the reviews of an order come one after the   *)
(*               other: the notes of an order that no admin cancels, its   *)
(*               payment, its movements and where its checkout and its     *)
(*               reviews are agree with each other.                        *)
(***************************************************************************)
EXTENDS ShopStockProofs, SumTheorems

-----------------------------------------------------------------------------
(* What holds whatever fails.                                              *)

\* The units a reservation says it has of a batch are all its order reserved.
ExactFor(o, r) == \A b \in Batches : r.alloc[b] \in {0, Units("reserve", o, b)}

CopiesExact ==
  /\ \A o \in Orders : ExactFor(o, notes[o]) /\ ExactFor(o, round.seen[o])
  /\ \A c \in Callers : ExactFor(OrderFor(c), copy[c])
  /\ job # Idle => ExactFor(job.of, job.copy)

\* The checkout of an order reserves once, and nothing moves before it does.
Asking(o) ==
  /\ at[o] \in {"idle", "reserve"}
  /\ ~(job # Idle /\ job.op = "reserve" /\ job.by = o)

NothingYet ==
  \A o \in Orders : Asking(o) =>
    \A kind \in {"reserve", "release", "out"}, b \in Batches : Units(kind, o, b) = 0

\* A job that reserves leaves behind only batches it has emptied; what a job has
\* still to give back, or to sell, has not been moved, and the rest has.
JobInStep ==
  job # Idle =>
    /\ job.op = "reserve" => job.by \in Orders /\ at[job.by] # "idle"
    /\ job.pc \in {"close", "sync"} => job.op = "sweep"
    /\ job.pc = "take" /\ job.left > 0 =>
         \A b \in Batches : Units("reserve", job.of, b) > 0 => remaining[b] = 0
    /\ job.pc = "record" =>
         /\ Units("reserve", job.of, job.batch) = 0
         /\ job.take > 0
         /\ job.left > job.take =>
              \A b \in Batches : b = job.batch \/ Units("reserve", job.of, b) > 0
                                   => remaining[b] = 0
    /\ job.pc \in {"give", "given"} =>
         \A b \in Batches :
           IF b \in job.todo THEN Units("release", job.of, b) = 0
           ELSE \/ job.copy.alloc[b] = 0
                \/ Units("release", job.of, b) = Units("reserve", job.of, b)
    /\ job.pc = "given" => job.batch \in job.todo
    /\ job.pc = "out" =>
         \A b \in Batches :
           IF b \in job.todo THEN Units("out", job.of, b) = 0
           ELSE \/ job.copy.alloc[b] = 0
                \/ Units("out", job.of, b) = Units("reserve", job.of, b)

MovesInv == CopiesExact /\ NothingYet /\ JobInStep /\ MovedOnce

-----------------------------------------------------------------------------
(* What holds when no write fails.                                         *)

\* The units of b that the movements say are off the shelf.
Gone(b) ==
  SumFunction([o \in Orders |-> Units("reserve", o, b) - Units("release", o, b)])

\* The units of b between the batch and its movement.
InHand(b) ==
  CASE job # Idle /\ job.pc = "record" /\ job.batch = b -> job.take
    [] job # Idle /\ job.pc = "given" /\ job.batch = b -> 0 - job.copy.alloc[b]
    [] OTHER -> 0

ShelfInv ==
  /\ job # Idle => job.pc # "undo"
  /\ \A b \in Batches : remaining[b] + Gone(b) + InHand(b) = Initial[b]

-----------------------------------------------------------------------------
(* What holds when nothing fails, admins cancel only orders that nobody    *)
(* reviews, and the reviews of an order do not overlap.                    *)

Calm ==
  /\ MaxFaults = 0 /\ ~OverlapReviews
  /\ \A a \in Admins, v \in Reviews : Target[a] # Target[v]

\* The orders that no admin cancels; all the others are of the admins.
Quiet == {o \in Orders : \A a \in Admins : Target[a] # o}

Live == {"reserved", "payment_review", "committed"}
Active(v) == at[v] \notin {"idle", "done"}
Busy(c) == job # Idle /\ job.by = c
About(o) == job # Idle /\ job.of = o

\* The job that is moving the units of o, or is about to say it has.
Moving(o) ==
  /\ About(o)
  /\ \/ job.op \in {"reserve", "release"}
     \/ job.pc \in {"give", "given", "close", "out"}
     \/ job.pc = "save" /\ job.op # "claim"

Kept(o) == \A b \in Batches : Units("release", o, b) = 0
Back(o) == \A b \in Batches : Units("release", o, b) = Units("reserve", o, b)
Unsold(o) == \A b \in Batches : Units("out", o, b) = 0
AllSold(o) == \A b \in Batches : Units("out", o, b) = Units("reserve", o, b)
Complete(o) == SumFunction(moved["reserve"][o]) = Need[o]
Whole(o, r) == \A b \in Batches : r.alloc[b] = Units("reserve", o, b)

PlacesOK ==
  /\ \A o \in Orders :
       at[o] \in {"idle", "reserve", "pay", "jot", "placed", "release",
                  "cancel", "failed"}
  /\ \A v \in Reviews :
       /\ at[v] \in {"idle", "claim", "notify", "settle", "commit", "confirm",
                     "abandon", "abort", "done"}
       /\ at[v] # "idle" => at[Target[v]] = "placed"
  /\ \A o \in due : at[o] \in {"placed", "failed"}
  /\ \A v, w \in Reviews :
       Target[v] = Target[w] /\ Active(v) /\ Active(w) => v = w

\* The notes of an order, and where its checkout is.
NotesFollow(o) ==
  /\ at[o] \in {"idle", "reserve"} => copy[o].state = "none"
  /\ at[o] \in {"idle", "reserve"} /\ ~(Busy(o) /\ job.pc = "answer") =>
       notes[o] = NoReservation
  /\ at[o] \in {"pay", "jot", "release"} =>
       notes[o].state = "reserved" /\ copy[o] = notes[o]
  /\ at[o] = "placed" => notes[o].state \in Live \cup {"expired"}
  /\ at[o] = "cancel" => /\ copy[o].state \in {"none", "released"}
                          /\ notes[o].state \in {"none", "reserved"}
  /\ at[o] = "failed" => notes[o].state \in {"none", "released"}

\* The movements of an order, and its notes.
UnitsFollow(o) ==
  /\ at[o] \in {"pay", "jot", "release", "placed"} => Complete(o)
  /\ ~Moving(o) =>
       /\ at[o] \in {"pay", "jot", "release", "placed"} /\ notes[o].state \in Live =>
            Whole(o, notes[o]) /\ Kept(o)
       /\ at[o] \in {"cancel", "failed"} \/ notes[o].state = "expired" => Back(o)
       /\ IF notes[o].state = "committed" THEN AllSold(o) ELSE Unsold(o)

\* The payment of an order, its status and its reviews.
PaymentFollows(o) ==
  /\ notes[o].state = "payment_review" =>
       \E v \in Reviews : Target[v] = o /\ Active(v) /\ at[v] # "confirm"
  /\ notes[o].state = "committed" =>
       o \in paid \/ \E v \in Reviews : Target[v] = o /\ at[v] \in {"commit", "confirm"}
  /\ o \in paid => notes[o].state = "committed"
  /\ intent[o] = "paid" =>
       \/ notes[o].state = "committed"
       \/ /\ notes[o].state = "payment_review"
          /\ \E v \in Reviews : Target[v] = o /\ at[v] \in {"settle", "commit"}
  /\ at[o] \in {"jot", "placed"} /\ notes[o].state \in Live => order[o] # "cancelled"
  /\ notes[o].state = "expired" => o \in due

\* What the sweep has read of the orders it is to end is still so.
SweepFollows(o) ==
  o \in round.free =>
    /\ at[o] = "placed" /\ o \in due
    /\ notes[o].state = "reserved" /\ round.seen[o] = notes[o]
    /\ ~About(o)

Reviewed(v) ==
  LET o == Target[v]
  IN  notes[o].state = "payment_review" /\ notes[o].key = KeyOf[v]

\* Where a review is, and its order.
ReviewFollows(v) ==
  LET o == Target[v]
  IN  /\ at[v] = "claim" /\ ~Busy(v) =>
           /\ copy[v].state = "reserved" /\ o \notin paid
           /\ notes[o] = copy[v] \/ (o \in due /\ notes[o].state = "expired")
      /\ at[v] \in {"notify", "abandon"} =>
           o \in paid \/ (Reviewed(v) /\ intent[o] # "paid")
      /\ at[v] = "settle" => intent[o] = "paid" /\ (o \in paid \/ Reviewed(v))
      /\ at[v] = "commit" => intent[o] = "paid" /\ o \notin paid
      /\ at[v] = "commit" /\ ~Busy(v) => Reviewed(v) /\ copy[v] = notes[o]
      /\ at[v] = "confirm" =>
           notes[o].state = "committed" /\ copy[v] = notes[o] /\ intent[o] = "paid"
      /\ at[v] = "abort" => intent[o] # "paid" /\ o \notin paid
      /\ at[v] = "abort" /\ ~Busy(v) => Reviewed(v) /\ copy[v] = notes[o]

\* The caller of a job waits for it; the sweep goes on with its own list.
CallerWaits ==
  /\ IF job.op = "sweep" THEN job.by = Nobody
     ELSE at[job.by] = job.op /\ round = NoRound
  /\ job.op = "reserve" => job.by \in Orders
  /\ job.op = "release" => job.by \in Orders \cup Admins
  /\ job.op \in {"claim", "commit", "abort"} => job.by \in Reviews

\* What the job is doing with a reservation r of o, for v.
Reserving(o, r) ==
  /\ Unsold(o) /\ Whole(o, r)
  /\ job.pc \in {"take", "record", "note", "answer", "give", "given", "refuse"}
  /\ job.pc \in {"take", "record", "note", "answer"} => Kept(o) /\ r.state = "reserved"
  /\ job.pc \in {"take", "record"} =>
       SumFunction(moved["reserve"][o]) + job.left = Need[o]
  /\ job.pc \in {"note", "answer"} => Complete(o)
  /\ job.pc = "answer" => notes[o] = r
  /\ job.pc = "refuse" => Back(o)

Releasing(o, r) ==
  /\ Unsold(o) /\ Whole(o, r)
  /\ job.pc \in {"give", "given", "answer"}
  /\ job.pc = "answer" => Back(o) /\ r.state = "released"

Claiming(o, r, v) ==
  /\ job.pc \in {"save", "answer", "refuse"}
  /\ job.pc = "save" =>
       /\ notes[o].state = "reserved" /\ o \notin paid
       /\ r = [notes[o] EXCEPT !.state = "payment_review", !.key = KeyOf[v]]
  /\ job.pc = "answer" => Reviewed(v) /\ intent[o] # "paid" /\ r = notes[o]
  /\ job.pc = "refuse" => notes[o].state \in {"reserved", "expired"}

Aborting(o, r, v) ==
  /\ job.pc \in {"give", "given", "save", "answer"}
  /\ job.pc # "answer" => Reviewed(v) /\ Unsold(o) /\ Whole(o, r)
  /\ job.pc \in {"give", "given"} => o \in due
  /\ job.pc = "save" =>
       \/ r.state = "reserved" /\ Kept(o)
       \/ r.state = "expired" /\ Back(o) /\ o \in due
  /\ job.pc = "answer" => notes[o].state \in {"reserved", "expired"}

Committing(o, r, v) ==
  /\ job.pc \in {"out", "save", "answer"}
  /\ job.pc # "answer" => Reviewed(v) /\ Kept(o) /\ Whole(o, r)
  /\ job.pc = "save" => r.state = "committed" /\ AllSold(o)
  /\ job.pc = "answer" => notes[o].state = "committed" /\ r = notes[o]

Sweeping(o, r) ==
  /\ job.pc \in {"give", "given", "close", "sync"}
  /\ job.pc # "sync" =>
       /\ at[o] = "placed" /\ o \in due /\ notes[o].state = "reserved"
       /\ Unsold(o) /\ Whole(o, r)
  /\ job.pc = "close" => r.state = "expired" /\ Back(o)

JobDoes ==
  /\ job.op = "reserve" => Reserving(job.of, job.copy)
  /\ job.op = "release" => Releasing(job.of, job.copy)
  /\ job.op = "claim" => Claiming(job.of, job.copy, job.by)
  /\ job.op = "abort" => Aborting(job.of, job.copy, job.by)
  /\ job.op = "commit" => Committing(job.of, job.copy, job.by)
  /\ job.op = "sweep" => Sweeping(job.of, job.copy)

JobFollows ==
  job # Idle => CallerWaits /\ (job.of \in Quiet => JobDoes)

OrderFollows(o) ==
  NotesFollow(o) /\ UnitsFollow(o) /\ PaymentFollows(o) /\ SweepFollows(o)

CalmInv ==
  /\ PlacesOK
  /\ JobFollows
  /\ \A o \in Quiet : OrderFollows(o)
  /\ \A v \in Reviews : ReviewFollows(v)

-----------------------------------------------------------------------------
(* What holds of an order that nobody reviews, whatever fails.             *)

Reviewable == {Target[v] : v \in Reviews}

Uncommitted(r) == r.state # "committed"

\* Neither its payment nor its reservation is ever settled, wherever a copy of the
\* reservation is.
Unsettled(o) ==
  /\ o \notin paid /\ intent[o] # "paid" /\ Unsold(o)
  /\ Uncommitted(notes[o]) /\ Uncommitted(round.seen[o])
  /\ \A c \in Callers : OrderFor(c) = o => Uncommitted(copy[c])
  /\ About(o) => job.op # "commit" /\ Uncommitted(job.copy)

UnreviewedInv ==
  /\ \A o \in Orders \ Reviewable : Unsettled(o)
  /\ job # Idle /\ job.pc = "out" => job.op = "commit"

-----------------------------------------------------------------------------
(* Facts used throughout.                                                  *)

Kinds == {"reserve", "release", "out"}

LEMMA UnitsType ==
  ASSUME IInv
  PROVE  /\ moved \in [Kinds -> [Orders -> [Batches -> Nat]]]
         /\ \A kind \in Kinds, o \in Orders, b \in Batches :
              Units(kind, o, b) \in Nat
BY DEF IInv, TypeOK, Units, Kinds

LEMMA JobTypes ==
  ASSUME IInv, job # Idle
  PROVE  /\ job \in Jobs /\ JobOK(moved["reserve"], job)
         /\ job.of \in Orders /\ job.copy \in ReservationType
         /\ job.copy.alloc \in [Batches -> Nat]
         /\ job.todo \in SUBSET Batches
         /\ job.left \in Nat /\ job.take \in Nat
BY DEF IInv, WorkOK, JobOK, Jobs, ReservationType

LEMMA CallerKinds ==
  /\ Orders \subseteq Callers /\ Reviews \subseteq Callers /\ Admins \subseteq Callers
  /\ \A o \in Orders : OrderFor(o) = o
  /\ \A v \in Reviews : OrderFor(v) = Target[v] /\ Target[v] \in Orders /\ v \notin Orders
  /\ Quiet \subseteq Orders
BY CallersAssumption DEF Callers, OrderFor, CallersAssumption, Quiet

LEMMA IdleIsNoJob == Idle \notin Jobs
BY DEF Idle, Jobs

LEMMA EmptyExact ==
  ASSUME NEW o
  PROVE  ExactFor(o, NoReservation)
BY DEF ExactFor, NoReservation, NoUnits

\* A step that moves nothing, and whose new copies are copies there were.
LEMMA MovesFrame ==
  ASSUME MovesInv, moved' = moved,
         \A o \in Orders : ExactFor(o, notes'[o]) /\ ExactFor(o, round'.seen[o]),
         \A c \in Callers : ExactFor(OrderFor(c), copy'[c]),
         job' = Idle \/ ExactFor(job'.of, job'.copy),
         \A o \in Orders : Asking(o)' => Asking(o),
         JobInStep'
  PROVE  MovesInv'
<1>1. CopiesExact'
  BY DEF CopiesExact, ExactFor, Units
<1>2. NothingYet'
  BY DEF MovesInv, NothingYet, Units
<1>3. MovedOnce'
  BY DEF MovesInv, MovedOnce
<1> QED BY <1>1, <1>2, <1>3 DEF MovesInv

\* A step of a caller: the job and what has moved stay as they are.
LEMMA MovesCaller ==
  ASSUME MovesInv, UNCHANGED <<stock, work>>,
         \A o \in Orders : ExactFor(o, notes'[o]),
         \A c \in Callers : ExactFor(OrderFor(c), copy'[c]),
         \A o \in Orders : at'[o] \in {"idle", "reserve"} =>
                             at'[o] = at[o] \/ at[o] = "idle"
  PROVE  MovesInv'
<1>1. JobInStep'
  BY DEF MovesInv, JobInStep, Units, stock, work
<1>2. \A o \in Orders : Asking(o)' => Asking(o)
  BY DEF Asking, work
<1>3. /\ \A o \in Orders : ExactFor(o, round'.seen[o])
      /\ job' = Idle \/ ExactFor(job'.of, job'.copy)
  BY DEF MovesInv, CopiesExact, work
<1> QED BY <1>1, <1>2, <1>3, MovesFrame DEF stock, work

\* A step that changes only what the job does next, and perhaps the notes.
LEMMA MovesJob ==
  ASSUME MovesInv, UNCHANGED <<moved, at, copy>>, round'.seen = round.seen,
         \A o \in Orders : ExactFor(o, notes'[o]),
         job' = Idle \/ ExactFor(job'.of, job'.copy),
         \A o \in Orders :
            job # Idle /\ job.op = "reserve" /\ job.by = o =>
               job' # Idle /\ job'.op = "reserve" /\ job'.by = o,
         JobInStep'
  PROVE  MovesInv'
<1>1. \A o \in Orders : Asking(o)' => Asking(o)
  BY DEF Asking
<1>2. \A o \in Orders : ExactFor(o, round'.seen[o])
  BY DEF MovesInv, CopiesExact
<1>3. \A c \in Callers : ExactFor(OrderFor(c), copy'[c])
  BY DEF MovesInv, CopiesExact
<1> QED BY <1>1, <1>2, <1>3, MovesFrame

LEMMA CopiesAreExact ==
  ASSUME MovesInv
  PROVE  /\ \A o \in Orders : ExactFor(o, notes[o]) /\ ExactFor(o, round.seen[o])
         /\ \A c \in Callers : ExactFor(OrderFor(c), copy[c])
         /\ job # Idle => ExactFor(job.of, job.copy)
BY DEF MovesInv, CopiesExact

-----------------------------------------------------------------------------
(* The steps of the callers move nothing.                                  *)

LEMMA MovesKeep ==
  ASSUME IInv, MovesInv, NEW c \in Callers, NEW place, place \notin {"idle", "reserve"},
         Keep(c, place), UNCHANGED <<stock, records, due, work, faults>>
  PROVE  MovesInv'
<1>1. copy' = [copy EXCEPT ![c] = notes[OrderFor(c)]] /\ at' = [at EXCEPT ![c] = place]
  BY DEF Keep, Goto
<1>2. at \in [Callers -> PlaceType] /\ copy \in [Callers -> ReservationType]
  BY DEF IInv, TypeOK
<1>3. \A d \in Callers : ExactFor(OrderFor(d), copy'[d])
  BY <1>1, <1>2, CopiesAreExact, OrderOfCaller
<1>4. \A o \in Orders : at'[o] \in {"idle", "reserve"} => at'[o] = at[o]
  BY <1>1, <1>2, CallerKinds
<1>5. \A o \in Orders : ExactFor(o, notes'[o])
  BY CopiesAreExact DEF records
<1> QED BY <1>3, <1>4, <1>5, MovesCaller

\* A caller writes its copy over the notes of its order.
LEMMA MovesWrite ==
  ASSUME IInv, MovesInv, NEW c \in Callers,
         notes' = notes \/ notes' = [notes EXCEPT ![OrderFor(c)] = copy[c]],
         NEW place, place \notin {"idle", "reserve"}, Goto(c, place),
         UNCHANGED <<stock, work, copy>>
  PROVE  MovesInv'
<1>1. at \in [Callers -> PlaceType] /\ notes \in [Orders -> ReservationType]
  BY DEF IInv, TypeOK
<1>2. \A o \in Orders : ExactFor(o, notes'[o])
  BY <1>1, CopiesAreExact, OrderOfCaller
<1>3. \A o \in Orders : at'[o] \in {"idle", "reserve"} => at'[o] = at[o]
  BY <1>1, CallerKinds DEF Goto
<1>4. \A d \in Callers : ExactFor(OrderFor(d), copy'[d])
  BY CopiesAreExact
<1> QED BY <1>2, <1>3, <1>4, MovesCaller

\* A caller only goes on.
LEMMA MovesGo ==
  ASSUME IInv, MovesInv, NEW c \in Callers, NEW place,
         place \notin {"idle", "reserve"}, Goto(c, place),
         UNCHANGED <<stock, notes, work, copy>>
  PROVE  MovesInv'
BY MovesWrite

LEMMA MovesCallers ==
  ASSUME IInv, MovesInv,
         \/ \E o \in Orders : Place(o) \/ CheckoutStep(o) \/ Tick(o)
         \/ \E v \in Reviews : Preflight(v) \/ ReviewStep(v)
         \/ \E a \in Admins : AdminCancel(a) \/ Cancel(a)
         \/ \E c \in Callers : Evict(c)
  PROVE  MovesInv'
<1>1. ASSUME NEW o \in Orders, Place(o) PROVE MovesInv'
  <2>1. at \in [Callers -> PlaceType] /\ o \in Callers
    BY CallerKinds DEF IInv, TypeOK
  <2>2. \A p \in Orders : at'[p] \in {"idle", "reserve"} => at'[p] = at[p] \/ at[p] = "idle"
    BY <1>1, <2>1, CallerKinds DEF Place, Goto
  <2> QED BY <1>1, <2>2, CopiesAreExact, MovesCaller DEF Place
<1>2. ASSUME NEW o \in Orders, Pay(o) PROVE MovesInv'
  <2>1. PICK place \in {"jot", "release"} : Goto(o, place)
    BY <1>2 DEF Pay
  <2> QED BY <1>2, <2>1, CallerKinds, MovesGo DEF Pay
<1>3. ASSUME NEW o \in Orders, Jot(o) PROVE MovesInv'
  BY <1>3, CallerKinds, MovesWrite DEF Jot
<1>4. ASSUME NEW c \in Callers, Cancel(c) PROVE MovesInv'
  <2>1. PICK place \in {"failed", "done"} : Goto(c, place)
    BY <1>4 DEF Cancel
  <2> QED BY <1>4, <2>1, MovesWrite DEF Cancel
<1>5. ASSUME NEW o \in Orders, Tick(o) PROVE MovesInv'
  BY <1>5, CopiesAreExact, MovesCaller DEF Tick, records, callers
<1>6. ASSUME NEW v \in Reviews, Preflight(v) \/ Settle(v) \/ Abandon(v) PROVE MovesInv'
  <2>1. PICK place \in {"done", "notify", "claim", "commit", "confirm", "abort"} : Keep(v, place)
    BY <1>6 DEF Preflight, Settle, Abandon
  <2>2. UNCHANGED <<stock, records, due, work, faults>>
    BY <1>6 DEF Preflight, Settle, Abandon
  <2> QED BY <2>1, <2>2, CallerKinds, MovesKeep
<1>7. ASSUME NEW v \in Reviews, Notify(v) PROVE MovesInv'
  <2>1. PICK place \in {"settle", "abandon"} : Goto(v, place)
    BY <1>7 DEF Notify
  <2> QED BY <1>7, <2>1, CallerKinds, MovesGo DEF Notify
<1>8. ASSUME NEW v \in Reviews, Confirm(v) PROVE MovesInv'
  <2>1. notes' = notes \/ notes' = [notes EXCEPT ![OrderFor(v)] = copy[v]]
    BY <1>8, CallerKinds DEF Confirm
  <2> QED BY <1>8, <2>1, CallerKinds, MovesWrite DEF Confirm
<1>9. ASSUME NEW a \in Admins, AdminCancel(a) PROVE MovesInv'
  <2>1. PICK place \in {"done", "release", "cancel"} : Keep(a, place)
    BY <1>9 DEF AdminCancel
  <2> QED BY <1>9, <2>1, CallerKinds, MovesKeep DEF AdminCancel
<1>10. ASSUME NEW c \in Callers, Evict(c) PROVE MovesInv'
  BY <1>10, MovesGo DEF Evict, records
<1> QED BY <1>1, <1>2, <1>3, <1>4, <1>5, <1>6, <1>7, <1>8, <1>9, <1>10, CallerKinds
        DEF CheckoutStep, ReviewStep

-----------------------------------------------------------------------------
(* The requests, when they are taken up.                                   *)

\* What is still to be moved of a copy that is exact.
LEMMA UnmovedExact ==
  ASSUME IInv, MovesInv, NEW kind \in {"release", "out"}, NEW o \in Orders,
         NEW r \in ReservationType, ExactFor(o, r), NEW b \in Batches
  PROVE  IF b \in Unmoved(kind, o, r) THEN Units(kind, o, b) = 0
         ELSE r.alloc[b] = 0 \/ Units(kind, o, b) = Units("reserve", o, b)
<1>1. Units(kind, o, b) \in {0, Units("reserve", o, b)}
  BY DEF MovesInv, MovedOnce, Units
<1>2. r.alloc[b] \in Nat
  BY DEF ReservationType
<1> QED BY <1>1, <1>2 DEF Unmoved, Units

LEMMA MovesReserve ==
  ASSUME IInv, MovesInv, NEW c \in Orders, Reserve(c)
  PROVE  MovesInv'
<1> DEFINE r == [NoReservation EXCEPT !.state = "reserved"]
           j == [JobFor("reserve", c, r, "take", {}) EXCEPT !.left = Need[c]]
<1>1. job' = j /\ job = Idle /\ at[c] = "reserve" /\ OrderFor(c) = c
  BY CallerKinds DEF Reserve, Takes
<1>2. /\ j.op = "reserve" /\ j.by = c /\ j.of = c /\ j.pc = "take" /\ j.copy = r
      /\ j # Idle
  BY <1>1 DEF JobFor, Idle
<1>3. ExactFor(c, r)
  BY DEF ExactFor, NoReservation, NoUnits
<1>4. \A b \in Batches : Units("reserve", c, b) = 0
  BY <1>1 DEF MovesInv, NothingYet, Asking
<1>5. UNCHANGED stock /\ UNCHANGED <<at, copy, notes, round>>
  BY DEF Reserve, Takes, records, callers
<1> HIDE DEF j, r
<1>6. JobInStep'
  BY <1>1, <1>2, <1>4, <1>5 DEF JobInStep, Units, stock
<1> QED BY <1>1, <1>2, <1>3, <1>5, <1>6, CopiesAreExact, MovesJob DEF stock

\* The other requests begin a job with a copy of their caller.
LEMMA MovesRequested ==
  ASSUME IInv, MovesInv, job = Idle, UNCHANGED <<stock, records, due, round, callers>>,
         NEW op \in Ops \ {"reserve"}, NEW c \in Callers,
         NEW r \in ReservationType, r.alloc = copy[c].alloc,
         \/ \E pc \in {"answer", "refuse", "save"} : job' = JobFor(op, c, r, pc, {})
         \/ job' = JobFor(op, c, r, "give", Unmoved("release", OrderFor(c), copy[c]))
         \/ job' = JobFor(op, c, r, "out", Unmoved("out", OrderFor(c), copy[c]))
  PROVE  MovesInv'
<1> DEFINE o == OrderFor(c)
<1>1. ExactFor(o, copy[c]) /\ copy[c] \in ReservationType /\ o \in Orders
  BY CopiesAreExact, OrderOfCaller DEF IInv, TypeOK
<1>2. /\ job'.op = op /\ job'.by = c /\ job'.of = o /\ job'.copy = r /\ job' # Idle
      /\ \/ job'.pc \in {"answer", "refuse", "save"}
         \/ job'.pc = "give" /\ job'.todo = Unmoved("release", o, copy[c])
         \/ job'.pc = "out" /\ job'.todo = Unmoved("out", o, copy[c])
  BY DEF JobFor, Idle
<1>3. ExactFor(o, r)
  BY <1>1 DEF ExactFor
<1>4. \A kind \in {"release", "out"}, b \in Batches :
        IF b \in Unmoved(kind, o, copy[c]) THEN Units(kind, o, b) = 0
        ELSE copy[c].alloc[b] = 0 \/ Units(kind, o, b) = Units("reserve", o, b)
  BY <1>1, UnmovedExact
<1> HIDE DEF o
<1>5. JobInStep'
  BY <1>2, <1>4 DEF JobInStep, Units, stock
<1> QED BY <1>2, <1>3, <1>5, CopiesAreExact, MovesJob DEF stock, records, callers

LEMMA MovesRequests ==
  ASSUME IInv, MovesInv, Request
  PROVE  MovesInv'
<1>1. ASSUME NEW c \in Callers, Release(c) PROVE MovesInv'
  <2>1. copy[c] \in ReservationType
    BY DEF IInv, TypeOK
  <2>2. \/ \E pc \in {"answer", "refuse", "save"} :
             job' = JobFor("release", c, copy[c], pc, {})
        \/ job' = JobFor("release", c, copy[c], "give",
                         Unmoved("release", OrderFor(c), copy[c]))
    BY <1>1 DEF Release
  <2>3. job = Idle /\ UNCHANGED <<stock, records, due, round, callers>>
    BY <1>1 DEF Release, Takes
  <2> QED BY <2>1, <2>2, <2>3, MovesRequested DEF Ops
<1>2. ASSUME NEW c \in Reviews, Claim(c) PROVE MovesInv'
  <2> DEFINE claimed == [copy[c] EXCEPT !.state = "payment_review", !.key = KeyOf[c]]
  <2>0. c \in Callers
    BY CallerKinds
  <2>1. /\ copy[c] \in ReservationType
        /\ claimed \in ReservationType /\ claimed.alloc = copy[c].alloc
    <3>1. copy[c] \in ReservationType
      BY <2>0 DEF IInv, TypeOK
    <3> QED BY <3>1 DEF ReservationType
  <2>2. \/ \E pc \in {"answer", "refuse", "save"} :
             job' = JobFor("claim", c, copy[c], pc, {})
        \/ \E pc \in {"answer", "refuse", "save"} :
             job' = JobFor("claim", c, claimed, pc, {})
    BY <1>2 DEF Claim
  <2>3. job = Idle /\ UNCHANGED <<stock, records, due, round, callers>>
    BY <1>2 DEF Claim, Takes
  <2> HIDE DEF claimed
  <2> QED BY <2>0, <2>1, <2>2, <2>3, MovesRequested DEF Ops
<1>3. ASSUME NEW c \in Reviews, Abort(c) PROVE MovesInv'
  <2> DEFINE open == [copy[c] EXCEPT !.state = "reserved", !.key = NoKey]
             lapsed == [copy[c] EXCEPT !.state = "reserved"]
  <2>0. c \in Callers
    BY CallerKinds
  <2>1. /\ copy[c] \in ReservationType
        /\ open \in ReservationType /\ open.alloc = copy[c].alloc
        /\ lapsed \in ReservationType /\ lapsed.alloc = copy[c].alloc
    <3>1. copy[c] \in ReservationType
      BY <2>0 DEF IInv, TypeOK
    <3> QED BY <3>1 DEF ReservationType
  <2>2. \/ \E pc \in {"answer", "refuse", "save"} :
             job' = JobFor("abort", c, copy[c], pc, {})
        \/ \E pc \in {"answer", "refuse", "save"} :
             job' = JobFor("abort", c, open, pc, {})
        \/ job' = JobFor("abort", c, lapsed, "give",
                         Unmoved("release", OrderFor(c), copy[c]))
    BY <1>3 DEF Abort
  <2>3. job = Idle /\ UNCHANGED <<stock, records, due, round, callers>>
    BY <1>3 DEF Abort, Takes
  <2> HIDE DEF open, lapsed
  <2> QED BY <2>0, <2>1, <2>2, <2>3, MovesRequested DEF Ops
<1>4. ASSUME NEW c \in Reviews, Commit(c) PROVE MovesInv'
  <2>0. c \in Callers
    BY CallerKinds
  <2>1. copy[c] \in ReservationType
    BY <2>0 DEF IInv, TypeOK
  <2>2. \/ \E pc \in {"answer", "refuse", "save"} :
             job' = JobFor("commit", c, copy[c], pc, {})
        \/ job' = JobFor("commit", c, copy[c], "out",
                         Unmoved("out", OrderFor(c), copy[c]))
    BY <1>4 DEF Commit
  <2>3. job = Idle /\ UNCHANGED <<stock, records, due, round, callers>>
    BY <1>4 DEF Commit, Takes
  <2> QED BY <2>0, <2>1, <2>2, <2>3, MovesRequested DEF Ops
<1> QED BY <1>1, <1>2, <1>3, <1>4, CallerKinds, MovesReserve DEF Request

-----------------------------------------------------------------------------
(* The steps of a job.                                                     *)

\* Where a job goes on within its order.
Onward(j) ==
  /\ j # Idle
  /\ j.op = job.op /\ j.by = job.by /\ j.of = job.of
  /\ j.copy.alloc = job.copy.alloc

LEMMA ThrownOnward ==
  ASSUME IInv, job # Idle
  PROVE  \/ Thrown = Idle /\ job.op = "sweep"
         \/ Onward(Thrown) /\ Thrown.pc = "refuse"
<1>1. job \in Jobs
  BY JobTypes
<1>2. CASE job.op = "sweep"
  BY <1>2 DEF Thrown
<1>3. CASE job.op # "sweep"
  <2>1. Thrown = [job EXCEPT !.pc = "refuse"]
    BY <1>3 DEF Thrown
  <2> QED BY <1>1, <2>1 DEF Onward, Jobs, Idle
<1> QED BY <1>2, <1>3

\* A job that goes on with what it has in hand, moving nothing.
LEMMA MovesOnward ==
  ASSUME IInv, MovesInv, job # Idle, UNCHANGED <<moved, at, copy>>,
         round'.seen = round.seen, \A o \in Orders : ExactFor(o, notes'[o]),
         \/ Onward(job')
         \/ job' = Idle /\ job.op = "sweep",
         JobInStep'
  PROVE  MovesInv'
<1>1. ExactFor(job.of, job.copy)
  BY CopiesAreExact
<1>2. job' = Idle \/ ExactFor(job'.of, job'.copy)
  BY <1>1 DEF Onward, ExactFor
<1>3. \A o \in Orders : job # Idle /\ job.op = "reserve" /\ job.by = o =>
         job' # Idle /\ job'.op = "reserve" /\ job'.by = o
  BY DEF Onward
<1> QED BY <1>2, <1>3, MovesJob

LEMMA MovesAllocated ==
  ASSUME IInv, MovesInv, Allocated
  PROVE  MovesInv'
<1>1. job # Idle /\ job \in Jobs
  BY JobTypes DEF Allocated, Running
<1>2. job' = [job EXCEPT !.pc = "note"]
  BY DEF Allocated
<1>3. Onward(job') /\ job'.pc = "note"
  BY <1>1, <1>2, IdleIsNoJob DEF Onward, Jobs, Idle
<1>4. JobInStep'
  BY <1>1, <1>2, <1>3 DEF MovesInv, JobInStep, Onward, Units, Allocated, stock, callers
<1> QED BY <1>1, <1>3, <1>4, CopiesAreExact, MovesOnward
        DEF Allocated, stock, records, callers

LEMMA RolledBackInStep ==
  ASSUME IInv, MovesInv, job # Idle, job.op = "reserve", UNCHANGED <<moved, at>>,
         job' = RolledBack
  PROVE  Onward(job') /\ JobInStep'
<1> DEFINE u == Unmoved("release", job.of, job.copy)
<1>1. job \in Jobs /\ job.of \in Orders /\ job.copy \in ReservationType
  BY JobTypes
<1>2. ExactFor(job.of, job.copy)
  BY CopiesAreExact
<1>3. \A b \in Batches :
        IF b \in u THEN Units("release", job.of, b) = 0
        ELSE \/ job.copy.alloc[b] = 0
             \/ Units("release", job.of, b) = Units("reserve", job.of, b)
  BY <1>1, <1>2, UnmovedExact
<1> HIDE DEF u
<1>4. job' = [job EXCEPT !.pc = "give", !.todo = u]
  BY DEF RolledBack, u
<1>5. Onward(job') /\ job'.pc = "give" /\ job'.todo = u /\ job'.copy = job.copy
  BY <1>1, <1>4 DEF Onward, Jobs, Idle
<1>6. JobInStep'
  BY <1>3, <1>5 DEF MovesInv, JobInStep, Onward, Units
<1> QED BY <1>5, <1>6

LEMMA MovesShortage ==
  ASSUME IInv, MovesInv, Shortage
  PROVE  MovesInv'
<1>1. job # Idle /\ job.op = "reserve"
  BY AtWork DEF Shortage, Running, JobOK
<1>2. Onward(job') /\ JobInStep'
  BY <1>1, RolledBackInStep DEF Shortage, stock, callers
<1> QED BY <1>1, <1>2, CopiesAreExact, MovesOnward DEF Shortage, stock, records, callers

\* The job writes its copy to the notes of its order.
LEMMA NotesExact ==
  ASSUME IInv, MovesInv, job # Idle,
         notes' = notes \/ notes' = [notes EXCEPT ![job.of] = job.copy]
  PROVE  \A o \in Orders : ExactFor(o, notes'[o])
BY JobTypes, CopiesAreExact DEF IInv, TypeOK

LEMMA MovesNote ==
  ASSUME IInv, MovesInv, Note
  PROVE  MovesInv'
<1>1. job # Idle /\ job.op = "reserve" /\ job \in Jobs
  BY AtWork DEF Note, Running, JobOK
<1>2. \/ job' = RolledBack
      \/ job' = [job EXCEPT !.pc = "answer"]
  BY DEF Note
<1>3. Onward(job') /\ JobInStep'
  <2>1. CASE job' = RolledBack
    BY <1>1, <2>1, RolledBackInStep DEF Note, stock, callers
  <2>2. CASE job' = [job EXCEPT !.pc = "answer"]
    <3>1. Onward(job') /\ job'.pc = "answer"
      BY <1>1, <2>2 DEF Onward, Jobs, Idle
    <3>2. JobInStep'
      BY <1>1, <3>1 DEF MovesInv, JobInStep, Onward, Units, Note, stock, callers
    <3> QED BY <3>1, <3>2
  <2> QED BY <1>2, <2>1, <2>2
<1>4. \A o \in Orders : ExactFor(o, notes'[o])
  BY <1>1, NotesExact DEF Note
<1> QED BY <1>1, <1>3, <1>4, MovesOnward DEF Note, stock, callers

LEMMA MovesSave ==
  ASSUME IInv, MovesInv, Save
  PROVE  MovesInv'
<1>1. job # Idle /\ job \in Jobs
  BY AtWork DEF Save, Running
<1>2. job' = Thrown \/ job' = [job EXCEPT !.pc = "answer"]
  BY DEF Save
<1>3. /\ Onward(job') \/ (job' = Idle /\ job.op = "sweep")
      /\ job' = Idle \/ job'.pc \in {"answer", "refuse"}
  BY <1>1, <1>2, ThrownOnward DEF Onward, Jobs, Idle
<1>4. JobInStep'
  BY <1>1, <1>3 DEF MovesInv, JobInStep, Onward, Units, Save, stock, callers
<1>5. \A o \in Orders : ExactFor(o, notes'[o])
  BY <1>1, NotesExact DEF Save
<1> QED BY <1>1, <1>3, <1>4, <1>5, MovesOnward DEF Save, stock, callers

LEMMA MovesFreed ==
  ASSUME IInv, MovesInv, Freed
  PROVE  MovesInv'
<1>1. job # Idle /\ job \in Jobs /\ job.op \in {"reserve", "release", "abort", "sweep"}
  BY AtWork DEF Freed, Running, JobOK, Jobs, Ops
<1>2. \/ job' = Thrown
      \/ job.op \in {"release", "abort"} /\ \E pc \in {"answer", "save"}, s \in {"released", "expired"} :
             job' = [job EXCEPT !.pc = pc, !.copy.state = s]
      \/ job.op = "sweep" /\ job' = [job EXCEPT !.pc = "close", !.copy.state = "expired"]
  BY <1>1 DEF Freed
<1>3. /\ Onward(job') \/ (job' = Idle /\ job.op = "sweep")
      /\ \/ job' = Idle
         \/ job'.pc \in {"answer", "refuse", "save"}
         \/ job'.pc = "close" /\ job.op = "sweep"
  <2>1. job.copy \in ReservationType
    BY <1>1 DEF Jobs
  <2>2. \A s : [job.copy EXCEPT !.state = s].alloc = job.copy.alloc
    BY <2>1 DEF ReservationType
  <2>3. CASE job' = Thrown
    BY <1>1, <2>3, ThrownOnward
  <2>4. CASE job.op \in {"release", "abort"} /\ \E pc \in {"answer", "save"}, s \in {"released", "expired"} :
               job' = [job EXCEPT !.pc = pc, !.copy.state = s]
    <3>1. PICK pc \in {"answer", "save"}, s \in {"released", "expired"} :
            job' = [job EXCEPT !.pc = pc, !.copy.state = s]
      BY <2>4
    <3>2. Onward(job') /\ job'.pc = pc
      BY <1>1, <2>2, <3>1 DEF Onward, Jobs, Idle
    <3> QED BY <3>2
  <2>5. CASE job.op = "sweep" /\ job' = [job EXCEPT !.pc = "close", !.copy.state = "expired"]
    BY <1>1, <2>2, <2>5 DEF Onward, Jobs, Idle
  <2> QED BY <1>2, <2>3, <2>4, <2>5
<1>4. JobInStep'
  BY <1>1, <1>3 DEF MovesInv, JobInStep, Onward, Units, Freed, stock, callers
<1> QED BY <1>1, <1>3, <1>4, CopiesAreExact, MovesOnward DEF Freed, stock, records, callers

LEMMA MovesSold ==
  ASSUME IInv, MovesInv, Sold
  PROVE  MovesInv'
<1>1. job # Idle /\ job \in Jobs
  BY AtWork DEF Sold, Running
<1>2. job' = [job EXCEPT !.pc = "save", !.copy.state = "committed"]
  BY DEF Sold
<1>3. Onward(job') /\ job'.pc = "save"
  <2>1. job.copy \in ReservationType
    BY <1>1 DEF Jobs
  <2>2. [job.copy EXCEPT !.state = "committed"].alloc = job.copy.alloc
    BY <2>1 DEF ReservationType
  <2> QED BY <1>1, <1>2, <2>2 DEF Onward, Jobs, Idle
<1>4. JobInStep'
  BY <1>1, <1>3 DEF MovesInv, JobInStep, Onward, Units, Sold, stock, callers
<1> QED BY <1>1, <1>3, <1>4, CopiesAreExact, MovesOnward DEF Sold, stock, records, callers

-----------------------------------------------------------------------------
(* The steps that take units or move them.                                 *)

\* One more movement of a kind, unit by unit.
LEMMA OneMoreUnits ==
  ASSUME IInv, NEW kind \in Kinds, NEW o \in Orders, NEW b \in Batches, NEW n \in Nat,
         NEW hit \in BOOLEAN,
         moved' = IF hit THEN [moved EXCEPT ![kind][o][b] = @ + n] ELSE moved
  PROVE  \A k \in Kinds, p \in Orders, c \in Batches :
           Units(k, p, c)' = IF hit /\ k = kind /\ p = o /\ c = b
                             THEN Units(k, p, c) + n ELSE Units(k, p, c)
<1>1. moved \in [Kinds -> [Orders -> [Batches -> Nat]]]
  BY UnitsType
<1> SUFFICES ASSUME NEW k \in Kinds, NEW p \in Orders, NEW c \in Batches
             PROVE  moved'[k][p][c] = IF hit /\ k = kind /\ p = o /\ c = b
                                      THEN moved[k][p][c] + n ELSE moved[k][p][c]
  BY DEF Units
<1>2. CASE ~hit
  BY <1>2
<1>3. CASE hit
  <2>1. moved' = [moved EXCEPT ![kind] = [moved[kind] EXCEPT ![o][b] = @ + n]]
    BY <1>1, <1>3
  <2>2. k # kind => moved'[k] = moved[k]
    BY <1>1, <2>1
  <2>3. moved'[kind] = [moved[kind] EXCEPT ![o] = [moved[kind][o] EXCEPT ![b] = @ + n]]
    BY <1>1, <2>1
  <2>4. p # o => moved'[kind][p] = moved[kind][p]
    BY <1>1, <2>3
  <2>5. moved'[kind][o] = [moved[kind][o] EXCEPT ![b] = @ + n]
    BY <1>1, <2>3
  <2>6. moved'[kind][o][c] = IF c = b THEN moved[kind][o][c] + n ELSE moved[kind][o][c]
    BY <1>1, <2>5
  <2> QED BY <1>3, <2>2, <2>4, <2>6
<1> QED BY <1>2, <1>3

\* The smaller of two numbers is one of them.
LEMMA MinIsOne ==
  ASSUME NEW m \in Nat, NEW n \in Nat
  PROVE  Min({m, n}) \in Nat /\ (Min({m, n}) = m \/ (Min({m, n}) = n /\ n <= m))
<1>1. CASE m <= n
  <2>1. \A y \in {m, n} : m =< y
    BY <1>1
  <2>2. \A x \in {m, n} : (\A y \in {m, n} : x =< y) => x = m
    BY <1>1
  <2> QED BY <2>1, <2>2 DEF Min
<1>2. CASE n <= m
  <2>1. \A y \in {m, n} : n =< y
    BY <1>2
  <2>2. \A x \in {m, n} : (\A y \in {m, n} : x =< y) => x = n
    BY <1>2
  <2> QED BY <2>1, <2>2, <1>2 DEF Min
<1> QED BY <1>1, <1>2

LEMMA MovesTake ==
  ASSUME IInv, MovesInv, Take
  PROVE  MovesInv'
<1> DEFINE b == Min(Stocked)
           q == Min({job.left, remaining[b]})
           next == [job EXCEPT !.pc = "record", !.batch = b, !.take = q]
<1>1. job # Idle /\ job \in Jobs /\ job.pc = "take" /\ job.op = "reserve"
  BY AtWork DEF Take, Running, JobOK
<1>2. b \in Batches /\ remaining[b] > 0
  <2>1. b \in Stocked
    BY MinOfBatches DEF Take, Stocked
  <2> QED BY <2>1 DEF Stocked
<1>3. job.left \in Nat /\ job.left > 0 /\ remaining \in [Batches -> Nat]
  BY <1>1 DEF Take, Jobs, IInv, TypeOK
<1>4. q \in Nat /\ (q = job.left \/ (q = remaining[b] /\ q <= job.left))
  BY <1>2, <1>3, MinIsOne
<1>5. PICK hit, bad \in BOOLEAN :
        /\ Tried(hit, bad)
        /\ remaining' = IF hit THEN [remaining EXCEPT ![b] = @ - q] ELSE remaining
        /\ job' = IF bad THEN Thrown ELSE next
  BY DEF Take
<1>6. next.pc = "record" /\ next.batch = b /\ next.take = q /\ next.left = job.left
      /\ Onward(next)
  BY <1>1 DEF Onward, Jobs, Idle
<1> HIDE DEF b, q, next
<1>7. Onward(job')
  BY <1>1, <1>5, <1>6, ThrownOnward
<1>8. \A c \in Batches : Units("reserve", job.of, c) \in Nat
                         /\ (Units("reserve", job.of, c) > 0 => remaining[c] = 0)
  BY <1>1, <1>3, JobTypes, UnitsType DEF MovesInv, JobInStep, Kinds
<1>9. JobInStep'
  <2>1. CASE bad
    BY <1>1, <1>5, <2>1, ThrownOnward
    DEF MovesInv, JobInStep, Onward, Take, callers
  <2>2. CASE ~bad
    <3>1. job' = next /\ remaining' = [remaining EXCEPT ![b] = @ - q]
      BY <1>5, <2>2 DEF Tried
    <3>2. Units("reserve", job.of, b) = 0
      BY <1>2, <1>8
    <3>3. q > 0
      BY <1>2, <1>3, <1>4
    <3>4. ASSUME job.left > q, NEW c \in Batches, c # b, Units("reserve", job.of, c) > 0
          PROVE  remaining'[c] = 0
      BY <1>3, <1>8, <3>1, <3>4
    <3>5. job.left > q => remaining'[b] = 0
      BY <1>2, <1>3, <1>4, <3>1
    <3>6. job.of = next.of /\ job.op = next.op /\ job.by = next.by /\ next # Idle
      BY <1>6 DEF Onward
    <3>7. UNCHANGED <<moved, at>>
      BY DEF Take, callers
    <3> QED BY <1>1, <1>6, <3>1, <3>2, <3>3, <3>4, <3>5, <3>6, <3>7
        DEF MovesInv, JobInStep, Units
  <2> QED BY <2>1, <2>2
<1> QED BY <1>1, <1>7, <1>9, CopiesAreExact, MovesOnward DEF Take, records, callers

LEMMA MovesUndo ==
  ASSUME IInv, MovesInv, Undo
  PROVE  MovesInv'
<1>1. job # Idle /\ job.op = "reserve"
  BY AtWork DEF Undo, Running, JobOK
<1>2. Onward(job') /\ job'.pc = "refuse"
  BY <1>1, ThrownOnward DEF Undo
<1>3. JobInStep'
  BY <1>1, <1>2 DEF MovesInv, JobInStep, Onward, Undo, callers
<1> QED BY <1>1, <1>2, <1>3, CopiesAreExact, MovesOnward DEF Undo, records, callers

LEMMA MovesGive ==
  ASSUME IInv, MovesInv, Give
  PROVE  MovesInv'
<1> DEFINE b == Min(job.todo)
           next == [job EXCEPT !.pc = "given", !.batch = b]
<1>1. job # Idle /\ job \in Jobs /\ job.pc = "give" /\ job.todo \in SUBSET Batches
  BY AtWork, JobTypes DEF Give, Running
<1>2. b \in job.todo
  BY <1>1, MinOfBatches DEF Give
<1>3. PICK bad \in BOOLEAN : job' = IF bad THEN Thrown ELSE next
  BY DEF Give
<1>4. next.pc = "given" /\ next.batch = b /\ next.todo = job.todo
      /\ next.copy = job.copy /\ Onward(next)
  BY <1>1 DEF Onward, Jobs, Idle
<1> HIDE DEF b, next
<1>5. Onward(job') \/ (job' = Idle /\ job.op = "sweep")
  BY <1>1, <1>3, <1>4, ThrownOnward
<1>6. JobInStep'
  <2>1. CASE bad
    BY <1>1, <1>3, <2>1, ThrownOnward
    DEF MovesInv, JobInStep, Onward, Give, callers
  <2>2. CASE ~bad
    <3>1. UNCHANGED <<moved, at>>
      BY DEF Give, callers
    <3> QED BY <1>1, <1>2, <1>3, <1>4, <2>2, <3>1
        DEF MovesInv, JobInStep, Units, Onward
  <2> QED BY <2>1, <2>2
<1> QED BY <1>1, <1>5, <1>6, CopiesAreExact, MovesOnward DEF Give, records, callers

LEMMA MovesRecord ==
  ASSUME IInv, MovesInv, Record
  PROVE  MovesInv'
<1> DEFINE o == job.of
           b == job.batch
           n == job.take
           copied == [job.copy EXCEPT !.alloc[b] = n]
           next == [job EXCEPT !.pc = "take", !.left = @ - n, !.copy = copied]
           undo == [job EXCEPT !.pc = "undo"]
<1>1. /\ job # Idle /\ job \in Jobs /\ job.pc = "record" /\ job.op = "reserve"
      /\ b \in Batches /\ job.by = o
  BY AtWork, CallerKinds DEF Record, Running, JobOK, MovesInv, JobInStep
<1>2. n \in Nat /\ n > 0 /\ job.left \in Nat /\ o \in Orders
      /\ job.copy \in ReservationType
  BY <1>1, JobTypes DEF MovesInv, JobInStep
<1>3. PICK hit, bad \in BOOLEAN :
        /\ Tried(hit, bad)
        /\ moved' = IF hit THEN [moved EXCEPT !["reserve"][o][b] = @ + n] ELSE moved
        /\ job' = IF bad THEN undo
                  ELSE [job EXCEPT !.pc = "take", !.left = @ - job.take,
                                   !.copy.alloc[job.batch] = job.take]
  BY DEF Record
<1>4. \A k \in Kinds, p \in Orders, c \in Batches :
        Units(k, p, c)' = IF hit /\ k = "reserve" /\ p = o /\ c = b
                          THEN Units(k, p, c) + n ELSE Units(k, p, c)
  <2> HIDE DEF o, b, n, copied, next, undo
  <2>1. "reserve" \in Kinds
    BY DEF Kinds
  <2> QED BY <1>1, <1>2, <1>3, <2>1, OneMoreUnits
<1>5. Units("reserve", o, b) = 0
  BY <1>1 DEF MovesInv, JobInStep
<1>6. \A p \in Orders, c \in Batches :
        Units("reserve", p, c)' = IF hit /\ p = o /\ c = b THEN n ELSE Units("reserve", p, c)
  BY <1>2, <1>4, <1>5 DEF Kinds
<1>7. \A k \in {"release", "out"}, p \in Orders, c \in Batches :
        Units(k, p, c)' = Units(k, p, c)
  BY <1>4 DEF Kinds
<1>8. [job EXCEPT !.pc = "take", !.left = @ - job.take,
                  !.copy.alloc[job.batch] = job.take] = next
  BY <1>1, <1>2 DEF Jobs
<1>9. /\ \A c \in Batches : copied.alloc[c] = IF c = b THEN n ELSE job.copy.alloc[c]
      /\ next.copy = copied /\ next.pc = "take" /\ next.left = job.left - n
      /\ next.op = job.op /\ next.by = job.by /\ next.of = o /\ next # Idle
      /\ undo.op = job.op /\ undo.by = job.by /\ undo.of = o /\ undo # Idle
      /\ undo.copy = job.copy /\ undo.pc = "undo"
  <2>1. \A c \in Batches : copied.alloc[c] = IF c = b THEN n ELSE job.copy.alloc[c]
    BY <1>2 DEF ReservationType
  <2> HIDE DEF copied
  <2> QED BY <1>1, <2>1 DEF Jobs, Idle
<1>10. \/ bad /\ job' = undo
       \/ ~bad /\ hit /\ job' = next
  BY <1>3, <1>8 DEF Tried
<1>11. UNCHANGED <<at, copy, notes, round, remaining>>
  BY DEF Record, records, callers
<1> HIDE DEF copied, next, undo, o, b, n
<1>13. CopiesExact'
  <2>1. \A p \in Orders : ExactFor(p, notes[p])' /\ ExactFor(p, round.seen[p])'
    <3> SUFFICES ASSUME NEW p \in Orders
                 PROVE  ExactFor(p, notes[p])' /\ ExactFor(p, round.seen[p])'
      OBVIOUS
    <3>1. ExactFor(p, notes[p]) /\ ExactFor(p, round.seen[p])
      BY CopiesAreExact
    <3> QED BY <1>5, <1>6, <1>11, <3>1 DEF ExactFor
  <2>2. \A c \in Callers : ExactFor(OrderFor(c), copy[c])'
    <3> SUFFICES ASSUME NEW c \in Callers PROVE ExactFor(OrderFor(c), copy[c])'
      OBVIOUS
    <3>1. ExactFor(OrderFor(c), copy[c]) /\ OrderFor(c) \in Orders
      BY CopiesAreExact, OrderOfCaller
    <3> QED BY <1>5, <1>6, <1>11, <3>1 DEF ExactFor
  <2>3. ExactFor(job.of, job.copy)'
    <3>1. ExactFor(o, job.copy)
      BY <1>1, CopiesAreExact DEF o
    <3>2. CASE bad
      BY <1>2, <1>5, <1>6, <1>9, <1>10, <3>1, <3>2 DEF ExactFor
    <3>3. CASE ~bad
      BY <1>2, <1>5, <1>6, <1>9, <1>10, <3>1, <3>3 DEF ExactFor
    <3> QED BY <3>2, <3>3
  <2> QED BY <2>1, <2>2, <2>3 DEF CopiesExact
<1>14. NothingYet'
  <2> SUFFICES ASSUME NEW p \in Orders, Asking(p)', NEW k \in Kinds, NEW c \in Batches
               PROVE  Units(k, p, c)' = 0
    BY DEF NothingYet, Kinds
  <2>1. p # o
    BY <1>1, <1>9, <1>10 DEF Asking
  <2>2. Asking(p)
    BY <1>1, <1>9, <1>10, <1>11 DEF Asking
  <2>3. Units(k, p, c) = 0
    BY <2>2 DEF MovesInv, NothingYet, Kinds
  <2> QED BY <1>4, <2>1, <2>3
<1>15. JobInStep'
  <2>1. CASE bad
    BY <1>1, <1>9, <1>10, <1>11, <2>1 DEF MovesInv, JobInStep
  <2>2. CASE ~bad
    <3>1. ASSUME job.left - n > 0, NEW p \in Orders, p = o,
                 NEW c \in Batches, Units("reserve", p, c)' > 0
          PROVE  remaining'[c] = 0
      <4>1. job.left > n
        BY <1>2, <3>1
      <4>2. c = b \/ Units("reserve", o, c) > 0
        BY <1>6, <3>1
      <4> QED BY <1>1, <1>11, <4>1, <4>2 DEF MovesInv, JobInStep, o, b, n
    <3>2. job' # Idle /\ job'.pc = "take" /\ job'.left = job.left - n
          /\ job'.of = o /\ job'.op = "reserve" /\ job'.by = job.by
      BY <1>1, <1>9, <1>10, <2>2
    <3>3. \A c \in Batches : job.left - n > 0 /\ Units("reserve", job.of, c)' > 0
                               => remaining'[c] = 0
      BY <1>2, <3>1, <3>2
    <3>4. job.by \in Orders /\ at[job.by] # "idle"
      BY <1>1 DEF MovesInv, JobInStep
    <3> QED BY <1>11, <3>2, <3>3, <3>4 DEF JobInStep
  <2> QED BY <2>1, <2>2
<1>16. MovedOnce'
  <2> SUFFICES ASSUME NEW p \in Orders, NEW c \in Batches, NEW k \in {"release", "out"}
               PROVE  Units(k, p, c)' \in {0, Units("reserve", p, c)'}
    BY DEF MovedOnce, Units
  <2>1. Units(k, p, c) \in {0, Units("reserve", p, c)}
    BY DEF MovesInv, MovedOnce, Units
  <2> QED BY <1>5, <1>6, <1>7, <2>1
<1> QED BY <1>13, <1>14, <1>15, <1>16 DEF MovesInv

\* A movement that says that the units of a batch were given back, or sold: all
\* that the order reserved, for the first time.
LEMMA MovesMovement ==
  ASSUME IInv, MovesInv, job # Idle, NEW kind \in {"release", "out"},
         NEW b \in Batches, Units(kind, job.of, b) = 0, NEW hit \in BOOLEAN,
         \A k \in Kinds, p \in Orders, c \in Batches :
            Units(k, p, c)' = IF hit /\ k = kind /\ p = job.of /\ c = b
                              THEN Units(k, p, c) + job.copy.alloc[b]
                              ELSE Units(k, p, c),
         Onward(job') \/ (job' = Idle /\ job.op = "sweep"),
         UNCHANGED <<remaining, records, round, callers>>,
         JobInStep'
  PROVE  MovesInv'
<1> DEFINE n == job.copy.alloc[b]
<1>1. job.of \in Orders /\ n \in Nat
  BY JobTypes
<1>2. kind \in Kinds /\ kind # "reserve"
  BY DEF Kinds
<1>3. \A k \in Kinds, p \in Orders, c \in Batches :
        Units(k, p, c)' = IF hit /\ k = kind /\ p = job.of /\ c = b
                          THEN Units(k, p, c) + n ELSE Units(k, p, c)
  OBVIOUS
<1>4. \A p \in Orders, c \in Batches : Units("reserve", p, c)' = Units("reserve", p, c)
  BY <1>2, <1>3 DEF Kinds
<1>5. UNCHANGED <<at, copy, notes, round>>
  BY DEF records, callers
<1>6. ExactFor(job.of, job.copy)
  BY CopiesAreExact
<1> HIDE DEF n
<1>7. CopiesExact'
  <2>1. ASSUME NEW p \in Orders PROVE ExactFor(p, notes[p])' /\ ExactFor(p, round.seen[p])'
    <3>1. ExactFor(p, notes[p]) /\ ExactFor(p, round.seen[p])
      BY CopiesAreExact
    <3> QED BY <1>4, <1>5, <3>1 DEF ExactFor
  <2>2. ASSUME NEW c \in Callers PROVE ExactFor(OrderFor(c), copy[c])'
    <3>1. ExactFor(OrderFor(c), copy[c]) /\ OrderFor(c) \in Orders
      BY CopiesAreExact, OrderOfCaller
    <3> QED BY <1>4, <1>5, <3>1 DEF ExactFor
  <2>3. job' # Idle => ExactFor(job.of, job.copy)'
    BY <1>1, <1>4, <1>6 DEF ExactFor, Onward
  <2> QED BY <2>1, <2>2, <2>3 DEF CopiesExact
<1>8. NothingYet'
  <2> SUFFICES ASSUME NEW p \in Orders, Asking(p)', NEW k \in Kinds, NEW c \in Batches
               PROVE  Units(k, p, c)' = 0
    BY DEF NothingYet, Kinds
  <2>1. Asking(p)
    BY <1>5 DEF Asking, Onward
  <2>2. \A l \in Kinds : Units(l, p, c) = 0
    BY <2>1 DEF MovesInv, NothingYet, Kinds
  <2>3. p = job.of /\ c = b => n = 0
    BY <1>6, <2>2 DEF ExactFor, n, Kinds
  <2> QED BY <1>1, <1>3, <2>2, <2>3
<1>9. MovedOnce'
  <2> SUFFICES ASSUME NEW p \in Orders, NEW c \in Batches, NEW k \in {"release", "out"}
               PROVE  Units(k, p, c)' \in {0, Units("reserve", p, c)'}
    BY DEF MovedOnce, Units
  <2>1. Units(k, p, c) \in {0, Units("reserve", p, c)}
    BY DEF MovesInv, MovedOnce, Units
  <2>2. n \in {0, Units("reserve", job.of, b)}
    BY <1>6 DEF ExactFor, n
  <2>3. k \in Kinds
    BY DEF Kinds
  <2> QED BY <1>1, <1>3, <1>4, <2>1, <2>2, <2>3
<1> QED BY <1>7, <1>8, <1>9 DEF MovesInv

LEMMA MovesGiven ==
  ASSUME IInv, MovesInv, Given
  PROVE  MovesInv'
<1> DEFINE b == job.batch
           n == job.copy.alloc[b]
           next == [job EXCEPT !.pc = "give", !.todo = @ \ {b}]
<1>1. /\ job # Idle /\ job \in Jobs /\ job.pc = "given" /\ b \in Batches
      /\ job.of \in Orders /\ n \in Nat /\ b \in job.todo
  BY AtWork, JobTypes DEF Given, Running, JobOK, MovesInv, JobInStep
<1>2. PICK hit, bad \in BOOLEAN :
        /\ Tried(hit, bad)
        /\ moved' = IF hit THEN [moved EXCEPT !["release"][job.of][b] = @ + n] ELSE moved
        /\ job' = IF bad THEN Thrown ELSE next
  BY DEF Given
<1>3. /\ next.pc = "give" /\ next.todo = job.todo \ {b} /\ next.copy = job.copy
      /\ Onward(next)
  BY <1>1 DEF Onward, Jobs, Idle
<1>4. Units("release", job.of, b) = 0
  BY <1>1 DEF MovesInv, JobInStep
<1>5. n \in {0, Units("reserve", job.of, b)}
  BY <1>1, CopiesAreExact DEF ExactFor
<1>60. \A k \in Kinds, p \in Orders, c \in Batches :
         Units(k, p, c)' = IF hit /\ k = "release" /\ p = job.of /\ c = b
                           THEN Units(k, p, c) + n ELSE Units(k, p, c)
  <2> HIDE DEF b, n, next
  <2>1. "release" \in Kinds
    BY DEF Kinds
  <2> QED BY <1>1, <1>2, <2>1, OneMoreUnits
<1>6. \A c \in Batches : \A o \in {job.of} :
        /\ Units("reserve", o, c)' = Units("reserve", o, c)
        /\ Units("release", o, c)' =
             IF hit /\ c = b THEN Units("release", o, c) + n ELSE Units("release", o, c)
  BY <1>1, <1>60 DEF Kinds
<1> HIDE DEF next
<1>7. Onward(job') \/ (job' = Idle /\ job.op = "sweep")
  BY <1>1, <1>2, <1>3, ThrownOnward
<1>8. JobInStep'
  <2>1. CASE bad
    BY <1>1, <1>2, <2>1, ThrownOnward
    DEF MovesInv, JobInStep, Onward, Given, callers
  <2>2. CASE ~bad
    <3>1. hit /\ job' = next
      BY <1>2, <2>2 DEF Tried
    <3>2. ASSUME NEW c \in Batches, NEW o \in {job.of}
          PROVE  IF c \in job.todo \ {b} THEN Units("release", o, c)' = 0
                 ELSE \/ job.copy.alloc[c] = 0
                      \/ Units("release", o, c)' = Units("reserve", o, c)'
      <4>1. IF c \in job.todo THEN Units("release", job.of, c) = 0
            ELSE \/ job.copy.alloc[c] = 0
                 \/ Units("release", job.of, c) = Units("reserve", job.of, c)
        BY <1>1 DEF MovesInv, JobInStep
      <4> QED BY <1>1, <1>4, <1>5, <1>6, <3>1, <4>1
    <3>3. job'.pc = "give" /\ job'.todo = job.todo \ {b} /\ job'.copy = job.copy
          /\ job'.of = job.of /\ job'.op = job.op /\ job'.by = job.by
      BY <1>3, <3>1 DEF Onward
    <3>4. job.op = "reserve" => job.by \in Orders /\ at'[job.by] # "idle"
      BY <1>1 DEF MovesInv, JobInStep, Given, callers
    <3> HIDE DEF b, n
    <3> QED BY <3>2, <3>3, <3>4 DEF JobInStep
  <2> QED BY <2>1, <2>2
<1> QED BY <1>1, <1>4, <1>60, <1>7, <1>8, MovesMovement DEF Given

LEMMA MovesOut ==
  ASSUME IInv, MovesInv, Out
  PROVE  MovesInv'
<1> DEFINE b == Min(job.todo)
           n == job.copy.alloc[b]
           next == [job EXCEPT !.todo = @ \ {b}]
<1>1. /\ job # Idle /\ job \in Jobs /\ job.pc = "out" /\ job.todo \in SUBSET Batches
  BY AtWork, JobTypes DEF Out, Running
<1>2. b \in job.todo /\ b \in Batches /\ job.of \in Orders /\ n \in Nat
  <2>1. b \in job.todo
    BY <1>1, MinOfBatches DEF Out
  <2> QED BY <1>1, <2>1, JobTypes
<1>3. PICK hit, bad \in BOOLEAN :
        /\ Tried(hit, bad)
        /\ moved' = IF hit THEN [moved EXCEPT !["out"][job.of][b] = @ + n] ELSE moved
        /\ job' = IF bad THEN Thrown ELSE next
  BY DEF Out
<1>4. /\ next.pc = "out" /\ next.todo = job.todo \ {b} /\ next.copy = job.copy
      /\ Onward(next)
  BY <1>1 DEF Onward, Jobs, Idle
<1> HIDE DEF b
<1>5. Units("out", job.of, b) = 0
  BY <1>1, <1>2 DEF MovesInv, JobInStep
<1>6. n \in {0, Units("reserve", job.of, b)}
  BY <1>1, <1>2, CopiesAreExact DEF ExactFor
<1>70. \A k \in Kinds, p \in Orders, c \in Batches :
         Units(k, p, c)' = IF hit /\ k = "out" /\ p = job.of /\ c = b
                           THEN Units(k, p, c) + n ELSE Units(k, p, c)
  <2> HIDE DEF n, next
  <2>1. "out" \in Kinds
    BY DEF Kinds
  <2> QED BY <1>2, <1>3, <2>1, OneMoreUnits
<1>7. \A c \in Batches : \A o \in {job.of} :
        /\ Units("reserve", o, c)' = Units("reserve", o, c)
        /\ Units("out", o, c)' =
             IF hit /\ c = b THEN Units("out", o, c) + n ELSE Units("out", o, c)
  BY <1>2, <1>70 DEF Kinds
<1> HIDE DEF next
<1>8. Onward(job') \/ (job' = Idle /\ job.op = "sweep")
  BY <1>1, <1>3, <1>4, ThrownOnward
<1>9. JobInStep'
  <2>1. CASE bad
    BY <1>1, <1>3, <2>1, ThrownOnward
    DEF MovesInv, JobInStep, Onward, Out, callers
  <2>2. CASE ~bad
    <3>1. hit /\ job' = next
      BY <1>3, <2>2 DEF Tried
    <3>2. ASSUME NEW c \in Batches, NEW o \in {job.of}
          PROVE  IF c \in job.todo \ {b} THEN Units("out", o, c)' = 0
                 ELSE \/ job.copy.alloc[c] = 0
                      \/ Units("out", o, c)' = Units("reserve", o, c)'
      <4>1. IF c \in job.todo THEN Units("out", job.of, c) = 0
            ELSE \/ job.copy.alloc[c] = 0
                 \/ Units("out", job.of, c) = Units("reserve", job.of, c)
        BY <1>1 DEF MovesInv, JobInStep
      <4> QED BY <1>2, <1>5, <1>6, <1>7, <3>1, <4>1
    <3>3. job'.pc = "out" /\ job'.todo = job.todo \ {b} /\ job'.copy = job.copy
          /\ job'.of = job.of /\ job'.op = job.op /\ job'.by = job.by
      BY <1>4, <3>1 DEF Onward
    <3>4. job.op = "reserve" => job.by \in Orders /\ at'[job.by] # "idle"
      BY <1>1 DEF MovesInv, JobInStep, Out, callers
    <3> HIDE DEF n
    <3> QED BY <3>2, <3>3, <3>4 DEF JobInStep
  <2> QED BY <2>1, <2>2
<1> QED BY <1>1, <1>2, <1>5, <1>70, <1>8, <1>9, MovesMovement DEF Out

-----------------------------------------------------------------------------
(* Answers, the sweep, and the coordinator's eviction.                     *)

LEMMA NoJobInStep ==
  ASSUME job' = Idle
  PROVE  JobInStep'
BY DEF JobInStep

LEMMA MovesAnswer ==
  ASSUME IInv, MovesInv, Answer
  PROVE  MovesInv'
<1> DEFINE c == job.by
<1>1. /\ job # Idle /\ job \in Jobs /\ job.pc \in {"answer", "refuse"}
      /\ c \in Callers /\ job.of = OrderFor(c) /\ job.op \in Ops
      /\ at \in [Callers -> PlaceType] /\ copy \in [Callers -> ReservationType]
  BY JobTypes DEF Answer, JobOK, Jobs, IInv, TypeOK
<1>2. PICK lost \in BOOLEAN, good \in BOOLEAN :
        /\ at' = IF at[c] # job.op THEN at
                 ELSE [at EXCEPT ![c] = IF good THEN OnAnswer[job.op] ELSE OnFailure(c)]
        /\ copy' = copy \/ copy' = [copy EXCEPT ![c] = job.copy]
  BY DEF Answer
<1>3. OnAnswer[job.op] \notin {"idle", "reserve"} /\ OnFailure(c) \notin {"idle", "reserve"}
  BY <1>1 DEF OnAnswer, OnFailure, Ops
<1>4. \A d \in Callers : ExactFor(OrderFor(d), copy'[d])
  <2>1. ExactFor(OrderFor(c), job.copy)
    BY <1>1, CopiesAreExact
  <2> HIDE DEF c
  <2> QED BY <1>1, <1>2, <2>1, CopiesAreExact
<1>5. \A o \in Orders : Asking(o)' => Asking(o)
  <2> SUFFICES ASSUME NEW o \in Orders, at'[o] \in {"idle", "reserve"} PROVE Asking(o)
    BY DEF Asking
  <2>1. o \in Callers
    BY CallerKinds
  <2>2. at'[o] = at[o] /\ (o = c => at[c] # job.op)
    BY <1>1, <1>2, <1>3, <2>1
  <2>3. job.op = "reserve" /\ c = o => at[o] # "idle"
    BY <1>1 DEF MovesInv, JobInStep
  <2> QED BY <2>2, <2>3 DEF Asking
<1>6. job' = Idle /\ UNCHANGED <<moved, notes, round>>
  BY DEF Answer, stock, records
<1> QED BY <1>4, <1>5, <1>6, NoJobInStep, CopiesAreExact, MovesFrame

LEMMA MovesClose ==
  ASSUME IInv, MovesInv, Close
  PROVE  MovesInv'
<1>1. job # Idle /\ job.op = "sweep" /\ job' = Idle
  BY AtWork DEF Close, Running, MovesInv, JobInStep
<1>2. \A o \in Orders : ExactFor(o, notes'[o])
  BY <1>1, NotesExact DEF Close
<1>3. round'.seen = round.seen
  BY DEF Close, IInv, TypeOK
<1> QED BY <1>1, <1>2, <1>3, NoJobInStep, MovesJob DEF Close, stock, callers

LEMMA MovesSync ==
  ASSUME IInv, MovesInv, Sync
  PROVE  MovesInv'
<1>1. job # Idle /\ job.op = "sweep" /\ job' = Idle /\ job.of \in Orders
  BY JobTypes DEF Sync, Running, MovesInv, JobInStep
<1>2. \A o \in Orders : ExactFor(o, notes'[o])
  <2> SUFFICES ASSUME NEW o \in Orders PROVE notes'[o].alloc = notes[o].alloc
    BY CopiesAreExact DEF ExactFor
  <2>1. notes \in [Orders -> ReservationType]
    BY DEF IInv, TypeOK
  <2>2. \/ notes' = notes
        \/ notes' = [notes EXCEPT ![job.of] = [notes[job.of] EXCEPT !.synced = TRUE]]
    BY DEF Sync
  <2>3. [notes[job.of] EXCEPT !.synced = TRUE].alloc = notes[job.of].alloc
    BY <1>1, <2>1 DEF ReservationType
  <2> QED BY <1>1, <2>1, <2>2, <2>3
<1> QED BY <1>1, <1>2, NoJobInStep, MovesJob DEF Sync, stock, callers

LEMMA MovesSweep ==
  ASSUME IInv, MovesInv, Sweep
  PROVE  MovesInv'
<1>1. job = Idle /\ job' = Idle /\ round'.seen = notes /\ UNCHANGED <<moved, notes, at, copy>>
  BY DEF Sweep, stock, records, callers
<1>2. \A o \in Orders : Asking(o)' => Asking(o)
  BY <1>1 DEF Asking
<1> QED BY <1>1, <1>2, NoJobInStep, CopiesAreExact, MovesFrame

LEMMA MovesExpire ==
  ASSUME IInv, MovesInv, NEW o \in Orders, Expire(o)
  PROVE  MovesInv'
<1> DEFINE r == round.seen[o]
           u == Unmoved("release", o, r)
<1>1. r \in ReservationType /\ ExactFor(o, r)
  BY CopiesAreExact DEF IInv, TypeOK
<1>2. \A b \in Batches : IF b \in u THEN Units("release", o, b) = 0
        ELSE r.alloc[b] = 0 \/ Units("release", o, b) = Units("reserve", o, b)
  BY <1>1, UnmovedExact
<1>3. /\ job' # Idle /\ job'.op = "sweep" /\ job'.of = o /\ job'.pc = "give"
      /\ job'.copy = r /\ job'.todo = u
  BY DEF Expire, SweepJob, Idle
<1>4. job = Idle /\ UNCHANGED <<moved, notes, at, copy>> /\ round'.seen = round.seen
  BY DEF Expire, stock, records, callers, IInv, TypeOK
<1> HIDE DEF r, u
<1>5. JobInStep'
  BY <1>2, <1>3, <1>4 DEF JobInStep, Units
<1> QED BY <1>1, <1>3, <1>4, <1>5, CopiesAreExact, MovesJob

LEMMA MovesVoid ==
  ASSUME IInv, MovesInv, NEW o \in Orders, Void(o)
  PROVE  MovesInv'
<1>1. job = Idle /\ UNCHANGED <<moved, notes, at, copy>> /\ round'.seen = round.seen
  BY DEF Void, stock, callers, IInv, TypeOK
<1>2. \/ job' = Idle
      \/ /\ job' # Idle /\ job'.op = "sweep" /\ job'.pc = "sync" /\ job'.of = o
         /\ job'.copy = NoReservation
  BY DEF Void, SweepJob, Idle
<1>3. JobInStep'
  BY <1>2 DEF JobInStep
<1> QED BY <1>1, <1>2, <1>3, EmptyExact, CopiesAreExact, MovesJob

LEMMA MovesSweepEnds ==
  ASSUME IInv, MovesInv, SweepEnds
  PROVE  MovesInv'
<1>1. job = Idle /\ job' = Idle /\ UNCHANGED <<moved, notes, at, copy>> /\ round' = NoRound
  BY DEF SweepEnds, stock, records, callers
<1>2. \A o \in Orders : ExactFor(o, round'.seen[o])
  BY <1>1, EmptyExact DEF NoRound
<1>3. \A o \in Orders : Asking(o)' => Asking(o)
  BY <1>1 DEF Asking
<1> QED BY <1>1, <1>2, <1>3, NoJobInStep, CopiesAreExact, MovesFrame

LEMMA MovesCoordinatorEvicted ==
  ASSUME IInv, MovesInv, CoordinatorEvicted
  PROVE  MovesInv'
<1>1. job' = Idle /\ UNCHANGED <<moved, notes, copy>> /\ round' = NoRound
      /\ at' = [c \in Callers |-> IF at[c] \in Ops THEN OnFailure(c) ELSE at[c]]
  BY DEF CoordinatorEvicted, stock, records
<1>2. \A o \in Orders : ExactFor(o, round'.seen[o])
  BY <1>1, EmptyExact DEF NoRound
<1>3. \A o \in Orders : Asking(o)' => Asking(o)
  <2> SUFFICES ASSUME NEW o \in Orders, at'[o] \in {"idle", "reserve"} PROVE Asking(o)
    BY DEF Asking
  <2>1. at[o] = "idle"
    BY <1>1, CallerKinds DEF OnFailure, Ops
  <2> QED BY <2>1 DEF Asking, MovesInv, JobInStep
<1> QED BY <1>1, <1>2, <1>3, NoJobInStep, CopiesAreExact, MovesFrame

LEMMA MovesInit == Init => MovesInv
<1> SUFFICES ASSUME Init PROVE MovesInv
  OBVIOUS
<1>1. \A kind \in Kinds, o \in Orders, b \in Batches : Units(kind, o, b) = 0
  BY DEF Init, NoUnits, Units, Kinds
<1>2. \A o \in Orders : ExactFor(o, notes[o]) /\ ExactFor(o, round.seen[o])
  BY EmptyExact DEF Init, NoRound
<1>3. \A c \in Callers : ExactFor(OrderFor(c), copy[c])
  BY EmptyExact DEF Init
<1>4. CopiesExact
  BY <1>2, <1>3 DEF CopiesExact, Init
<1>5. NothingYet
  BY <1>1 DEF NothingYet, Kinds
<1>6. MovedOnce
  <2> SUFFICES ASSUME NEW o \in Orders, NEW b \in Batches, NEW kind \in {"release", "out"}
               PROVE  Units(kind, o, b) = 0
    BY DEF MovedOnce, Units
  <2> QED BY <1>1 DEF Kinds
<1>7. JobInStep
  BY DEF JobInStep, Init
<1> QED BY <1>4, <1>5, <1>6, <1>7 DEF MovesInv

LEMMA MovesStep == IInv /\ MovesInv /\ [Next]_vars => MovesInv'
<1> SUFFICES ASSUME IInv, MovesInv, [Next]_vars PROVE MovesInv'
  OBVIOUS
<1>1. CASE Request
  BY <1>1, MovesRequests
<1>2. CASE JobStep
  BY <1>2, MovesTake, MovesRecord, MovesUndo, MovesShortage, MovesAllocated, MovesNote,
     MovesGive, MovesGiven, MovesFreed, MovesOut, MovesSold, MovesSave, MovesAnswer,
     MovesClose, MovesSync, MovesSweepEnds, MovesExpire, MovesVoid DEF JobStep
<1>3. CASE Sweep
  BY <1>3, MovesSweep
<1>4. CASE \/ \E o \in Orders : Place(o) \/ CheckoutStep(o) \/ Tick(o)
           \/ \E v \in Reviews : Preflight(v) \/ ReviewStep(v)
           \/ \E a \in Admins : AdminCancel(a) \/ Cancel(a)
           \/ \E c \in Callers : Evict(c)
  BY <1>4, MovesCallers
<1>5. CASE CoordinatorEvicted
  BY <1>5, MovesCoordinatorEvicted
<1>6. CASE UNCHANGED vars
  <2>1. UNCHANGED <<stock, work>> /\ notes' = notes /\ at' = at /\ copy' = copy
    BY <1>6 DEF vars, stock, work
  <2> QED BY <2>1, CopiesAreExact, MovesCaller
<1> QED BY <1>1, <1>2, <1>3, <1>4, <1>5, <1>6 DEF Next

LEMMA MovesInvariance == Spec => [](IInv /\ MovesInv)
<1>1. Init => IInv /\ MovesInv
  BY InvInit, MovesInit
<1>2. IInv /\ MovesInv /\ [Next]_vars => (IInv /\ MovesInv)'
  BY InvStep, MovesStep
<1> QED BY <1>1, <1>2, PTL DEF Spec

\* However often an operation is repeated after a failure, an eviction or a lost
\* answer, by whichever caller, with a copy however old, the movements say at
\* most once that the units of an order were given back, and at most once that
\* they were sold, and then say it of all that was reserved.
THEOREM MovementsOnce == Spec => []MovedOnce
<1>1. MovesInv => MovedOnce
  BY DEF MovesInv
<1> QED BY <1>1, MovesInvariance, PTL

-----------------------------------------------------------------------------
(* Where the units are, when no write fails.                               *)

\* Without faults every write is made and answered.
LEMMA NoFault ==
  ASSUME IInv, MaxFaults = 0
  PROVE  /\ ~Fault
         /\ \A hit, bad \in BOOLEAN : Tried(hit, bad) => hit /\ ~bad
<1>1. faults = 0
  BY DEF IInv, TypeOK
<1> QED BY <1>1 DEF Fault, Tried

LEMMA NoEviction ==
  ASSUME IInv, MaxFaults = 0
  PROVE  ~CoordinatorEvicted /\ \A c \in Callers : ~Evict(c)
BY NoFault DEF CoordinatorEvicted, Evict

Recorded(kind, o, b, n) == [moved EXCEPT ![kind][o][b] = @ + n]

LEMMA OneMoreMade ==
  ASSUME IInv, NEW kind \in Kinds, NEW o \in Orders, NEW b \in Batches, NEW n \in Nat,
         moved' = Recorded(kind, o, b, n)
  PROVE  \A k \in Kinds, p \in Orders, c \in Batches :
           Units(k, p, c)' = IF k = kind /\ p = o /\ c = b
                             THEN Units(k, p, c) + n ELSE Units(k, p, c)
<1>1. moved \in [Kinds -> [Orders -> [Batches -> Nat]]]
  BY UnitsType
<1> SUFFICES ASSUME NEW k \in Kinds, NEW p \in Orders, NEW c \in Batches
             PROVE  moved'[k][p][c] = IF k = kind /\ p = o /\ c = b
                                      THEN moved[k][p][c] + n ELSE moved[k][p][c]
  BY DEF Units
<1>2. moved' = [moved EXCEPT ![kind] = [moved[kind] EXCEPT ![o][b] = @ + n]]
  BY <1>1 DEF Recorded
<1>3. k # kind => moved'[k] = moved[k]
  BY <1>1, <1>2
<1>4. moved'[kind] = [moved[kind] EXCEPT ![o] = [moved[kind][o] EXCEPT ![b] = @ + n]]
  BY <1>1, <1>2
<1>5. p # o => moved'[kind][p] = moved[kind][p]
  BY <1>1, <1>4
<1>6. moved'[kind][o] = [moved[kind][o] EXCEPT ![b] = @ + n]
  BY <1>1, <1>4
<1>7. moved'[kind][o][c] = IF c = b THEN moved[kind][o][c] + n ELSE moved[kind][o][c]
  BY <1>1, <1>6
<1> QED BY <1>3, <1>5, <1>7

\* With nothing in hand the job leaves the batches as they are.
Handless(j) == j = Idle \/ j.pc \notin {"record", "given", "undo"}

LEMMA NoneInHand ==
  ASSUME Handless(job), NEW b
  PROVE  InHand(b) = 0
BY DEF Handless, InHand

LEMMA ShelfQuiet ==
  ASSUME ShelfInv, remaining' = remaining,
         \A o \in Orders, b \in Batches : /\ Units("reserve", o, b)' = Units("reserve", o, b)
                                          /\ Units("release", o, b)' = Units("release", o, b),
         job' = job \/ (Handless(job) /\ Handless(job'))
  PROVE  ShelfInv'
<1>1. \A b \in Batches : Gone(b)' = Gone(b)
  BY DEF Gone
<1>2. \A b \in Batches : InHand(b)' = InHand(b)
  <2>1. CASE job' = job
    BY <2>1 DEF InHand
  <2>2. CASE Handless(job) /\ Handless(job')
    BY <2>2 DEF Handless, InHand
  <2> QED BY <2>1, <2>2
<1>3. job' # Idle => job'.pc # "undo"
  BY DEF ShelfInv, Handless
<1> QED BY <1>1, <1>2, <1>3 DEF ShelfInv

LEMMA ShelfStill ==
  ASSUME ShelfInv, UNCHANGED stock, job' = job \/ (Handless(job) /\ Handless(job'))
  PROVE  ShelfInv'
<1>1. remaining' = remaining /\ moved' = moved
  BY DEF stock
<1>2. \A o \in Orders, b \in Batches : /\ Units("reserve", o, b)' = Units("reserve", o, b)
                                       /\ Units("release", o, b)' = Units("release", o, b)
  BY <1>1 DEF Units
<1> QED BY <1>1, <1>2, ShelfQuiet

LEMMA GoneType ==
  ASSUME IInv, NEW b \in Batches
  PROVE  /\ [o \in Orders |-> Units("reserve", o, b) - Units("release", o, b)]
              \in [Orders -> Int]
         /\ Gone(b) \in Int
<1>1. \A o \in Orders : Units("reserve", o, b) - Units("release", o, b) \in Int
  BY UnitsType DEF Kinds
<1>2. [o \in Orders |-> Units("reserve", o, b) - Units("release", o, b)] \in [Orders -> Int]
  BY <1>1
<1> QED BY <1>2, SumInt, OrdersAssumption DEF Gone, OrdersAssumption

\* One more movement changes what is gone of its batch.
LEMMA GoneChanges ==
  ASSUME IInv, IInv', NEW kind \in Kinds, NEW o \in Orders, NEW b \in Batches, NEW n \in Nat,
         \A k \in Kinds, p \in Orders, c \in Batches :
           Units(k, p, c)' = IF k = kind /\ p = o /\ c = b
                             THEN Units(k, p, c) + n ELSE Units(k, p, c)
  PROVE  \A c \in Batches :
           Gone(c)' = IF c # b THEN Gone(c)
                      ELSE CASE kind = "reserve" -> Gone(c) + n
                             [] kind = "release" -> Gone(c) - n
                             [] OTHER -> Gone(c)
<1> SUFFICES ASSUME NEW c \in Batches
             PROVE  Gone(c)' = IF c # b THEN Gone(c)
                               ELSE CASE kind = "reserve" -> Gone(c) + n
                                      [] kind = "release" -> Gone(c) - n
                                      [] OTHER -> Gone(c)
  OBVIOUS
<1> DEFINE f == [p \in Orders |-> Units("reserve", p, c) - Units("release", p, c)]
           h == [p \in Orders |-> Units("reserve", p, c)' - Units("release", p, c)']
<1>1. f \in [Orders -> Int] /\ h \in [Orders -> Int]
  <2>1. \A k \in Kinds, p \in Orders : Units(k, p, c) \in Nat /\ Units(k, p, c)' \in Nat
    BY UnitsType
  <2>2. \A p \in Orders : /\ Units("reserve", p, c) - Units("release", p, c) \in Int
                          /\ Units("reserve", p, c)' - Units("release", p, c)' \in Int
    BY <2>1 DEF Kinds
  <2> QED BY <2>2
<1>2. \A p \in Orders \ {o} : h[p] = f[p]
  BY DEF Kinds
<1>3. h[o] = IF c # b THEN f[o]
             ELSE CASE kind = "reserve" -> f[o] + n
                    [] kind = "release" -> f[o] - n
                    [] OTHER -> f[o]
  <2>1. \A k \in Kinds : Units(k, o, c) \in Nat
    BY UnitsType
  <2>2. Units("reserve", o, c)' = IF kind = "reserve" /\ c = b THEN Units("reserve", o, c) + n
                                  ELSE Units("reserve", o, c)
    BY DEF Kinds
  <2>3. Units("release", o, c)' = IF kind = "release" /\ c = b THEN Units("release", o, c) + n
                                  ELSE Units("release", o, c)
    BY DEF Kinds
  <2>4. h[o] = Units("reserve", o, c)' - Units("release", o, c)'
        /\ f[o] = Units("reserve", o, c) - Units("release", o, c)
    OBVIOUS
  <2>5. Units("reserve", o, c) \in Nat /\ Units("release", o, c) \in Nat
    BY <2>1 DEF Kinds
  <2> HIDE DEF h, f
  <2> QED BY <2>2, <2>3, <2>4, <2>5
<1>4. Gone(c) = SumFunction(f) /\ Gone(c)' = SumFunction(h)
  BY DEF Gone
<1> HIDE DEF f, h
<1>5. SumFunction(h) = SumFunction(f) - f[o] + h[o]
  BY <1>1, <1>2, OrdersAssumption, SumOneChanged DEF OrdersAssumption
<1>6. SumFunction(f) \in Int /\ f[o] \in Int
  BY <1>1, OrdersAssumption, SumInt DEF OrdersAssumption
<1> QED BY <1>3, <1>4, <1>5, <1>6

LEMMA ShelfTake ==
  ASSUME IInv, MovesInv, ShelfInv, MaxFaults = 0, Take
  PROVE  ShelfInv'
<1> DEFINE b == Min(Stocked)
           q == Min({job.left, remaining[b]})
           next == [job EXCEPT !.pc = "record", !.batch = b, !.take = q]
<1>1. job # Idle /\ job \in Jobs /\ job.pc = "take"
  BY AtWork DEF Take, Running
<1>2. b \in Batches /\ remaining \in [Batches -> Nat] /\ job.left \in Nat
  BY <1>1, StockedBatch DEF Take, IInv, TypeOK, Jobs
<1>3. q \in Nat
  BY <1>2, MinIsOne
<1>4. remaining' = [remaining EXCEPT ![b] = @ - q] /\ job' = next
  BY NoFault DEF Take
<1>5. next # Idle /\ next.pc = "record" /\ next.batch = b /\ next.take = q
  BY <1>1 DEF Jobs, Idle
<1> HIDE DEF b, q, next
<1>6. \A c \in Batches : Gone(c)' = Gone(c) /\ Gone(c) \in Int
  BY GoneType DEF Gone, Units, Take
<1>7. \A c \in Batches : InHand(c) = 0
  BY <1>1, NoneInHand DEF Handless
<1>8. \A c \in Batches : InHand(c)' = IF c = b THEN q ELSE 0
  BY <1>4, <1>5 DEF InHand
<1>9. \A c \in Batches : remaining'[c] = IF c = b THEN remaining[c] - q ELSE remaining[c]
  BY <1>2, <1>4
<1>10. \A c \in Batches : remaining[c] + Gone(c) + 0 = Initial[c] /\ remaining[c] \in Nat
  BY <1>2, <1>7 DEF ShelfInv
<1>11. \A c \in Batches : remaining'[c] + Gone(c)' + InHand(c)' = Initial[c]
  BY <1>3, <1>6, <1>8, <1>9, <1>10
<1> QED BY <1>4, <1>5, <1>11 DEF ShelfInv

LEMMA ShelfRecord ==
  ASSUME IInv, IInv', MovesInv, ShelfInv, MaxFaults = 0, Record
  PROVE  ShelfInv'
<1> DEFINE b == job.batch
           n == job.take
           o == job.of
<1>1. /\ job # Idle /\ job \in Jobs /\ job.pc = "record" /\ b \in Batches
      /\ n \in Nat /\ o \in Orders
  BY AtWork, JobTypes DEF Record, Running, JobOK
<1>2. /\ moved' = Recorded("reserve", o, b, n)
      /\ job' = [job EXCEPT !.pc = "take", !.left = @ - job.take,
                            !.copy.alloc[job.batch] = job.take]
  BY NoFault DEF Record, Recorded
<1>3. job' # Idle /\ job'.pc = "take" /\ remaining' = remaining
  BY <1>1, <1>2 DEF Jobs, Idle, Record
<1>4. \A c \in Batches : InHand(c) = IF c = b THEN n ELSE 0
  BY <1>1 DEF InHand
<1> HIDE DEF b, n, o
<1>5. \A k \in Kinds, p \in Orders, c \in Batches :
        Units(k, p, c)' = IF k = "reserve" /\ p = o /\ c = b
                          THEN Units(k, p, c) + n ELSE Units(k, p, c)
  <2>1. "reserve" \in Kinds
    BY DEF Kinds
  <2> QED BY <1>1, <1>2, <2>1, OneMoreMade
<1>6. \A c \in Batches : Gone(c)' = IF c # b THEN Gone(c) ELSE Gone(c) + n
  <2>1. "reserve" \in Kinds
    BY DEF Kinds
  <2>2. \A c \in Batches :
           Gone(c)' = IF c # b THEN Gone(c)
                      ELSE CASE "reserve" = "reserve" -> Gone(c) + n
                             [] "reserve" = "release" -> Gone(c) - n
                             [] OTHER -> Gone(c)
    BY <1>1, <1>5, <2>1, GoneChanges
  <2> QED BY <2>2
<1>7. \A c \in Batches : InHand(c)' = 0
  BY <1>3 DEF InHand
<1>8. \A c \in Batches : remaining[c] + Gone(c) + InHand(c) = Initial[c]
                         /\ remaining[c] \in Nat /\ Gone(c) \in Int
  BY GoneType DEF ShelfInv, IInv, TypeOK
<1>9. \A c \in Batches : remaining'[c] + Gone(c)' + InHand(c)' = Initial[c]
  BY <1>1, <1>3, <1>4, <1>6, <1>7, <1>8
<1> QED BY <1>3, <1>9 DEF ShelfInv

LEMMA ShelfGive ==
  ASSUME IInv, MovesInv, ShelfInv, MaxFaults = 0, Give
  PROVE  ShelfInv'
<1> DEFINE b == Min(job.todo)
           n == job.copy.alloc[b]
           next == [job EXCEPT !.pc = "given", !.batch = b]
<1>1. job # Idle /\ job \in Jobs /\ job.pc = "give" /\ job.todo \in SUBSET Batches
  BY AtWork, JobTypes DEF Give, Running
<1>2. b \in Batches
  BY <1>1, MinOfBatches DEF Give
<1>3. n \in Nat /\ remaining \in [Batches -> Nat]
  BY <1>1, <1>2, JobTypes DEF IInv, TypeOK
<1>4. remaining' = [remaining EXCEPT ![b] = @ + n] /\ job' = next
  BY NoFault DEF Give
<1>5. next # Idle /\ next.pc = "given" /\ next.batch = b /\ next.copy.alloc[b] = n
  BY <1>1 DEF Jobs, Idle
<1> HIDE DEF b, n, next
<1>6. \A c \in Batches : Gone(c)' = Gone(c) /\ Gone(c) \in Int
  BY GoneType DEF Gone, Units, Give
<1>7. \A c \in Batches : InHand(c) = 0
  BY <1>1, NoneInHand DEF Handless
<1>8. \A c \in Batches : InHand(c)' = IF c = b THEN 0 - n ELSE 0
  BY <1>4, <1>5 DEF InHand
<1>9. \A c \in Batches : remaining'[c] = IF c = b THEN remaining[c] + n ELSE remaining[c]
  BY <1>3, <1>4
<1>10. \A c \in Batches : remaining[c] + Gone(c) + 0 = Initial[c] /\ remaining[c] \in Nat
  BY <1>3, <1>7 DEF ShelfInv
<1>11. \A c \in Batches : remaining'[c] + Gone(c)' + InHand(c)' = Initial[c]
  BY <1>3, <1>6, <1>8, <1>9, <1>10
<1> QED BY <1>4, <1>5, <1>11 DEF ShelfInv

LEMMA ShelfGiven ==
  ASSUME IInv, IInv', MovesInv, ShelfInv, MaxFaults = 0, Given
  PROVE  ShelfInv'
<1> DEFINE b == job.batch
           n == job.copy.alloc[b]
           o == job.of
<1>1. /\ job # Idle /\ job \in Jobs /\ job.pc = "given" /\ b \in Batches
      /\ n \in Nat /\ o \in Orders
  BY AtWork, JobTypes DEF Given, Running, JobOK
<1>2. /\ moved' = Recorded("release", o, b, n)
      /\ job' = [job EXCEPT !.pc = "give", !.todo = @ \ {job.batch}]
  BY NoFault DEF Given, Recorded
<1>3. job' # Idle /\ job'.pc = "give" /\ remaining' = remaining
  BY <1>1, <1>2 DEF Jobs, Idle, Given
<1>4. \A c \in Batches : InHand(c) = IF c = b THEN 0 - n ELSE 0
  BY <1>1 DEF InHand
<1> HIDE DEF b, n, o
<1>5. \A k \in Kinds, p \in Orders, c \in Batches :
        Units(k, p, c)' = IF k = "release" /\ p = o /\ c = b
                          THEN Units(k, p, c) + n ELSE Units(k, p, c)
  <2>1. "release" \in Kinds
    BY DEF Kinds
  <2> QED BY <1>1, <1>2, <2>1, OneMoreMade
<1>6. \A c \in Batches : Gone(c)' = IF c # b THEN Gone(c) ELSE Gone(c) - n
  <2>1. "release" \in Kinds
    BY DEF Kinds
  <2>2. \A c \in Batches :
           Gone(c)' = IF c # b THEN Gone(c)
                      ELSE CASE "release" = "reserve" -> Gone(c) + n
                             [] "release" = "release" -> Gone(c) - n
                             [] OTHER -> Gone(c)
    BY <1>1, <1>5, <2>1, GoneChanges
  <2> QED BY <2>2
<1>7. \A c \in Batches : InHand(c)' = 0
  BY <1>3 DEF InHand
<1>8. \A c \in Batches : remaining[c] + Gone(c) + InHand(c) = Initial[c]
                         /\ remaining[c] \in Nat /\ Gone(c) \in Int
  BY GoneType DEF ShelfInv, IInv, TypeOK
<1>9. \A c \in Batches : remaining'[c] + Gone(c)' + InHand(c)' = Initial[c]
  BY <1>1, <1>3, <1>4, <1>6, <1>7, <1>8
<1> QED BY <1>3, <1>9 DEF ShelfInv

\* A sale moves no unit off or onto the shelf.
LEMMA ShelfOut ==
  ASSUME IInv, MovesInv, ShelfInv, MaxFaults = 0, Out
  PROVE  ShelfInv'
<1> DEFINE b == Min(job.todo)
           n == job.copy.alloc[b]
           next == [job EXCEPT !.todo = @ \ {b}]
<1>1. job # Idle /\ job \in Jobs /\ job.pc = "out" /\ job.todo \in SUBSET Batches
  BY AtWork, JobTypes DEF Out, Running
<1>2. b \in Batches
  BY <1>1, MinOfBatches DEF Out
<1>3. n \in Nat /\ job.of \in Orders
  BY <1>1, <1>2, JobTypes
<1>4. moved' = Recorded("out", job.of, b, n)
      /\ job' = next /\ remaining' = remaining
  BY NoFault DEF Out, Recorded
<1>5. next # Idle /\ next.pc = "out"
  BY <1>1 DEF Jobs, Idle
<1> HIDE DEF b, n, next
<1>6. \A k \in Kinds, p \in Orders, c \in Batches :
        Units(k, p, c)' = IF k = "out" /\ p = job.of /\ c = b
                          THEN Units(k, p, c) + n ELSE Units(k, p, c)
  <2>1. "out" \in Kinds
    BY DEF Kinds
  <2> QED BY <1>2, <1>3, <1>4, <2>1, OneMoreMade
<1>7. \A p \in Orders, c \in Batches : /\ Units("reserve", p, c)' = Units("reserve", p, c)
                                       /\ Units("release", p, c)' = Units("release", p, c)
  BY <1>6 DEF Kinds
<1>8. Handless(job) /\ Handless(job')
  BY <1>1, <1>4, <1>5 DEF Handless
<1> QED BY <1>4, <1>7, <1>8, ShelfQuiet

LEMMA ShelfRequest ==
  ASSUME ShelfInv, Request
  PROVE  ShelfInv'
<1>1. UNCHANGED stock /\ job = Idle
  BY DEF Request, Reserve, Release, Claim, Abort, Commit, Takes
<1>2. ASSUME NEW c \in Callers, Release(c) PROVE Handless(job')
  BY <1>2 DEF Release, JobFor, Handless
<1>3. ASSUME NEW c \in Reviews, Claim(c) PROVE Handless(job')
  BY <1>3 DEF Claim, JobFor, Handless
<1>4. ASSUME NEW c \in Reviews, Abort(c) \/ Commit(c) PROVE Handless(job')
  BY <1>4 DEF Abort, Commit, JobFor, Handless
<1>5. ASSUME NEW c \in Orders, Reserve(c) PROVE Handless(job')
  BY <1>5 DEF Reserve, JobFor, Handless
<1>6. Handless(job')
  BY <1>2, <1>3, <1>4, <1>5, CallerKinds DEF Request
<1> QED BY <1>1, <1>6, ShelfStill DEF Handless

\* The steps of a job that neither touch a batch nor record a movement.
LEMMA ShelfWriting ==
  ASSUME IInv, ShelfInv, MaxFaults = 0,
         \/ Shortage \/ Allocated \/ Note \/ Freed \/ Sold \/ Save \/ Answer \/ Close \/ Sync
         \/ SweepEnds \/ \E o \in Orders : Expire(o) \/ Void(o)
  PROVE  ShelfInv'
<1>1. ASSUME Shortage \/ Allocated PROVE ShelfInv'
  <2>1. job # Idle /\ job \in Jobs /\ job.pc = "take"
    BY <1>1, AtWork DEF Shortage, Allocated, Running
  <2>2. job'.pc \in {"give", "note"}
    BY <1>1, <2>1 DEF Shortage, Allocated, RolledBack, Jobs
  <2> QED BY <1>1, <2>1, <2>2, ShelfStill DEF Handless, Shortage, Allocated
<1>2. ASSUME Note \/ Save PROVE ShelfInv'
  <2>1. job # Idle /\ job \in Jobs /\ job.pc \in {"note", "save"}
    BY <1>2, AtWork DEF Note, Save, Running
  <2>2. job' = [job EXCEPT !.pc = "answer"]
    BY <1>2, NoFault DEF Note, Save
  <2>3. job'.pc = "answer"
    BY <2>1, <2>2 DEF Jobs
  <2> QED BY <1>2, <2>1, <2>3, ShelfStill DEF Handless, Note, Save
<1>3. ASSUME Freed PROVE ShelfInv'
  <2>1. job # Idle /\ job \in Jobs /\ job.pc = "give"
        /\ job.op \in {"reserve", "release", "abort", "sweep"}
    BY <1>3, AtWork DEF Freed, Running, JobOK, Jobs, Ops
  <2>2. job' = Idle \/ job'.pc \in {"refuse", "answer", "save", "close"}
    BY <1>3, <2>1, ThrownOnward DEF Freed, Jobs
  <2> QED BY <1>3, <2>1, <2>2, ShelfStill DEF Handless, Freed
<1>4. ASSUME Sold PROVE ShelfInv'
  <2>1. job # Idle /\ job \in Jobs /\ job.pc = "out"
    BY <1>4, AtWork DEF Sold, Running
  <2>2. job'.pc = "save"
    BY <1>4, <2>1 DEF Sold, Jobs
  <2> QED BY <1>4, <2>1, <2>2, ShelfStill DEF Handless, Sold
<1>5. ASSUME Answer \/ Close \/ Sync PROVE ShelfInv'
  BY <1>5, ShelfStill DEF Handless, Answer, Close, Sync, Running
<1>6. ASSUME SweepEnds PROVE ShelfInv'
  BY <1>6, ShelfStill DEF SweepEnds
<1>7. ASSUME NEW o \in Orders, Expire(o) \/ Void(o) PROVE ShelfInv'
  <2>1. job = Idle /\ (job' = Idle \/ job'.pc \in {"give", "sync"}) /\ UNCHANGED stock
    BY <1>7 DEF Expire, Void, SweepJob
  <2> QED BY <2>1, ShelfStill DEF Handless
<1> QED BY <1>1, <1>2, <1>3, <1>4, <1>5, <1>6, <1>7

LEMMA ShelfInit == Init => ShelfInv
<1> SUFFICES ASSUME Init PROVE ShelfInv
  OBVIOUS
<1>1. job = Idle /\ \A b \in Batches : InHand(b) = 0
  BY DEF Init, InHand
<1>2. \A b \in Batches : Gone(b) = 0
  <2> SUFFICES ASSUME NEW b \in Batches PROVE Gone(b) = 0
    OBVIOUS
  <2>1. \A o \in Orders : Units("reserve", o, b) - Units("release", o, b) = 0
    BY DEF Init, Units, NoUnits
  <2>2. [o \in Orders |-> Units("reserve", o, b) - Units("release", o, b)]
          = [o \in Orders |-> 0]
    BY <2>1
  <2> QED BY <2>2, SumOfZeros, OrdersAssumption DEF Gone, OrdersAssumption
<1>3. \A b \in Batches : remaining[b] = Initial[b] /\ Initial[b] \in Nat
  BY StockAssumption DEF Init, StockAssumption
<1>4. \A b \in Batches : remaining[b] + Gone(b) + InHand(b) = Initial[b]
  BY <1>1, <1>2, <1>3
<1> QED BY <1>1, <1>4 DEF ShelfInv

LEMMA ShelfStep ==
  ASSUME IInv, IInv', MovesInv, ShelfInv, MaxFaults = 0, [Next]_vars
  PROVE  ShelfInv'
<1>1. CASE Request
  BY <1>1, ShelfRequest
<1>2. CASE JobStep
  <2>1. ~Undo
    BY DEF ShelfInv, Undo, Running
  <2> QED BY <1>2, <2>1, ShelfTake, ShelfRecord, ShelfGive, ShelfGiven, ShelfOut,
             ShelfWriting DEF JobStep
<1>3. CASE Sweep
  BY <1>3, ShelfStill DEF Sweep
<1>4. CASE \/ \E o \in Orders : Place(o) \/ CheckoutStep(o) \/ Tick(o)
           \/ \E v \in Reviews : Preflight(v) \/ ReviewStep(v)
           \/ \E a \in Admins : AdminCancel(a) \/ Cancel(a)
           \/ \E c \in Callers : Evict(c)
  <2>1. UNCHANGED <<stock, work>>
    BY <1>4 DEF Place, CheckoutStep, Pay, Jot, Cancel, Tick, Preflight, ReviewStep, Notify,
       Settle, Confirm, Abandon, AdminCancel, Evict
  <2> QED BY <2>1, ShelfStill DEF work
<1>5. CASE CoordinatorEvicted
  BY <1>5, NoEviction
<1>6. CASE UNCHANGED vars
  BY <1>6, ShelfStill DEF vars, stock
<1> QED BY <1>1, <1>2, <1>3, <1>4, <1>5, <1>6 DEF Next

LEMMA ShelfInvariance ==
  ASSUME MaxFaults = 0
  PROVE  Spec => [](IInv /\ MovesInv /\ ShelfInv)
<1>1. Init => IInv /\ MovesInv /\ ShelfInv
  BY InvInit, MovesInit, ShelfInit
<1>2. IInv /\ MovesInv /\ ShelfInv /\ [Next]_vars => (IInv /\ MovesInv /\ ShelfInv)'
  BY InvStep, MovesStep, ShelfStep
<1> QED BY <1>1, <1>2, PTL DEF Spec

LEMMA LedgerFollows ==
  ASSUME IInv, MovesInv, ShelfInv
  PROVE  LedgerReconciles
<1> SUFFICES ASSUME job = Idle, NEW b \in Batches PROVE remaining[b] = Expected(b)
  BY DEF LedgerReconciles
<1>1. remaining[b] \in Nat /\ Gone(b) \in Int /\ remaining[b] + Gone(b) + 0 = Initial[b]
  BY NoneInHand, GoneType DEF ShelfInv, Handless, IInv, TypeOK
<1>2. ASSUME NEW o \in Orders
      PROVE  Max({0, Units("out", o, b) - Units("reserve", o, b)}) = 0
  <2>1. Units("out", o, b) \in Nat /\ Units("reserve", o, b) \in Nat
        /\ Units("out", o, b) \in {0, Units("reserve", o, b)}
    BY UnitsType DEF Kinds, MovesInv, MovedOnce, Units
  <2>2. PICK d \in Int : d = Units("out", o, b) - Units("reserve", o, b) /\ d <= 0
    BY <2>1
  <2>3. \A y \in {0, d} : 0 >= y
    BY <2>2
  <2>4. \A x \in {0, d} : (\A y \in {0, d} : x >= y) => x = 0
    BY <2>2
  <2> QED BY <2>2, <2>3, <2>4 DEF Max
<1>3. \A o \in Orders : Units("reserve", o, b) \in Nat /\ Units("release", o, b) \in Nat
  BY UnitsType DEF Kinds
<1>4. [o \in Orders |-> Units("reserve", o, b) - Units("release", o, b)
                        + Max({0, Units("out", o, b) - Units("reserve", o, b)})]
        = [o \in Orders |-> Units("reserve", o, b) - Units("release", o, b)]
  BY <1>2, <1>3
<1>5. Expected(b) = Max({0, Initial[b] - Gone(b)})
  BY <1>4 DEF Expected, Gone
<1>6. PICK n \in Nat : n = Initial[b] - Gone(b) /\ n = remaining[b]
  <2>1. Initial[b] \in Nat
    BY StockAssumption DEF StockAssumption
  <2> QED BY <1>1, <2>1
<1>7. \A y \in {0, n} : n >= y
  OBVIOUS
<1>8. \A x \in {0, n} : (\A y \in {0, n} : x >= y) => x = n
  OBVIOUS
<1> QED BY <1>5, <1>6, <1>7, <1>8 DEF Max

\* When no write fails, an inspection of the stock between two jobs finds in every
\* batch exactly the units that the movement records explain, whatever the
\* reviews, the sweep and the admins did with reservations passed by value, and in
\* whatever order.
THEOREM InspectionAgrees ==
  ASSUME MaxFaults = 0
  PROVE  Spec => []LedgerReconciles
<1>1. IInv /\ MovesInv /\ ShelfInv => LedgerReconciles
  BY LedgerFollows
<1> QED BY <1>1, ShelfInvariance, PTL

-----------------------------------------------------------------------------
(* A review and the units it holds, when no write fails and the admins     *)
(* leave the reviewed orders alone; the reviews of an order may overlap.   *)

Apart == MaxFaults = 0 /\ \A a \in Admins : Target[a] \notin Reviewable

InReview(r) == r.state = "payment_review"

\* The job that gives back the units of o because its time was up when a review
\* found against it.
Returning(o) ==
  About(o) /\ job.op = "abort" /\ job.pc \in {"give", "given", "save"}

\* Nobody gives back the units of a reviewed order before its time; and a claim
\* comes before that time.
HeldOK(o) ==
  /\ at[o] \in {"idle", "reserve", "pay", "jot", "placed", "release", "cancel", "failed"}
  /\ o \in due => at[o] \in {"placed", "failed"}
  /\ o \in round.free => o \in due /\ ~InReview(notes[o])
  /\ o \notin Reviewable => ~InReview(notes[o])
  /\ o \in Reviewable =>
       /\ at[o] \in {"pay", "jot"} => Kept(o)
       /\ at[o] = "placed" /\ o \notin due => Kept(o)
       /\ InReview(notes[o]) => at[o] = "placed" /\ (Kept(o) \/ Returning(o))

\* What a job has in hand that it may write down, and what it has left alone.
HoldJobOK ==
  job # Idle =>
    /\ job.op # "sweep" => at[job.by] = job.op /\ round = NoRound
    /\ job.op = "reserve" =>
         /\ job.by \in Orders /\ ~InReview(job.copy)
         /\ job.pc \in {"take", "record", "note", "give", "given", "answer", "refuse"}
         /\ job.pc \in {"take", "record", "note", "answer"} => Kept(job.of)
    /\ job.op = "release" =>
         /\ job.by \in Orders \cup Admins /\ ~InReview(job.copy)
         /\ job.pc \in {"give", "given", "answer", "refuse"}
    /\ job.op = "claim" =>
         /\ job.by \in Reviews /\ job.pc \in {"save", "answer", "refuse"}
         /\ job.pc = "save" => Kept(job.of)
    /\ job.op = "abort" =>
         /\ job.by \in Reviews /\ job.pc \in {"give", "given", "save", "answer", "refuse"}
         /\ job.pc \in {"give", "given"} => job.of \in due
         /\ job.pc = "save" => ~InReview(job.copy)
    /\ job.op = "commit" =>
         /\ job.by \in Reviews /\ job.pc \in {"out", "save", "answer", "refuse"}
         /\ job.pc \in {"save", "answer"} => ~InReview(job.copy)
    /\ job.op = "sweep" =>
         /\ job.pc \in {"give", "given", "close", "sync"}
         /\ job.pc # "sync" => job.of \in due /\ ~InReview(notes[job.of])
         /\ job.pc = "close" => ~InReview(job.copy)

\* A review is of an order that is placed, and confirms with no claim in hand;
\* checkouts and admins never have one.
HoldCallerOK(c) ==
  /\ c \in Orders \cup Admins => ~InReview(copy[c])
  /\ c \in Reviews /\ at[c] # "idle" => at[Target[c]] = "placed"
  /\ c \in Reviews /\ at[c] = "confirm" => ~InReview(copy[c])

HoldInv ==
  /\ HoldJobOK
  /\ \A o \in Orders : HeldOK(o)
  /\ \A c \in Callers : HoldCallerOK(c)

\* A step of one caller c, which moves nothing, gives no job to anybody, and writes no
\* claim into any notes.
LEMMA HoldCaller ==
  ASSUME IInv, HoldInv, UNCHANGED <<moved, due, job, round>>,
         NEW c \in Callers, NEW place, at[c] \notin Ops,
         at' = [at EXCEPT ![c] = place],
         at[c] # "placed", at[c] # "failed",
         c \in Orders => \/ at[c] = "idle" /\ place = "reserve"
                         \/ at[c] = "pay" /\ place \in {"jot", "release"}
                         \/ at[c] = "jot" /\ place = "placed"
                         \/ at[c] = "cancel" /\ place = "failed",
         \A o \in Orders : notes'[o] = notes[o] \/ ~InReview(notes'[o]),
         \A d \in Callers : d # c => copy'[d] = copy[d],
         c \in Orders \cup Admins => ~InReview(copy'[c]),
         c \in Reviews => at[c] # "idle" \/ at[Target[c]] = "placed",
         c \in Reviews /\ place = "confirm" => ~InReview(copy'[c])
  PROVE  HoldInv'
<1>0. /\ at \in [Callers -> PlaceType]
      /\ Orders \subseteq Callers /\ Reviews \subseteq Callers /\ Admins \subseteq Callers
      /\ \A v \in Reviews : Target[v] \in Orders
      /\ Orders \cap Reviews = {} /\ Orders \cap Admins = {} /\ Reviews \cap Admins = {}
  BY CallerKinds, CallersAssumption DEF IInv, TypeOK, CallersAssumption
<1>1. at'[c] = place /\ \A d \in Callers : d # c => at'[d] = at[d]
  BY <1>0
<1>2. \A o \in Orders : (Kept(o)' <=> Kept(o)) /\ (Returning(o)' <=> Returning(o))
  BY DEF Kept, Units, Returning, About
<1>3. ASSUME NEW o \in Orders PROVE HeldOK(o)'
  <2>1. HeldOK(o) /\ o \in Callers
    BY <1>0 DEF HoldInv
  <2>2. InReview(notes'[o]) => InReview(notes[o])
    OBVIOUS
  <2>3. CASE o # c
    <3>1. at'[o] = at[o]
      BY <2>1, <2>3, <1>1
    <3> QED BY <2>1, <2>2, <3>1, <1>2 DEF HeldOK, InReview
  <2>4. CASE o = c
    BY <2>1, <2>2, <2>4, <1>1, <1>2 DEF HeldOK, InReview
  <2> QED BY <2>3, <2>4
<1>4. HoldJobOK'
  <2>1. job # Idle /\ job.op # "sweep" => job.by # c /\ job.by \in Callers
    BY JobTypes DEF HoldInv, HoldJobOK, JobOK, Jobs
  <2>2. job # Idle /\ job.op # "sweep" => at'[job.by] = at[job.by]
    BY <2>1, <1>1
  <2>3. job # Idle => job.of \in Orders
    BY JobTypes
  <2> QED BY <2>2, <2>3, <1>2 DEF HoldInv, HoldJobOK, InReview
<1>5. ASSUME NEW d \in Callers PROVE HoldCallerOK(d)'
  <2>1. HoldCallerOK(d)
    BY DEF HoldInv
  <2>2. ASSUME NEW o \in Orders, at[o] = "placed" PROVE at'[o] = "placed"
    BY <2>2, <1>0, <1>1
  <2>3. CASE d # c
    <3>1. at'[d] = at[d] /\ copy'[d] = copy[d]
      BY <2>3, <1>1
    <3> QED BY <2>1, <2>2, <3>1, <1>0 DEF HoldCallerOK, InReview
  <2>4. CASE d = c
    <3>1. c \in Reviews => at[Target[c]] = "placed"
      BY <2>1, <2>4 DEF HoldCallerOK
    <3> QED BY <2>2, <2>4, <3>1, <1>0, <1>1 DEF HoldCallerOK, InReview
  <2> QED BY <2>3, <2>4
<1> QED BY <1>3, <1>4, <1>5 DEF HoldInv

\* A checkout goes on, or ends; so does a cancellation by an admin.
LEMMA HoldCheckout ==
  ASSUME IInv, HoldInv, MaxFaults = 0, NEW o \in Orders,
         Place(o) \/ Pay(o) \/ Jot(o) \/ Cancel(o)
  PROVE  HoldInv'
<1>1. UNCHANGED <<moved, due, job, round, copy>>
  BY DEF Place, Pay, Jot, Cancel, stock, work
<1>2. o \in Callers /\ OrderFor(o) = o /\ o \notin Reviews
  BY CallerKinds
<1>3. ~InReview(copy[o])
  BY <1>2 DEF HoldInv, HoldCallerOK
<1>4. \A p \in Orders : notes'[p] = notes[p] \/ ~InReview(notes'[p])
  <2>1. notes \in [Orders -> ReservationType]
    BY DEF IInv, TypeOK
  <2>2. notes' = notes \/ notes' = [notes EXCEPT ![o] = copy[o]]
    BY <1>2, NoFault DEF Place, Pay, Jot, Cancel
  <2> QED BY <2>1, <2>2, <1>3
<1>5. PICK place : /\ at' = [at EXCEPT ![o] = place]
                   /\ \/ at[o] = "idle" /\ place = "reserve"
                      \/ at[o] = "pay" /\ place \in {"jot", "release"}
                      \/ at[o] = "jot" /\ place = "placed"
                      \/ at[o] = "cancel" /\ place = "failed"
  BY DEF Place, Pay, Jot, Cancel, Goto
<1>6. at[o] \notin Ops
  BY <1>5 DEF Ops
<1> QED BY <1>1, <1>2, <1>3, <1>4, <1>5, <1>6, HoldCaller

LEMMA HoldAdmin ==
  ASSUME IInv, HoldInv, Apart, NEW a \in Admins, AdminCancel(a) \/ Cancel(a)
  PROVE  HoldInv'
<1>1. UNCHANGED <<moved, due, job, round>>
  BY DEF AdminCancel, Cancel, stock, work
<1>2. /\ a \in Callers /\ a \notin Orders /\ a \notin Reviews
      /\ OrderFor(a) = Target[a] /\ Target[a] \in Orders /\ Target[a] \notin Reviewable
  BY CallersAssumption DEF CallersAssumption, Callers, OrderFor, Apart
<1>3. ~InReview(copy[a]) /\ ~InReview(notes[Target[a]])
  BY <1>2 DEF HoldInv, HoldCallerOK, HeldOK
<1>4. /\ notes \in [Orders -> ReservationType] /\ copy \in [Callers -> ReservationType]
  BY DEF IInv, TypeOK
<1>5. \A p \in Orders : notes'[p] = notes[p] \/ ~InReview(notes'[p])
  <2>1. notes' = notes \/ notes' = [notes EXCEPT ![Target[a]] = copy[a]]
    BY <1>2 DEF AdminCancel, Cancel, records
  <2> QED BY <2>1, <1>3, <1>4
<1>6. /\ \A d \in Callers : d # a => copy'[d] = copy[d]
      /\ ~InReview(copy'[a])
  <2>1. copy' = copy \/ copy' = [copy EXCEPT ![a] = notes[Target[a]]]
    BY <1>2 DEF AdminCancel, Cancel, Keep
  <2> QED BY <2>1, <1>2, <1>3, <1>4
<1>7. (at[a] = "idle" \/ at[a] = "cancel") /\ \E place : at' = [at EXCEPT ![a] = place]
  BY DEF AdminCancel, Cancel, Keep, Goto
<1>8. at[a] \notin Ops
  BY <1>7 DEF Ops
<1> QED BY <1>1, <1>2, <1>5, <1>6, <1>7, <1>8, HoldCaller

LEMMA HoldReview ==
  ASSUME IInv, HoldInv, NEW v \in Reviews, Preflight(v) \/ ReviewStep(v)
  PROVE  HoldInv'
<1> DEFINE o == Target[v]
<1>1. UNCHANGED <<moved, due, job, round>>
  BY DEF Preflight, ReviewStep, Notify, Settle, Confirm, Abandon, stock, work
<1>2. /\ v \in Callers /\ v \notin Orders /\ v \notin Admins
      /\ OrderFor(v) = o /\ o \in Orders
  BY CallersAssumption, CallerKinds DEF CallersAssumption
<1>3. /\ notes \in [Orders -> ReservationType] /\ copy \in [Callers -> ReservationType]
  BY DEF IInv, TypeOK
<1>4. \A p \in Orders : notes'[p] = notes[p] \/ ~InReview(notes'[p])
  <2>1. at[v] = "confirm" => ~InReview(copy[v])
    BY <1>2 DEF HoldInv, HoldCallerOK
  <2>2. notes' = notes \/ (at[v] = "confirm" /\ notes' = [notes EXCEPT ![o] = copy[v]])
    BY DEF Preflight, ReviewStep, Notify, Settle, Confirm, Abandon, records
  <2> QED BY <2>1, <2>2, <1>2, <1>3
<1>5. \A d \in Callers : d # v => copy'[d] = copy[d]
  <2>1. copy' = copy \/ copy' = [copy EXCEPT ![v] = notes[o]]
    BY <1>2 DEF Preflight, ReviewStep, Notify, Settle, Confirm, Abandon, Keep
  <2> QED BY <2>1, <1>2, <1>3
<1>6. PICK place : /\ at' = [at EXCEPT ![v] = place]
                   /\ place = "confirm" =>
                        copy' = [copy EXCEPT ![v] = notes[o]] /\ ~InReview(notes[o])
  <2>1. CASE Preflight(v)
    <3> DEFINE p == CASE o \in paid -> "notify"
                      [] o \notin paid /\ Ended(o) -> "done"
                      [] OTHER -> IF notes[o].state \in {"none", "committed"}
                                  THEN "notify" ELSE "claim"
    <3>1. at' = [at EXCEPT ![v] = p]
      BY <2>1 DEF Preflight, Keep, Goto
    <3>2. p # "confirm"
      OBVIOUS
    <3> HIDE DEF p
    <3> QED BY <3>1, <3>2
  <2>2. CASE Settle(v)
    <3> DEFINE now == notes[o].state
               p == CASE now \in {"reserved", "payment_review"} -> "commit"
                      [] now \in {"none", "committed"} -> "confirm"
                      [] OTHER -> "done"
    <3>1. at' = [at EXCEPT ![v] = p] /\ copy' = [copy EXCEPT ![v] = notes[o]]
      BY <2>2, <1>2 DEF Settle, Keep, Goto
    <3>2. p = "confirm" => ~InReview(notes[o])
      BY DEF InReview
    <3> HIDE DEF p
    <3> QED BY <3>1, <3>2
  <2>3. CASE Notify(v) \/ Confirm(v) \/ Abandon(v)
    BY <2>3, <1>2 DEF Notify, Confirm, Abandon, Keep, Goto
  <2> QED BY <2>1, <2>2, <2>3 DEF ReviewStep
<1>7. place = "confirm" => ~InReview(copy'[v])
  BY <1>2, <1>3, <1>6
<1>8. /\ at[v] \in {"idle", "notify", "settle", "confirm", "abandon"}
      /\ at[v] = "idle" => at[o] = "placed"
  BY DEF Preflight, ReviewStep, Notify, Settle, Confirm, Abandon
<1>9. at[v] \notin Ops
  BY <1>8 DEF Ops
<1> QED BY <1>1, <1>2, <1>4, <1>5, <1>6, <1>7, <1>8, <1>9, HoldCaller

LEMMA HoldTick ==
  ASSUME IInv, HoldInv, NEW o \in Orders, Tick(o)
  PROVE  HoldInv'
<1>1. UNCHANGED <<moved, notes, job, round, at, copy>>
  BY DEF Tick, stock, records, work, callers
<1>2. due' = due \cup {o} /\ at[o] \in {"placed", "failed", "done"}
  BY DEF Tick
<1>3. ASSUME NEW p \in Orders PROVE HeldOK(p)'
  <2>1. HeldOK(p) /\ HeldOK(o)
    BY DEF HoldInv
  <2>2. (Kept(p)' <=> Kept(p)) /\ (Returning(p)' <=> Returning(p))
    BY <1>1 DEF Kept, Units, Returning, About
  <2> QED BY <2>1, <2>2, <1>1, <1>2 DEF HeldOK
<1>4. HoldJobOK'
  <2>1. job # Idle => (Kept(job.of)' <=> Kept(job.of))
    BY <1>1 DEF Kept, Units
  <2> QED BY <2>1, <1>1, <1>2 DEF HoldInv, HoldJobOK
<1>5. \A c \in Callers : HoldCallerOK(c)'
  BY <1>1 DEF HoldInv, HoldCallerOK
<1> QED BY <1>3, <1>4, <1>5 DEF HoldInv

-----------------------------------------------------------------------------
(* The same, of the coordinator.                                           *)

\* What a step of the coordinator does to the order it is about is for each to
\* say; the other orders and the callers stay as they are.
LEMMA HoldWork ==
  ASSUME IInv, HoldInv, UNCHANGED <<at, copy, due>>, NEW o \in Orders,
         About(o) \/ job = Idle,
         job' = Idle \/ job'.of = o,
         round'.free \subseteq round.free,
         \A p \in Orders \ {o} : /\ notes'[p] = notes[p]
                                 /\ \A b \in Batches : Units("release", p, b)'
                                                         = Units("release", p, b),
         HeldOK(o)', HoldJobOK'
  PROVE  HoldInv'
<1>1. ASSUME NEW p \in Orders, p # o PROVE HeldOK(p)'
  <2>1. HeldOK(p)
    BY DEF HoldInv
  <2>2. Kept(p)' <=> Kept(p)
    BY <1>1 DEF Kept
  <2>3. ~Returning(p)
    BY <1>1 DEF Returning, About
  <2>4. notes'[p] = notes[p]
    BY <1>1
  <2>5. /\ InReview(notes[p])' <=> InReview(notes[p])
        /\ p \in round'.free => p \in round.free
    BY <2>4 DEF InReview
  <2> QED BY <2>1, <2>2, <2>3, <2>5 DEF HeldOK
<1>2. \A c \in Callers : HoldCallerOK(c)'
  BY DEF HoldInv, HoldCallerOK, InReview
<1> QED BY <1>1, <1>2 DEF HoldInv

\* The coordinator takes up a request.
LEMMA HoldTaken ==
  ASSUME IInv, HoldInv, NEW op \in Ops, NEW c \in Callers, Takes(op, c),
         job' # Idle, job'.op = op, job'.by = c, job'.of = OrderFor(c),
         HoldJobOK'
  PROVE  HoldInv'
<1>1. UNCHANGED <<at, copy, due, moved, notes, round>> /\ job = Idle
  BY DEF Takes, stock, records, callers
<1>2. OrderFor(c) \in Orders
  BY OrderOfCaller
<1>3. \A o \in Orders : Kept(o)' <=> Kept(o)
  BY <1>1 DEF Kept, Units
<1>4. \A o \in Orders : ~Returning(o)
  BY <1>1 DEF Returning, About
<1>5. ASSUME NEW o \in Orders PROVE HeldOK(o)'
  BY <1>1, <1>3, <1>4 DEF HoldInv, HeldOK, InReview
<1>6. \A d \in Callers : HoldCallerOK(d)'
  BY <1>1 DEF HoldInv, HoldCallerOK, InReview
<1> QED BY <1>5, <1>6 DEF HoldInv

LEMMA HoldReserve ==
  ASSUME IInv, MovesInv, HoldInv, NEW o \in Orders, Reserve(o)
  PROVE  HoldInv'
<1>1. o \in Callers /\ OrderFor(o) = o /\ o \in Orders
  BY CallerKinds
<1>2. Takes("reserve", o) /\ UNCHANGED <<moved, at, round>> /\ at[o] = "reserve"
      /\ round = NoRound /\ job = Idle
  BY DEF Reserve, Takes, stock, callers
<1>3. job' = [JobFor("reserve", o, [NoReservation EXCEPT !.state = "reserved"], "take", {})
                EXCEPT !.left = Need[o]]
  BY <1>1 DEF Reserve
<1>4. /\ job' # Idle /\ job'.op = "reserve" /\ job'.by = o /\ job'.of = o
      /\ job'.pc = "take" /\ job'.copy.state = "reserved"
  BY <1>1, <1>3 DEF JobFor, Idle, NoReservation
<1>5. Kept(o)
  BY <1>2, UnitsType DEF MovesInv, NothingYet, Asking, Kept, Kinds
<1>6. Kept(o)'
  BY <1>2, <1>5 DEF Kept, Units
<1>7. HoldJobOK'
  BY <1>2, <1>4, <1>6 DEF HoldJobOK, InReview
<1> QED BY <1>1, <1>2, <1>4, <1>7, HoldTaken DEF Ops

LEMMA HoldRelease ==
  ASSUME IInv, HoldInv, NEW c \in Orders \cup Admins, Release(c)
  PROVE  HoldInv'
<1>1. c \in Callers
  BY CallerKinds
<1>2. Takes("release", c) /\ UNCHANGED <<at, round>> /\ at[c] = "release" /\ round = NoRound
  BY DEF Release, Takes, callers
<1>3. ~InReview(copy[c])
  BY <1>1 DEF HoldInv, HoldCallerOK
<1>4. \E pc \in {"give", "answer", "refuse"}, todo \in SUBSET Batches :
        job' = JobFor("release", c, copy[c], pc, todo)
  BY UnmovedIsBatches DEF Release
<1>5. /\ job' # Idle /\ job'.op = "release" /\ job'.by = c /\ job'.of = OrderFor(c)
      /\ job'.pc \in {"give", "answer", "refuse"} /\ job'.copy = copy[c]
  BY <1>4 DEF JobFor, Idle
<1>6. HoldJobOK'
  BY <1>2, <1>3, <1>5 DEF HoldJobOK, InReview
<1> QED BY <1>1, <1>2, <1>5, <1>6, HoldTaken DEF Ops

\* A review that waits is of an order that is placed.
LEMMA WaitingReview ==
  ASSUME HoldInv, NEW v \in Reviews, NEW op \in Ops, Takes(op, v)
  PROVE  /\ v \in Callers /\ OrderFor(v) = Target[v] /\ Target[v] \in Orders
         /\ Target[v] \in Reviewable
         /\ at[Target[v]] = "placed" /\ HeldOK(Target[v])
         /\ UNCHANGED <<at, round, due, moved, notes>> /\ at[v] = op /\ round = NoRound
<1>1. v \in Callers /\ OrderFor(v) = Target[v] /\ Target[v] \in Orders
  BY CallerKinds
<1>2. UNCHANGED <<at, round, due, moved, notes>> /\ at[v] = op /\ round = NoRound
  BY DEF Takes, callers, stock, records
<1> QED BY <1>1, <1>2 DEF HoldInv, HoldCallerOK, Reviewable, Ops

LEMMA HoldClaim ==
  ASSUME IInv, HoldInv, NEW v \in Reviews, Claim(v)
  PROVE  HoldInv'
<1> DEFINE o == Target[v]
           r == copy[v]
           claimed == [r EXCEPT !.state = "payment_review", !.key = KeyOf[v]]
<1>1. Takes("claim", v) /\ "claim" \in Ops
  BY DEF Claim, Ops
<1>2. \/ \E pc \in {"answer", "refuse"} : job' = JobFor("claim", v, r, pc, {})
      \/ OrderFor(v) \notin due /\ job' = JobFor("claim", v, claimed, "save", {})
  BY DEF Claim
<1>3. /\ job' # Idle /\ job'.op = "claim" /\ job'.by = v /\ job'.of = OrderFor(v)
      /\ job'.pc \in {"answer", "refuse", "save"}
      /\ job'.pc = "save" => OrderFor(v) \notin due
  BY <1>2 DEF JobFor, Idle
<1>4. o \notin due => Kept(o)'
  <2>1. o \notin due => Kept(o)
    BY <1>1, WaitingReview DEF HeldOK
  <2> QED BY <2>1, <1>1, WaitingReview DEF Kept, Units
<1>5. HoldJobOK'
  BY <1>1, <1>3, <1>4, WaitingReview DEF HoldJobOK
<1> QED BY <1>1, <1>3, <1>5, WaitingReview, HoldTaken

LEMMA HoldAbort ==
  ASSUME IInv, HoldInv, NEW v \in Reviews, Abort(v)
  PROVE  HoldInv'
<1> DEFINE r == copy[v]
           open == [r EXCEPT !.state = "reserved", !.key = NoKey]
           lapsed == [r EXCEPT !.state = "reserved"]
           todo == Unmoved("release", OrderFor(v), r)
<1>1. Takes("abort", v) /\ "abort" \in Ops
  BY DEF Abort, Ops
<1>2. \/ \E pc \in {"answer", "refuse"} : job' = JobFor("abort", v, r, pc, {})
      \/ OrderFor(v) \in due /\ job' = JobFor("abort", v, lapsed, "give", todo)
      \/ job' = JobFor("abort", v, open, "save", {})
  BY DEF Abort
<1>3. r \in ReservationType
  BY <1>1, WaitingReview, CopyType
<1>4. open.state = "reserved"
  BY <1>3 DEF ReservationType
<1>5. /\ job' # Idle /\ job'.op = "abort" /\ job'.by = v /\ job'.of = OrderFor(v)
      /\ job'.pc \in {"answer", "refuse", "give", "save"}
      /\ job'.pc = "give" => OrderFor(v) \in due
      /\ job'.pc = "save" => job'.copy.state = "reserved"
  <2> HIDE DEF open, lapsed, todo
  <2> QED BY <1>2, <1>4 DEF JobFor, Idle
<1>6. HoldJobOK'
  BY <1>1, <1>5, WaitingReview DEF HoldJobOK, InReview
<1> QED BY <1>1, <1>5, <1>6, WaitingReview, HoldTaken

LEMMA HoldCommit ==
  ASSUME IInv, HoldInv, NEW v \in Reviews, Commit(v)
  PROVE  HoldInv'
<1> DEFINE r == copy[v]
           todo == Unmoved("out", OrderFor(v), r)
<1>1. Takes("commit", v) /\ "commit" \in Ops
  BY DEF Commit, Ops
<1>2. \/ job' = JobFor("commit", v, r, "out", todo)
      \/ job' = JobFor("commit", v, r, "refuse", {})
      \/ r.state = "committed" /\ job' = JobFor("commit", v, r, "answer", {})
  BY DEF Commit
<1>3. /\ job' # Idle /\ job'.op = "commit" /\ job'.by = v /\ job'.of = OrderFor(v)
      /\ job'.pc \in {"answer", "refuse", "out"}
      /\ job'.pc = "answer" => job'.copy.state = "committed"
  <2> HIDE DEF todo
  <2> QED BY <1>2 DEF JobFor, Idle
<1>4. HoldJobOK'
  BY <1>1, <1>3, WaitingReview DEF HoldJobOK, InReview
<1> QED BY <1>1, <1>3, <1>4, WaitingReview, HoldTaken

\* A job goes on within its order and gives back nothing just now.
LEMMA HoldGoesOn ==
  ASSUME IInv, HoldInv, job # Idle, UNCHANGED <<at, copy, due, notes, round>>,
         job' # Idle, job'.op = job.op, job'.by = job.by, job'.of = job.of,
         \A p \in Orders, b \in Batches : Units("release", p, b)' = Units("release", p, b),
         job.op = "abort" /\ job.pc \in {"give", "given", "save"} =>
            job'.pc \in {"give", "given", "save"},
         HoldJobOK'
  PROVE  HoldInv'
<1>0. PICK o \in Orders : o = job.of
  BY JobTypes
<1>1. About(o)
  BY <1>0 DEF About
<1>2. HeldOK(o)
  BY <1>1 DEF HoldInv
<1>3. (Kept(o)' <=> Kept(o)) /\ (Returning(o) => Returning(o)')
  BY <1>0 DEF Kept, Returning, About
<1>4. HeldOK(o)'
  BY <1>2, <1>3 DEF HeldOK, InReview
<1>5. job'.of = o /\ round'.free \subseteq round.free /\ notes' = notes
  BY <1>0
<1> QED BY <1>1, <1>4, <1>5, HoldWork

LEMMA HoldJobParts ==
  ASSUME IInv, HoldInv, NEW pc, Running(pc)
  PROVE  /\ job # Idle /\ job \in Jobs /\ job.pc = pc /\ job.of \in Orders
         /\ job.op \in Ops \cup {"sweep"} /\ job.copy \in ReservationType
         /\ job.op # "sweep" => job.by \in Callers /\ job.of = OrderFor(job.by)
         /\ pc \in {"take", "record", "undo", "note"} => job.op = "reserve"
         /\ HoldJobOK /\ HeldOK(job.of)
BY JobTypes DEF HoldInv, JobOK, Jobs, Running

LEMMA HoldReserving ==
  ASSUME IInv, HoldInv, MaxFaults = 0, Take \/ Record \/ Shortage \/ Allocated
  PROVE  HoldInv'
<1>1. /\ job # Idle /\ job \in Jobs /\ job.op = "reserve" /\ job.of \in Orders
      /\ job.pc \in {"take", "record"} /\ job.copy \in ReservationType /\ HoldJobOK
  BY HoldJobParts DEF Take, Record, Shortage, Allocated
<1>2. /\ UNCHANGED <<at, copy, due, notes, round>>
      /\ \A p \in Orders, b \in Batches : Units("release", p, b)' = Units("release", p, b)
  <2>1. moved' = moved \/ \E n : moved' = [moved EXCEPT !["reserve"][job.of][job.batch] = n]
    BY DEF Take, Record, Shortage, Allocated, stock
  <2>2. moved \in [Kinds -> [Orders -> [Batches -> Nat]]]
    BY UnitsType
  <2>3. moved'["release"] = moved["release"]
    BY <2>1, <2>2 DEF Kinds
  <2> QED BY <2>3 DEF Take, Record, Shortage, Allocated, records, callers, Units
<1>3. /\ job' # Idle /\ job'.op = "reserve" /\ job'.by = job.by /\ job'.of = job.of
      /\ job'.copy.state = job.copy.state
      /\ job'.pc \in {"take", "record", "note", "give"}
  <2>1. CASE Take
    <3>1. \E b, q : job' = [job EXCEPT !.pc = "record", !.batch = b, !.take = q]
      BY <2>1, NoFault DEF Take
    <3> QED BY <3>1, <1>1, IdleIsNoJob DEF Jobs, Idle
  <2>2. CASE Record
    <3>1. job' = [job EXCEPT !.pc = "take", !.left = @ - job.take,
                             !.copy.alloc[job.batch] = job.take]
      BY <2>2, NoFault DEF Record
    <3>2. /\ job' # Idle /\ job'.op = job.op /\ job'.by = job.by /\ job'.of = job.of
          /\ job'.pc = "take"
          /\ job'.copy = [job.copy EXCEPT !.alloc[job.batch] = job.take]
      BY <3>1, <1>1 DEF Jobs, Idle
    <3> QED BY <3>2, <1>1 DEF ReservationType
  <2>3. CASE Shortage
    BY <2>3, <1>1 DEF Shortage, RolledBack, Jobs, Idle
  <2>4. CASE Allocated
    BY <2>4, <1>1 DEF Allocated, Jobs, Idle
  <2> QED BY <2>1, <2>2, <2>3, <2>4
<1>4. Kept(job.of)' <=> Kept(job.of)
  BY <1>1, <1>2, <1>3 DEF Kept
<1>5. HoldJobOK'
  BY <1>1, <1>2, <1>3, <1>4 DEF HoldJobOK, InReview
<1> QED BY <1>1, <1>2, <1>3, <1>5, HoldGoesOn

LEMMA HoldGive ==
  ASSUME IInv, HoldInv, MaxFaults = 0, Give \/ Freed
  PROVE  HoldInv'
<1>1. /\ job # Idle /\ job \in Jobs /\ job.of \in Orders /\ job.pc = "give"
      /\ job.copy \in ReservationType /\ HoldJobOK /\ job.op \in Ops \cup {"sweep"}
  BY HoldJobParts DEF Give, Freed
<1>2. /\ UNCHANGED <<at, copy, due, notes, round>>
      /\ \A p \in Orders, b \in Batches : Units("release", p, b)' = Units("release", p, b)
  BY DEF Give, Freed, stock, records, callers, Units
<1>3. job.op \in {"reserve", "release", "abort", "sweep"}
  BY <1>1 DEF HoldJobOK, Ops
<1>4. /\ job' # Idle /\ job'.op = job.op /\ job'.by = job.by /\ job'.of = job.of
      /\ \/ job'.copy = job.copy /\ job'.pc = "given"
         \/ job.op = "reserve" /\ job'.copy = job.copy /\ job'.pc = "refuse"
         \/ job.op = "release" /\ job'.copy.state = "released" /\ job'.pc = "answer"
         \/ job.op = "abort" /\ job'.copy.state = "expired" /\ job'.pc = "save"
         \/ job.op = "sweep" /\ job'.copy.state = "expired" /\ job'.pc = "close"
  <2>1. CASE Give
    <3>1. \E b : job' = [job EXCEPT !.pc = "given", !.batch = b]
      BY <2>1, NoFault DEF Give
    <3> QED BY <3>1, <1>1 DEF Jobs, Idle
  <2>2. CASE Freed
    <3>1. CASE job.op = "reserve"
      BY <2>2, <3>1, <1>1 DEF Freed, Thrown, Jobs, Idle
    <3>2. CASE job.op = "release"
      <4>1. job' = [job EXCEPT !.pc = "answer", !.copy.state = "released"]
        BY <2>2, <3>2 DEF Freed
      <4> QED BY <3>2, <4>1, <1>1 DEF Jobs, Idle, ReservationType
    <3>3. CASE job.op = "abort"
      <4>1. job' = [job EXCEPT !.pc = "save", !.copy.state = "expired"]
        BY <2>2, <3>3 DEF Freed
      <4> QED BY <3>3, <4>1, <1>1 DEF Jobs, Idle, ReservationType
    <3>4. CASE job.op = "sweep"
      <4>1. job' = [job EXCEPT !.pc = "close", !.copy.state = "expired"]
        BY <2>2, <3>4 DEF Freed
      <4> QED BY <3>4, <4>1, <1>1 DEF Jobs, Idle, ReservationType
    <3> QED BY <1>3, <3>1, <3>2, <3>3, <3>4
  <2> QED BY <2>1, <2>2
<1>5. HoldJobOK'
  <2>1. InReview(notes[job.of])' <=> InReview(notes[job.of])
    BY <1>2, <1>4 DEF InReview
  <2> QED BY <1>1, <1>2, <1>3, <1>4, <2>1 DEF HoldJobOK, InReview
<1> QED BY <1>1, <1>2, <1>4, <1>5, HoldGoesOn

LEMMA HoldOut ==
  ASSUME IInv, HoldInv, MaxFaults = 0, Out \/ Sold
  PROVE  HoldInv'
<1>1. /\ job # Idle /\ job \in Jobs /\ job.of \in Orders /\ job.pc = "out"
      /\ job.copy \in ReservationType /\ HoldJobOK /\ job.op \in Ops \cup {"sweep"}
  BY HoldJobParts DEF Out, Sold
<1>2. /\ UNCHANGED <<at, copy, due, notes, round>>
      /\ \A p \in Orders, b \in Batches : Units("release", p, b)' = Units("release", p, b)
  <2>1. moved' = moved \/ \E b, n : moved' = [moved EXCEPT !["out"][job.of][b] = n]
    BY DEF Out, Sold, stock
  <2>2. moved \in [Kinds -> [Orders -> [Batches -> Nat]]]
    BY UnitsType
  <2>3. moved'["release"] = moved["release"]
    BY <2>1, <2>2 DEF Kinds
  <2> QED BY <2>3 DEF Out, Sold, records, callers, Units
<1>3. job.op = "commit"
  BY <1>1 DEF HoldJobOK, Ops
<1>4. /\ job' # Idle /\ job'.op = job.op /\ job'.by = job.by /\ job'.of = job.of
      /\ \/ job'.copy = job.copy /\ job'.pc = "out"
         \/ job'.copy.state = "committed" /\ job'.pc = "save"
  <2>1. CASE Out
    <3>1. \E todo : job' = [job EXCEPT !.todo = todo]
      BY <2>1, NoFault DEF Out
    <3> QED BY <3>1, <1>1 DEF Jobs, Idle
  <2>2. CASE Sold
    <3>1. job' = [job EXCEPT !.pc = "save", !.copy.state = "committed"]
      BY <2>2 DEF Sold
    <3> QED BY <3>1, <1>1 DEF Jobs, Idle, ReservationType
  <2> QED BY <2>1, <2>2
<1>5. HoldJobOK'
  BY <1>1, <1>2, <1>3, <1>4 DEF HoldJobOK, InReview
<1> QED BY <1>1, <1>2, <1>3, <1>4, <1>5, HoldGoesOn

\* A movement that gives back: of an order that is not reviewed, or whose time is up.
LEMMA HoldGiven ==
  ASSUME IInv, HoldInv, Apart, Given
  PROVE  HoldInv'
<1>0. PICK o \in Orders : o = job.of
  BY HoldJobParts DEF Given
<1>1. /\ job # Idle /\ job \in Jobs /\ job.pc = "given"
      /\ job.copy \in ReservationType /\ HoldJobOK /\ HeldOK(o)
      /\ job.op \in Ops \cup {"sweep"}
      /\ job.op # "sweep" => job.by \in Callers /\ o = OrderFor(job.by)
  BY <1>0, HoldJobParts DEF Given
<1>2. UNCHANGED <<at, copy, due, notes, round>>
  BY DEF Given, records, callers
<1>3. job' = [job EXCEPT !.pc = "give", !.todo = @ \ {job.batch}]
  BY NoFault DEF Given, Apart
<1>4. \A p \in Orders \ {o}, b \in Batches : Units("release", p, b)' = Units("release", p, b)
  <2>1. moved' = moved \/ \E n : moved' = [moved EXCEPT !["release"][o][job.batch] = n]
    BY <1>0 DEF Given
  <2>2. moved \in [Kinds -> [Orders -> [Batches -> Nat]]]
    BY UnitsType
  <2>3. \A p \in Orders \ {o} : moved'["release"][p] = moved["release"][p]
    BY <2>1, <2>2, <1>1 DEF Kinds
  <2> QED BY <2>3 DEF Units
<1>5. /\ job' # Idle /\ job'.op = job.op /\ job'.by = job.by /\ job'.of = o
      /\ job'.copy = job.copy /\ job'.pc = "give"
  BY <1>0, <1>1, <1>3 DEF Jobs, Idle
<1>6. job.op \in {"reserve", "release", "abort", "sweep"}
  BY <1>1 DEF HoldJobOK, Ops
<1>7. HoldJobOK'
  <2>1. InReview(notes[job.of])' <=> InReview(notes[job.of])
    BY <1>0, <1>2, <1>5 DEF InReview
  <2> QED BY <1>0, <1>1, <1>2, <1>5, <1>6, <2>1 DEF HoldJobOK, InReview
<1>8. \/ o \in due
      \/ at[o] \in {"reserve", "release"}
      \/ o \notin Reviewable
  <2>1. CASE job.op \in {"abort", "sweep"}
    BY <2>1, <1>0, <1>1 DEF HoldJobOK
  <2>2. CASE job.op \in {"reserve", "release"} /\ job.by \in Orders
    <3>1. o = job.by /\ at[job.by] = job.op
      BY <2>2, <1>1, CallerKinds DEF HoldJobOK
    <3> QED BY <2>2, <3>1
  <2>3. CASE job.op = "release" /\ job.by \in Admins
    <3>1. o = Target[job.by]
      BY <2>3, <1>1, CallersAssumption DEF OrderFor, CallersAssumption
    <3> QED BY <2>3, <3>1 DEF Apart
  <2> QED BY <1>1, <1>6, <2>1, <2>2, <2>3 DEF HoldJobOK
<1>9. InReview(notes[o]) => job.op = "abort"
  <2>1. InReview(notes[o]) => at[o] = "placed" /\ o \in Reviewable
    BY <1>1 DEF HeldOK
  <2>2. ASSUME job.op \in {"reserve", "release"}, at[o] = "placed", o \in Reviewable PROVE FALSE
    <3>1. (o = job.by /\ at[job.by] = job.op) \/ o \notin Reviewable
      <4>1. CASE job.by \in Orders
        BY <2>2, <4>1, <1>1, CallerKinds DEF HoldJobOK
      <4>2. CASE job.by \in Admins
        BY <2>2, <4>2, <1>1, CallersAssumption DEF OrderFor, CallersAssumption, Apart
      <4> QED BY <2>2, <4>1, <4>2, <1>1 DEF HoldJobOK
    <3> QED BY <2>2, <3>1
  <2>3. job.op = "sweep" => ~InReview(notes[o])
    BY <1>0, <1>1 DEF HoldJobOK
  <2> QED BY <1>6, <2>1, <2>2, <2>3
<1>10. InReview(notes[o]) => Returning(o)'
  BY <1>5, <1>9 DEF Returning, About
<1>11. HeldOK(o)'
  BY <1>1, <1>2, <1>8, <1>10 DEF HeldOK, InReview
<1>12. About(o) /\ round'.free \subseteq round.free
  BY <1>0, <1>1, <1>2 DEF About
<1>13. \A p \in Orders \ {o} : notes'[p] = notes[p]
  BY <1>2
<1> QED BY <1>2, <1>4, <1>5, <1>7, <1>11, <1>12, <1>13, HoldWork

\* The reservation is written down: a claim, of an order whose time is not up, or
\* none.
LEMMA HoldSave ==
  ASSUME IInv, HoldInv, MaxFaults = 0, Note \/ Save
  PROVE  HoldInv'
<1>0. PICK o \in Orders : o = job.of
  BY HoldJobParts DEF Note, Save
<1>1. /\ job # Idle /\ job \in Jobs /\ job.pc \in {"note", "save"}
      /\ HoldJobOK /\ HeldOK(o)
      /\ job.op \in Ops \cup {"sweep"}
      /\ job.pc = "note" => job.op = "reserve"
      /\ job.op # "sweep" => job.by \in Callers /\ o = OrderFor(job.by)
  BY <1>0, HoldJobParts DEF Note, Save
<1>2. /\ UNCHANGED <<at, copy, due, round, moved>>
      /\ notes' = [notes EXCEPT ![o] = job.copy]
      /\ job' = [job EXCEPT !.pc = "answer"]
  BY <1>0, NoFault DEF Note, Save, stock, callers
<1>3. notes'[o] = job.copy /\ \A p \in Orders \ {o} : notes'[p] = notes[p]
  BY <1>2 DEF IInv, TypeOK
<1>4. /\ job' # Idle /\ job'.op = job.op /\ job'.by = job.by /\ job'.of = o
      /\ job'.copy = job.copy /\ job'.pc = "answer"
  BY <1>0, <1>1, <1>2 DEF Jobs, Idle
<1>5. /\ job.op \in {"reserve", "claim", "abort", "commit"}
      /\ job.op = "reserve" => job.pc = "note"
      /\ job.op # "reserve" => job.pc = "save"
  BY <1>1 DEF HoldJobOK, Ops
<1>6. Kept(o)' <=> Kept(o)
  BY <1>2 DEF Kept, Units
<1>7. round = NoRound
  BY <1>1, <1>5 DEF HoldJobOK
<1>8. InReview(job.copy) => Kept(o) /\ o \in Reviewable /\ at[o] = "placed"
  <2>1. ASSUME job.op = "claim" PROVE Kept(o) /\ o \in Reviewable /\ at[o] = "placed"
    <3>1. Kept(o) /\ job.by \in Reviews /\ at[job.by] = "claim"
      BY <2>1, <1>0, <1>1, <1>5 DEF HoldJobOK
    <3>2. o = Target[job.by] /\ job.by \in Callers
      BY <2>1, <3>1, <1>1, CallerKinds
    <3> QED BY <3>1, <3>2 DEF HoldInv, HoldCallerOK, Reviewable
  <2>2. ASSUME job.op # "claim" PROVE ~InReview(job.copy)
    BY <2>2, <1>1, <1>5 DEF HoldJobOK
  <2> QED BY <2>1, <2>2
<1>9. HeldOK(o)'
  <2>1. o \notin round'.free
    BY <1>2, <1>7 DEF NoRound
  <2>2. InReview(notes[o])' <=> InReview(job.copy)
    BY <1>3 DEF InReview
  <2> QED BY <1>1, <1>2, <1>6, <1>8, <2>1, <2>2 DEF HeldOK
<1>10. HoldJobOK'
  BY <1>0, <1>1, <1>2, <1>4, <1>5, <1>6 DEF HoldJobOK, InReview
<1>11. /\ About(o) /\ round'.free \subseteq round.free
       /\ \A p \in Orders, b \in Batches : Units("release", p, b)' = Units("release", p, b)
  BY <1>0, <1>1, <1>2 DEF About, Units
<1> QED BY <1>2, <1>3, <1>4, <1>9, <1>10, <1>11, HoldWork

\* Once a job has its answer, nothing is being given back.
LEMMA HoldAnswer ==
  ASSUME IInv, HoldInv, MaxFaults = 0, Answer
  PROVE  HoldInv'
<1>0. PICK c : c = job.by
  OBVIOUS
<1>1. /\ job # Idle /\ job \in Jobs /\ HoldJobOK /\ job.pc \in {"answer", "refuse"}
      /\ job.op \in Ops \cup {"sweep"} /\ JobOK(moved["reserve"], job)
  BY JobTypes DEF Answer, HoldInv, Jobs
<1>2. job.op \in Ops /\ c \in Callers /\ at[c] = job.op /\ round = NoRound
  BY <1>0, <1>1 DEF HoldJobOK, JobOK
<1>3. PICK place : /\ at' = [at EXCEPT ![c] = place]
                   /\ place = IF job.pc = "answer" THEN OnAnswer[job.op] ELSE OnFailure(c)
  BY <1>0, <1>1, <1>2, NoFault DEF Answer
<1>4. /\ UNCHANGED <<moved, notes, due, round>> /\ job' = Idle
      /\ copy' = IF job.pc = "answer" THEN [copy EXCEPT ![c] = job.copy] ELSE copy
  BY <1>0, <1>1, <1>2, NoFault DEF Answer, stock, records
<1>5. /\ at \in [Callers -> PlaceType] /\ copy \in [Callers -> ReservationType]
      /\ Orders \subseteq Callers /\ Orders \cap Reviews = {} /\ Orders \cap Admins = {}
      /\ Reviews \cap Admins = {}
      /\ \A v \in Reviews : Target[v] \in Orders
  BY CallerKinds, CallersAssumption DEF IInv, TypeOK, CallersAssumption
<1>6. /\ at'[c] = place
      /\ copy'[c] = IF job.pc = "answer" THEN job.copy ELSE copy[c]
      /\ \A d \in Callers : d # c => at'[d] = at[d] /\ copy'[d] = copy[d]
  BY <1>2, <1>3, <1>4, <1>5
<1>7. /\ job.op \in {"claim", "abort", "commit"} => c \in Reviews
      /\ job.op = "reserve" => c \in Orders /\ job.of = c
      /\ job.op = "release" => c \in Orders \cup Admins
  <2>1. job.op = "reserve" => c \in Orders /\ job.of = OrderFor(c)
    BY <1>0, <1>1 DEF HoldJobOK, JobOK
  <2> QED BY <1>0, <1>1, <2>1 DEF HoldJobOK, OrderFor
<1>8. /\ c \in Orders => place \in {"pay", "cancel"}
      /\ c \in Orders /\ place = "pay" => job.op = "reserve" /\ job.pc = "answer"
      /\ c \in Reviews => place \in {"notify", "confirm", "done"}
      /\ c \in Reviews /\ place = "confirm" => job.op = "commit" /\ job.pc = "answer"
  BY <1>1, <1>2, <1>3, <1>5, <1>7 DEF Ops, OnAnswer, OnFailure
<1>9. \A o \in Orders : ~Returning(o) /\ (Kept(o)' <=> Kept(o))
  BY <1>1, <1>4 DEF Returning, Kept, Units
<1>10. ASSUME NEW o \in Orders PROVE HeldOK(o)'
  <2>1. HeldOK(o) /\ o \in Callers
    BY <1>5 DEF HoldInv
  <2>2. CASE o # c
    BY <2>1, <2>2, <1>4, <1>6, <1>9 DEF HeldOK, InReview
  <2>3. CASE o = c
    <3>1. at[o] \in {"reserve", "release"}
      BY <2>3, <1>2, <1>5, <1>7 DEF Ops
    <3>2. place = "pay" => Kept(o)
      BY <2>3, <1>1, <1>7, <1>8 DEF HoldJobOK
    <3> QED BY <2>1, <2>3, <3>1, <3>2, <1>4, <1>6, <1>8, <1>9 DEF HeldOK, InReview
  <2> QED BY <2>2, <2>3
<1>11. HoldJobOK'
  BY <1>4 DEF HoldJobOK
<1>12. ASSUME NEW d \in Callers PROVE HoldCallerOK(d)'
  <2>1. HoldCallerOK(d)
    BY DEF HoldInv
  <2>2. ASSUME NEW o \in Orders, at[o] = "placed" PROVE at'[o] = "placed"
    BY <2>2, <1>2, <1>5, <1>6 DEF Ops
  <2>3. CASE d # c
    BY <2>1, <2>2, <2>3, <1>5, <1>6 DEF HoldCallerOK, InReview
  <2>4. CASE d = c
    <3>1. c \in Reviews => at[Target[c]] = "placed"
      BY <2>1, <2>4, <1>2 DEF HoldCallerOK, Ops
    <3>2. c \in Orders \cup Admins => ~InReview(copy'[c])
      <4>1. c \in Orders \cup Admins => job.op \in {"reserve", "release"}
        BY <1>2, <1>5, <1>7 DEF Ops
      <4> QED BY <2>1, <2>4, <4>1, <1>1, <1>6 DEF HoldJobOK, HoldCallerOK
    <3>3. c \in Reviews /\ place = "confirm" => ~InReview(copy'[c])
      BY <1>1, <1>6, <1>8 DEF HoldJobOK
    <3> QED BY <2>2, <2>4, <3>1, <3>2, <3>3, <1>5, <1>6 DEF HoldCallerOK, InReview
  <2> QED BY <2>3, <2>4
<1> QED BY <1>10, <1>11, <1>12 DEF HoldInv

\* The sweep.
LEMMA HoldSweep ==
  ASSUME IInv, HoldInv, Sweep
  PROVE  HoldInv'
<1>1. /\ UNCHANGED <<moved, notes, due, job, at, copy>> /\ job = Idle
      /\ round'.free = Expirable
  BY DEF Sweep, stock, records, callers
<1>2. ASSUME NEW o \in Orders PROVE HeldOK(o)'
  <2>1. (Kept(o)' <=> Kept(o)) /\ (Returning(o)' <=> Returning(o))
    BY <1>1 DEF Kept, Units, Returning, About
  <2>2. o \in round'.free => o \in due /\ ~InReview(notes[o])
    BY <1>1 DEF Expirable, InReview
  <2>3. HeldOK(o)
    BY DEF HoldInv
  <2> QED BY <1>1, <2>1, <2>2, <2>3 DEF HeldOK, InReview
<1>3. HoldJobOK'
  BY <1>1 DEF HoldJobOK
<1>4. \A c \in Callers : HoldCallerOK(c)'
  BY <1>1 DEF HoldInv, HoldCallerOK, InReview
<1> QED BY <1>2, <1>3, <1>4 DEF HoldInv

LEMMA HoldExpire ==
  ASSUME IInv, HoldInv, NEW o \in Orders, Expire(o) \/ Void(o)
  PROVE  HoldInv'
<1>1. /\ UNCHANGED <<moved, notes, due, at, copy>> /\ job = Idle
      /\ round'.free \subseteq round.free
  <2>1. round \in [free : SUBSET Orders, void : SUBSET Orders,
                   seen : [Orders -> ReservationType]]
    BY DEF IInv, TypeOK
  <2> QED BY <2>1 DEF Expire, Void, stock, records, callers
<1>2. job' = Idle \/ \E r, pc, todo :
        /\ job' = SweepJob(o, r, pc, todo)
        /\ pc = "sync" \/ (pc = "give" /\ o \in round.free)
  BY DEF Expire, Void
<1>3. job' # Idle =>
        /\ job'.op = "sweep" /\ job'.of = o
        /\ job'.pc = "sync" \/ (job'.pc = "give" /\ o \in round.free)
  BY <1>2 DEF SweepJob
<1>4. HeldOK(o)
  BY DEF HoldInv
<1>5. (Kept(o)' <=> Kept(o)) /\ ~Returning(o)
  BY <1>1 DEF Kept, Units, Returning, About
<1>6. HeldOK(o)'
  BY <1>1, <1>4, <1>5 DEF HeldOK, InReview
<1>7. HoldJobOK'
  <2>1. job' # Idle /\ job'.pc # "sync" => o \in due /\ ~InReview(notes[o])
    BY <1>3, <1>4 DEF HeldOK
  <2> QED BY <1>1, <1>3, <2>1 DEF HoldJobOK, InReview
<1>8. \A p \in Orders \ {o} : /\ notes'[p] = notes[p]
                             /\ \A b \in Batches : Units("release", p, b)'
                                                     = Units("release", p, b)
  BY <1>1 DEF Units
<1> QED BY <1>1, <1>3, <1>6, <1>7, <1>8, HoldWork

LEMMA HoldSweepEnds ==
  ASSUME IInv, HoldInv, SweepEnds
  PROVE  HoldInv'
<1>1. UNCHANGED <<moved, notes, due, job, at, copy>> /\ job = Idle /\ round' = NoRound
  BY DEF SweepEnds, stock, records, callers
<1>2. ASSUME NEW o \in Orders PROVE HeldOK(o)'
  <2>1. (Kept(o)' <=> Kept(o)) /\ (Returning(o)' <=> Returning(o)) /\ HeldOK(o)
    BY <1>1 DEF Kept, Units, Returning, About, HoldInv
  <2> QED BY <1>1, <2>1 DEF HeldOK, InReview, NoRound
<1>3. HoldJobOK'
  BY <1>1 DEF HoldJobOK
<1>4. \A c \in Callers : HoldCallerOK(c)'
  BY <1>1 DEF HoldInv, HoldCallerOK, InReview
<1> QED BY <1>2, <1>3, <1>4 DEF HoldInv

\* The end of an order whose time was up.
LEMMA HoldClose ==
  ASSUME IInv, HoldInv, MaxFaults = 0, Close \/ Sync
  PROVE  HoldInv'
<1>0. PICK o \in Orders : o = job.of
  BY HoldJobParts DEF Close, Sync
<1>1. job # Idle /\ HoldJobOK /\ HeldOK(o) /\ job.pc \in {"close", "sync"}
      /\ job.op \in Ops \cup {"sweep"}
  BY <1>0, HoldJobParts DEF Close, Sync
<1>2. notes \in [Orders -> ReservationType]
      /\ round \in [free : SUBSET Orders, void : SUBSET Orders,
                    seen : [Orders -> ReservationType]]
  BY DEF IInv, TypeOK
<1>3. /\ UNCHANGED <<moved, due, at, copy>> /\ job' = Idle /\ round'.free = round.free
  BY <1>2 DEF Close, Sync, stock, callers
<1>4. job.pc = "close" => ~InReview(job.copy)
  BY <1>1 DEF HoldJobOK, Ops
<1>5. /\ \A p \in Orders \ {o} : notes'[p] = notes[p]
      /\ InReview(notes'[o]) => InReview(notes[o])
  <2>1. CASE Close
    <3>1. notes' = [notes EXCEPT ![o] = job.copy] /\ job.pc = "close"
      BY <2>1, <1>0, NoFault DEF Close, Running
    <3> QED BY <3>1, <1>2, <1>4
  <2>2. CASE Sync
    <3>1. notes' = notes \/ notes' = [notes EXCEPT ![o].synced = TRUE]
      BY <2>2, <1>0 DEF Sync
    <3> QED BY <3>1, <1>2 DEF ReservationType, InReview
  <2> QED BY <2>1, <2>2
<1>6. (Kept(o)' <=> Kept(o)) /\ ~Returning(o)
  BY <1>1, <1>3 DEF Kept, Units, Returning, About
<1>7. HeldOK(o)'
  <2>1. InReview(notes[o])' => InReview(notes[o])
    BY <1>5 DEF InReview
  <2> QED BY <1>1, <1>3, <1>6, <2>1 DEF HeldOK
<1>8. HoldJobOK'
  BY <1>3 DEF HoldJobOK
<1>9. /\ About(o) /\ round'.free \subseteq round.free
      /\ \A p \in Orders, b \in Batches : Units("release", p, b)' = Units("release", p, b)
  BY <1>0, <1>1, <1>3 DEF About, Units
<1> QED BY <1>3, <1>5, <1>7, <1>8, <1>9, HoldWork

-----------------------------------------------------------------------------
LEMMA HoldInit == Init => HoldInv
<1> SUFFICES ASSUME Init PROVE HoldInv
  OBVIOUS
<1>1. /\ job = Idle /\ round = NoRound /\ due = {}
      /\ \A o \in Orders : notes[o] = NoReservation
      /\ \A c \in Callers : at[c] = "idle" /\ copy[c] = NoReservation
  BY DEF Init
<1>2. ~InReview(NoReservation)
  BY DEF InReview, NoReservation
<1>3. Orders \subseteq Callers
  BY CallerKinds
<1> QED BY <1>1, <1>2, <1>3 DEF HoldInv, HoldJobOK, HeldOK, HoldCallerOK, NoRound

LEMMA HoldStep ==
  ASSUME IInv, MovesInv, ShelfInv, HoldInv, Apart, [Next]_vars
  PROVE  HoldInv'
<1>0. MaxFaults = 0
  BY DEF Apart
<1>1. CASE Request
  BY <1>1, HoldReserve, HoldRelease, HoldClaim, HoldAbort, HoldCommit DEF Request
<1>2. CASE JobStep
  <2>1. ~Undo
    BY DEF ShelfInv, Undo, Running
  <2> QED BY <1>2, <2>1, <1>0, HoldReserving, HoldGive, HoldOut, HoldGiven, HoldSave,
             HoldAnswer, HoldExpire, HoldSweepEnds, HoldClose DEF JobStep
<1>3. CASE Sweep
  BY <1>3, HoldSweep
<1>4. CASE \E o \in Orders : Place(o) \/ CheckoutStep(o) \/ Tick(o)
  BY <1>4, <1>0, HoldCheckout, HoldTick DEF CheckoutStep
<1>5. CASE \E v \in Reviews : Preflight(v) \/ ReviewStep(v)
  BY <1>5, HoldReview
<1>6. CASE \E a \in Admins : AdminCancel(a) \/ Cancel(a)
  BY <1>6, HoldAdmin
<1>7. CASE CoordinatorEvicted \/ \E c \in Callers : Evict(c)
  BY <1>7, <1>0, NoEviction
<1>8. CASE UNCHANGED vars
  <2>1. UNCHANGED <<moved, notes, due, job, round, at, copy>>
    BY <1>8 DEF vars
  <2> QED BY <2>1 DEF HoldInv, HoldJobOK, HeldOK, HoldCallerOK, Kept, Units, Returning, About,
          InReview
<1> QED BY <1>1, <1>2, <1>3, <1>4, <1>5, <1>6, <1>7, <1>8 DEF Next

\* While a payment is reviewed its units stay held, however the reviews of the order
\* overlap, and whatever the sweep, other orders and other orders' admins do: where
\* nothing fails, only an admin who cancels the very order can take them away.
THEOREM ReviewKeepsUnits ==
  ASSUME Apart
  PROVE  Spec => []ReviewHoldsStock
<1>1. Init => IInv /\ MovesInv /\ ShelfInv /\ HoldInv
  BY InvInit, MovesInit, ShelfInit, HoldInit
<1>2. IInv /\ MovesInv /\ ShelfInv /\ HoldInv /\ [Next]_vars
        => (IInv /\ MovesInv /\ ShelfInv /\ HoldInv)'
  BY InvStep, MovesStep, ShelfStep, HoldStep DEF Apart
<1>3. HoldInv => ReviewHoldsStock
  <2> SUFFICES ASSUME HoldInv, job = Idle, NEW o \in Orders,
                      notes[o].state = "payment_review"
               PROVE  Kept(o)
    BY DEF ReviewHoldsStock, Kept, Units
  <2> QED BY DEF HoldInv, HeldOK, InReview, Returning, About
<1> QED BY <1>1, <1>2, <1>3, PTL DEF Spec

-----------------------------------------------------------------------------
(* An order that nobody reviews, whatever fails.                           *)

LEMMA UnreviewedInit ==
  ASSUME Init
  PROVE  UnreviewedInv
<1>1. /\ paid = {} /\ job = Idle /\ round.seen = [o \in Orders |-> NoReservation]
      /\ \A o \in Orders : intent[o] = "none" /\ notes[o] = NoReservation
      /\ \A c \in Callers : copy[c] = NoReservation
  BY DEF Init, NoRound
<1>2. \A o \in Orders, b \in Batches : Units("out", o, b) = 0
  BY DEF Init, NoUnits, Units
<1>3. Uncommitted(NoReservation)
  BY DEF Uncommitted, NoReservation
<1> QED BY <1>1, <1>2, <1>3 DEF UnreviewedInv, Unsettled, Unsold, About

\* What a step has to leave alone of such an order.
LEMMA StaysUnsettled ==
  ASSUME IInv, UnreviewedInv, NEW o \in Orders \ Reviewable,
         o \in paid' => o \in paid, intent'[o] = "paid" => intent[o] = "paid",
         moved'["out"][o] = moved["out"][o], Uncommitted(notes'[o]),
         round'.seen = round.seen \/ Uncommitted(round'.seen[o]),
         copy' = copy \/ \A c \in Callers : OrderFor(c) = o => Uncommitted(copy'[c]),
         job' = job \/ (About(o)' => job'.op # "commit" /\ Uncommitted(job'.copy))
  PROVE  Unsettled(o)'
<1>1. Unsettled(o)
  BY DEF UnreviewedInv
<1>2. Unsold(o)'
  BY <1>1 DEF Unsettled, Unsold, Units
<1> QED BY <1>1, <1>2 DEF Unsettled, About

\* The callers at it are its checkout and the admins.
LEMMA CallersOfUnreviewed ==
  ASSUME NEW o \in Orders \ Reviewable
  PROVE  \A v \in Reviews : Target[v] # o /\ OrderFor(v) # o
BY CallerKinds DEF Reviewable

\* A request begins no sale of it, with a copy that is not sold.
LEMMA UnreviewedRequest ==
  ASSUME IInv, UnreviewedInv, Request
  PROVE  UnreviewedInv'
<1>1. PICK c \in Callers :
        /\ UNCHANGED <<stock, records, round, callers>>
        /\ \/ Reserve(c) \/ Release(c)
           \/ c \in Reviews /\ (Claim(c) \/ Abort(c) \/ Commit(c))
  BY CallerKinds DEF Request, Reserve, Release, Claim, Abort, Commit, Takes
<1>2. job'.of = OrderFor(c)
  BY <1>1 DEF Reserve, Release, Claim, Abort, Commit, JobFor
<1>3. job'.pc = "out" => job'.op = "commit"
  BY <1>1 DEF Reserve, Release, Claim, Abort, Commit, JobFor
<1>4. ASSUME NEW o \in Orders \ Reviewable PROVE Unsettled(o)'
  <2>1. Unsettled(o)
    BY DEF UnreviewedInv
  <2>2. About(o)' => job'.op # "commit" /\ Uncommitted(job'.copy)
    <3> SUFFICES ASSUME OrderFor(c) = o
                 PROVE  job'.op # "commit" /\ Uncommitted(job'.copy)
      BY <1>2 DEF About
    <3>1. Reserve(c) \/ Release(c)
      BY <1>1, CallersOfUnreviewed
    <3>2. CASE Reserve(c)
      BY <3>2 DEF Reserve, JobFor, NoReservation, Uncommitted
    <3>3. CASE Release(c)
      <4>1. job'.op = "release" /\ job'.copy = copy[c]
        BY <3>3 DEF Release, JobFor
      <4> QED BY <2>1, <4>1 DEF Unsettled
    <3> QED BY <3>1, <3>2, <3>3
  <2> QED BY <1>1, <2>1, <2>2, StaysUnsettled DEF stock, records, callers, Unsettled
<1> QED BY <1>3, <1>4 DEF UnreviewedInv

\* A job that goes on with its order.
LEMMA UnreviewedOnward ==
  ASSUME IInv, UnreviewedInv, job # Idle,
         UNCHANGED <<paid, intent, copy>>, round'.seen = round.seen,
         \A o \in Orders \ Reviewable :
            moved'["out"][o] = moved["out"][o] /\ Uncommitted(notes'[o]),
         \/ job' = Idle
         \/ /\ job'.of = job.of /\ job'.op = job.op
            /\ \/ job'.copy.state \in {job.copy.state, "released", "expired"}
               \/ job.op = "commit"
            /\ job'.pc = "out" => job.pc = "out"
  PROVE  UnreviewedInv'
<1>1. ASSUME NEW o \in Orders \ Reviewable PROVE Unsettled(o)'
  <2>1. Unsettled(o)
    BY DEF UnreviewedInv
  <2>2. About(o)' => job'.op # "commit" /\ Uncommitted(job'.copy)
    BY <2>1 DEF Unsettled, About, Uncommitted
  <2> QED BY <2>2, StaysUnsettled
<1>2. job' # Idle /\ job'.pc = "out" => job'.op = "commit"
  BY DEF UnreviewedInv
<1> QED BY <1>1, <1>2 DEF UnreviewedInv

LEMMA UnreviewedJob ==
  ASSUME IInv, UnreviewedInv, JobStep, job # Idle, ~Answer
  PROVE  UnreviewedInv'
<1>1. /\ job \in Jobs /\ job.of \in Orders /\ job.copy \in ReservationType
      /\ moved \in [Kinds -> [Orders -> [Batches -> Nat]]]
      /\ notes \in [Orders -> ReservationType]
      /\ round \in [free : SUBSET Orders, void : SUBSET Orders,
                    seen : [Orders -> ReservationType]]
      /\ \A o \in Orders \ Reviewable :
           /\ Uncommitted(notes[o])
           /\ job.of = o => job.op # "commit" /\ Uncommitted(job.copy)
  BY JobTypes, UnitsType DEF IInv, TypeOK, UnreviewedInv, Unsettled, About
<1>2. Thrown = Idle \/ Thrown = [job EXCEPT !.pc = "refuse"]
  BY DEF Thrown
<1>3. CASE Take \/ Undo \/ Shortage \/ Allocated \/ Give \/ Freed
  <2>1. UNCHANGED <<moved, records, round, callers>>
    BY <1>3 DEF Take, Undo, Shortage, Allocated, Give, Freed, stock
  <2>2. \/ job' = Idle
        \/ job' = [job EXCEPT !.pc = "refuse"]
        \/ \E b, q : job' = [job EXCEPT !.pc = "record", !.batch = b, !.take = q]
        \/ \E t : job' = [job EXCEPT !.pc = "give", !.todo = t]
        \/ job' = [job EXCEPT !.pc = "note"]
        \/ \E b : job' = [job EXCEPT !.pc = "given", !.batch = b]
        \/ \E pc \in {"answer", "save", "close"}, s \in {"released", "expired"} :
             job' = [job EXCEPT !.pc = pc, !.copy.state = s]
    <3>1. CASE Freed
      <4>1. job.op \in {"reserve", "release", "abort", "sweep"}
        BY <3>1, JobTypes DEF Freed, Running, JobOK, Jobs, Ops
      <4> QED BY <1>2, <3>1, <4>1 DEF Freed
    <3> QED BY <1>2, <1>3, <3>1 DEF Take, Undo, Shortage, RolledBack, Allocated, Give
  <2>3. \/ job' = Idle
        \/ /\ job'.of = job.of /\ job'.op = job.op /\ job'.pc # "out"
           /\ job'.copy.state \in {job.copy.state, "released", "expired"}
    <3>1. ASSUME NEW pc \in {"answer", "save", "close"}, NEW s \in {"released", "expired"},
                 job' = [job EXCEPT !.pc = pc, !.copy.state = s]
          PROVE  job'.of = job.of /\ job'.op = job.op /\ job'.pc = pc /\ job'.copy.state = s
      BY <1>1, <3>1 DEF Jobs, ReservationType
    <3>2. CASE \E pc \in {"answer", "save", "close"}, s \in {"released", "expired"} :
                 job' = [job EXCEPT !.pc = pc, !.copy.state = s]
      BY <3>1, <3>2
    <3>3. CASE \/ job' = [job EXCEPT !.pc = "refuse"] \/ job' = [job EXCEPT !.pc = "note"]
               \/ \E b, q : job' = [job EXCEPT !.pc = "record", !.batch = b, !.take = q]
               \/ \E t : job' = [job EXCEPT !.pc = "give", !.todo = t]
               \/ \E b : job' = [job EXCEPT !.pc = "given", !.batch = b]
      BY <1>1, <3>3 DEF Jobs
    <3> QED BY <2>2, <3>2, <3>3
  <2> QED BY <1>1, <2>1, <2>3, UnreviewedOnward DEF records, callers
<1>4. CASE Record \/ Given
  <2>1. UNCHANGED <<records, round, callers>>
    BY <1>4 DEF Record, Given
  <2>2. moved' = moved \/ \E k \in {"reserve", "release"} : \E b, n :
                             moved' = [moved EXCEPT ![k][job.of][b] = n]
    BY <1>4 DEF Record, Given
  <2>3. moved'["out"] = moved["out"]
    BY <1>1, <2>2 DEF Kinds
  <2>4. \/ job' = Idle
        \/ job' = [job EXCEPT !.pc = "refuse"]
        \/ job' = [job EXCEPT !.pc = "undo"]
        \/ \E t, q : job' = [job EXCEPT !.pc = "take", !.left = t,
                                        !.copy.alloc[job.batch] = q]
        \/ \E t : job' = [job EXCEPT !.pc = "give", !.todo = t]
    BY <1>2, <1>4 DEF Record, Given
  <2>5. \/ job' = Idle
        \/ /\ job'.of = job.of /\ job'.op = job.op /\ job'.pc # "out"
           /\ job'.copy.state = job.copy.state
    <3>1. CASE \E t, q : job' = [job EXCEPT !.pc = "take", !.left = t,
                                            !.copy.alloc[job.batch] = q]
      BY <1>1, <3>1 DEF Jobs, ReservationType
    <3>2. CASE \/ job' = [job EXCEPT !.pc = "refuse"] \/ job' = [job EXCEPT !.pc = "undo"]
               \/ \E t : job' = [job EXCEPT !.pc = "give", !.todo = t]
      BY <1>1, <3>2 DEF Jobs
    <3> QED BY <2>4, <3>1, <3>2
  <2> QED BY <1>1, <2>1, <2>3, <2>5, UnreviewedOnward DEF records, callers
<1>5. CASE Out \/ Sold
  <2>1. job.op = "commit" /\ UNCHANGED <<records, round, callers>>
    BY <1>5 DEF Out, Sold, Running, UnreviewedInv
  <2>2. moved' = moved \/ \E b, n : moved' = [moved EXCEPT !["out"][job.of][b] = n]
    BY <1>5 DEF Out, Sold, stock
  <2>3. \A o \in Orders \ Reviewable : moved'["out"][o] = moved["out"][o]
    BY <1>1, <2>1, <2>2 DEF Kinds
  <2>4. \/ job' = Idle
        \/ job' = [job EXCEPT !.pc = "refuse"]
        \/ \E t : job' = [job EXCEPT !.todo = t]
        \/ \E s : job' = [job EXCEPT !.pc = "save", !.copy.state = s]
    BY <1>2, <1>5 DEF Out, Sold
  <2>5. \/ job' = Idle
        \/ /\ job'.of = job.of /\ job'.op = job.op
           /\ job'.pc = "out" => job.pc = "out"
    BY <1>1, <2>4 DEF Jobs
  <2> QED BY <1>1, <2>1, <2>3, <2>5, UnreviewedOnward DEF records, callers
<1>6. CASE Note \/ Save \/ Close \/ Sync
  <2>1. UNCHANGED <<moved, paid, intent, copy>>
    BY <1>6 DEF Note, Save, Close, Sync, stock, callers
  <2>2. round'.seen = round.seen
    BY <1>1, <1>6 DEF Note, Save, Close, Sync
  <2>3. \/ notes' = notes
        \/ notes' = [notes EXCEPT ![job.of] = job.copy]
        \/ notes' = [notes EXCEPT ![job.of].synced = TRUE]
    BY <1>6 DEF Note, Save, Close, Sync
  <2>4. \A o \in Orders \ Reviewable : Uncommitted(notes'[o])
    BY <1>1, <2>3 DEF Uncommitted, ReservationType
  <2>5. \/ job' = Idle
        \/ job' = [job EXCEPT !.pc = "refuse"]
        \/ job' = [job EXCEPT !.pc = "answer"]
        \/ \E t : job' = [job EXCEPT !.pc = "give", !.todo = t]
    BY <1>2, <1>6 DEF Note, Save, Close, Sync, RolledBack
  <2>6. \/ job' = Idle
        \/ /\ job'.of = job.of /\ job'.op = job.op /\ job'.pc # "out"
           /\ job'.copy.state = job.copy.state
    BY <1>1, <2>5 DEF Jobs
  <2> QED BY <1>1, <2>1, <2>2, <2>4, <2>6, UnreviewedOnward
<1>7. ~(SweepEnds \/ \E p \in Orders : Expire(p) \/ Void(p))
  BY DEF SweepEnds, Expire, Void
<1> QED BY <1>3, <1>4, <1>5, <1>6, <1>7 DEF JobStep

LEMMA UnreviewedAnswer ==
  ASSUME IInv, UnreviewedInv, Answer
  PROVE  UnreviewedInv'
<1> DEFINE c == job.by
<1>1. /\ job # Idle /\ c \in Callers /\ job.of = OrderFor(c)
      /\ copy \in [Callers -> ReservationType]
  BY JobTypes DEF Answer, JobOK, Jobs, IInv, TypeOK
<1>2. /\ copy' = copy \/ copy' = [copy EXCEPT ![c] = job.copy]
      /\ job' = Idle /\ UNCHANGED <<moved, notes, paid, intent, round>>
  BY DEF Answer, stock, records
<1>3. ASSUME NEW o \in Orders \ Reviewable PROVE Unsettled(o)'
  <2>1. Unsettled(o)
    BY DEF UnreviewedInv
  <2>2. c \in Callers /\ OrderFor(c) = o => Uncommitted(job.copy)
    BY <1>1, <2>1 DEF Unsettled, About
  <2> HIDE DEF c
  <2>3. \A d \in Callers : OrderFor(d) = o => Uncommitted(copy'[d])
    BY <1>1, <1>2, <2>1, <2>2 DEF Unsettled
  <2> QED BY <1>2, <2>1, <2>3, StaysUnsettled DEF Unsettled, About
<1> QED BY <1>2, <1>3 DEF UnreviewedInv

\* The sweep works with what the notes said.
LEMMA UnreviewedSweep ==
  ASSUME IInv, UnreviewedInv, Sweep \/ SweepEnds \/ \E p \in Orders : Expire(p) \/ Void(p)
  PROVE  UnreviewedInv'
<1>1. /\ UNCHANGED <<moved, notes, paid, copy>>
      /\ round \in [free : SUBSET Orders, void : SUBSET Orders,
                    seen : [Orders -> ReservationType]]
      /\ intent \in [Orders -> {"none", "pending", "paid", "cancelled"}]
  BY DEF Sweep, SweepEnds, Expire, Void, stock, records, callers, IInv, TypeOK
<1>2. \A o \in Orders : intent'[o] = "paid" => intent[o] = "paid"
  BY <1>1 DEF Sweep, SweepEnds, Expire, Void, records
<1>3. /\ round'.seen = round.seen \/ round'.seen = notes
         \/ round'.seen = [o \in Orders |-> NoReservation]
  BY <1>1 DEF Sweep, SweepEnds, Expire, Void, NoRound
<1>4. \/ job' = Idle
      \/ \E p \in Orders : \E t : job' = SweepJob(p, round.seen[p], "give", t)
      \/ \E p \in Orders : job' = SweepJob(p, NoReservation, "sync", {})
  BY DEF Sweep, SweepEnds, Expire, Void
<1>5. Uncommitted(NoReservation)
  BY DEF Uncommitted, NoReservation
<1>6. ASSUME NEW o \in Orders \ Reviewable PROVE Unsettled(o)'
  <2>1. Unsettled(o)
    BY DEF UnreviewedInv
  <2>2. Uncommitted(round'.seen[o])
    BY <1>3, <1>5, <2>1 DEF Unsettled
  <2>3. About(o)' => job'.op # "commit" /\ Uncommitted(job'.copy)
    BY <1>4, <1>5, <2>1 DEF About, SweepJob, Unsettled
  <2> QED BY <1>1, <1>2, <2>1, <2>2, <2>3, StaysUnsettled DEF Unsettled
<1>7. job' # Idle => job'.pc # "out"
  BY <1>4 DEF SweepJob
<1> QED BY <1>6, <1>7 DEF UnreviewedInv

\* The callers write what they have read, and read what is noted.
LEMMA UnreviewedCallers ==
  ASSUME IInv, UnreviewedInv,
         \/ \E o \in Orders : Place(o) \/ CheckoutStep(o) \/ Tick(o)
         \/ \E v \in Reviews : Preflight(v) \/ ReviewStep(v)
         \/ \E a \in Admins : AdminCancel(a) \/ Cancel(a)
         \/ CoordinatorEvicted \/ \E c \in Callers : Evict(c)
         \/ UNCHANGED vars
  PROVE  UnreviewedInv'
<1>1. /\ notes \in [Orders -> ReservationType] /\ paid \subseteq Orders
      /\ intent \in [Orders -> {"none", "pending", "paid", "cancelled"}]
      /\ copy \in [Callers -> ReservationType]
  BY DEF IInv, TypeOK
<1>2. UNCHANGED moved /\ (job' = job \/ job' = Idle)
      /\ (round' = round \/ round'.seen = [o \in Orders |-> NoReservation])
  BY DEF Place, CheckoutStep, Pay, Jot, Cancel, Tick, Preflight, ReviewStep, Notify, Settle,
         Confirm, Abandon, AdminCancel, CoordinatorEvicted, Evict, vars, stock, work, NoRound
<1>3. ASSUME NEW o \in Orders \ Reviewable PROVE Unsettled(o)'
  <2>1. Unsettled(o) /\ Uncommitted(NoReservation)
    BY DEF UnreviewedInv, Uncommitted, NoReservation
  <2>2. \A v \in Reviews : Target[v] # o /\ OrderFor(v) # o
    BY CallersOfUnreviewed
  <2>3. o \in paid' => o \in paid
    BY <2>2 DEF Place, CheckoutStep, Pay, Jot, Cancel, Tick, Preflight, ReviewStep, Notify,
       Settle, Confirm, Abandon, AdminCancel, CoordinatorEvicted, Evict, vars, records
  <2>4. intent'[o] = "paid" => intent[o] = "paid"
    BY <1>1, <2>2 DEF Place, CheckoutStep, Pay, Jot, Cancel, Tick, Preflight, ReviewStep,
       Notify, Settle, Confirm, Abandon, AdminCancel, CoordinatorEvicted, Evict, vars, records
  <2>5. Uncommitted(notes'[o])
    <3>1. CASE \E c \in Callers : (Jot(c) /\ c \in Orders) \/ Cancel(c)
      <4>1. PICK c \in Callers : notes' = notes \/ notes' = [notes EXCEPT ![OrderFor(c)] = copy[c]]
        BY <3>1, CallerKinds DEF Jot, Cancel
      <4> QED BY <1>1, <2>1, <4>1 DEF Unsettled
    <3>2. CASE \E v \in Reviews : Confirm(v)
      BY <1>1, <2>1, <2>2, <3>2 DEF Confirm, Unsettled
    <3>3. CASE notes' = notes
      BY <2>1, <3>3 DEF Unsettled
    <3> QED BY <3>1, <3>2, <3>3, CallerKinds
          DEF Place, CheckoutStep, Pay, Tick, Preflight, ReviewStep, Notify, Settle,
              Abandon, AdminCancel, CoordinatorEvicted, Evict, vars, records
  <2>6. \A c \in Callers : OrderFor(c) = o => Uncommitted(copy'[c])
    <3>1. \/ copy' = copy
          \/ \E d \in Callers : copy' = [copy EXCEPT ![d] = notes[OrderFor(d)]]
      BY CallerKinds
         DEF Place, CheckoutStep, Pay, Jot, Cancel, Tick, Preflight, ReviewStep, Notify,
             Settle, Confirm, Abandon, AdminCancel, CoordinatorEvicted, Evict, vars, callers, Keep
    <3> QED BY <1>1, <2>1, <3>1 DEF Unsettled
  <2>7. round'.seen = round.seen \/ Uncommitted(round'.seen[o])
    BY <1>2, <2>1
  <2>8. job' = job \/ (About(o)' => job'.op # "commit" /\ Uncommitted(job'.copy))
    BY <1>2 DEF About
  <2> QED BY <1>2, <2>3, <2>4, <2>5, <2>6, <2>7, <2>8, StaysUnsettled
<1> QED BY <1>2, <1>3 DEF UnreviewedInv

LEMMA UnreviewedStep ==
  ASSUME IInv, UnreviewedInv, [Next]_vars
  PROVE  UnreviewedInv'
<1>1. JobStep => \/ Answer
                 \/ job # Idle /\ ~Answer
                 \/ SweepEnds \/ \E p \in Orders : Expire(p) \/ Void(p)
  <2>1. (\/ Take \/ Record \/ Undo \/ Shortage \/ Allocated \/ Note \/ Give \/ Given
         \/ Freed \/ Out \/ Sold \/ Save \/ Close \/ Sync) => job # Idle
    BY DEF Take, Record, Undo, Shortage, Allocated, Note, Give, Given, Freed, Out, Sold,
       Save, Close, Sync, Running
  <2> QED BY <2>1 DEF JobStep
<1> QED BY <1>1, UnreviewedRequest, UnreviewedJob, UnreviewedAnswer, UnreviewedSweep,
           UnreviewedCallers DEF Next

\* An order that nobody reviews is neither paid nor sold, and its reservation is never
\* committed: no other order's review, no admin, no sweep and nothing that fails settles
\* the payment of one order with the proof of another.
THEOREM UnreviewedNeverSold ==
  Spec => [](\A o \in Orders : (\A v \in Reviews : Target[v] # o) =>
               /\ o \notin paid /\ intent[o] # "paid"
               /\ notes[o].state # "committed"
               /\ \A b \in Batches : Units("out", o, b) = 0)
<1>1. Init => IInv /\ UnreviewedInv
  BY InvInit, UnreviewedInit
<1>2. IInv /\ UnreviewedInv /\ [Next]_vars => (IInv /\ UnreviewedInv)'
  BY InvStep, UnreviewedStep
<1>3. UnreviewedInv =>
        \A o \in Orders : (\A v \in Reviews : Target[v] # o) =>
          /\ o \notin paid /\ intent[o] # "paid"
          /\ notes[o].state # "committed"
          /\ \A b \in Batches : Units("out", o, b) = 0
  BY DEF UnreviewedInv, Unsettled, Unsold, Uncommitted, Reviewable
<1> QED BY <1>1, <1>2, <1>3, PTL DEF Spec

-----------------------------------------------------------------------------
(* What agrees when it is calm.                                            *)

AllInv == IInv /\ MovesInv /\ ShelfInv /\ UnreviewedInv /\ CalmInv

LEMMA Parts ==
  ASSUME Calm, AllInv
  PROVE  /\ IInv /\ MovesInv /\ ShelfInv
         /\ \A o \in Orders \ Quiet : Unsettled(o)
         /\ PlacesOK /\ JobFollows
         /\ \A o \in Quiet : /\ NotesFollow(o) /\ UnitsFollow(o)
                             /\ PaymentFollows(o) /\ SweepFollows(o)
         /\ \A v \in Reviews : ReviewFollows(v) /\ Target[v] \in Quiet
BY CallerKinds DEF AllInv, CalmInv, UnreviewedInv, Reviewable, OrderFollows, Calm, Quiet

\* The job in hand, and who asked for it.
LEMMA JobParts ==
  ASSUME Calm, AllInv, job # Idle
  PROVE  /\ job \in Jobs /\ job.of \in Orders /\ job.copy \in ReservationType
         /\ job.op \in Ops \cup {"sweep"}
         /\ CallerWaits
         /\ job.of \in Quiet => JobDoes
<1>1. job \in Jobs /\ job.of \in Orders /\ job.copy \in ReservationType
  BY JobTypes DEF AllInv
<1>2. job.op \in Ops \cup {"sweep"}
  BY <1>1 DEF Jobs
<1> QED BY <1>1, <1>2 DEF AllInv, CalmInv, JobFollows

LEMMA JobCaller ==
  ASSUME Calm, AllInv, job # Idle, job.op # "sweep"
  PROVE  /\ job.by \in Callers /\ job.of = OrderFor(job.by)
         /\ at[job.by] = job.op /\ round = NoRound
         /\ job.op = "reserve" => job.by \in Orders /\ job.of = job.by
         /\ job.op = "release" =>
              /\ job.by \in Orders \cup Admins
              /\ job.of \in Quiet => job.by \in Orders /\ job.of = job.by
         /\ job.op \in {"claim", "commit", "abort"} =>
              /\ job.by \in Reviews /\ job.of = Target[job.by]
              /\ at[job.of] = "placed" /\ Active(job.by) /\ job.of \in Quiet
<1>1. job.by \in Callers /\ job.of = OrderFor(job.by) /\ job.op \in Ops
  BY JobTypes DEF AllInv, JobOK, Jobs
<1>2. CallerWaits
  BY JobParts
<1>3. \A v \in Reviews : Target[v] \in Quiet /\ (at[v] # "idle" => at[Target[v]] = "placed")
  BY Parts DEF PlacesOK
<1>4. job.by \in Admins => job.of \notin Quiet
  BY <1>1, CallersAssumption DEF OrderFor, CallersAssumption, Quiet
<1> QED BY <1>1, <1>2, <1>3, <1>4, CallerKinds DEF CallerWaits, Ops, Active

\* A reservation is reviewed, sold or expired only of an order that is placed.
LEMMA StateAtPlaced ==
  ASSUME Calm, AllInv, NEW o \in Quiet,
         notes[o].state \in {"payment_review", "committed", "expired"}
  PROVE  at[o] = "placed"
<1>1. NotesFollow(o)
  BY Parts
<1>2. at[o] \in {"idle", "reserve", "pay", "jot", "placed", "release", "cancel", "failed"}
  BY Parts, CallerKinds DEF PlacesOK
<1>3. CASE at[o] \in {"idle", "reserve"} /\ ~(Busy(o) /\ job.pc = "answer")
  BY <1>1, <1>3 DEF NotesFollow, NoReservation
<1>4. CASE at[o] \in {"idle", "reserve"} /\ Busy(o) /\ job.pc = "answer"
  <2>1. job # Idle /\ job.by = o /\ o # Nobody /\ o \in Orders
    BY <1>4, CallersAssumption, CallerKinds DEF Busy, Callers, CallersAssumption
  <2>2. job.op # "sweep"
    BY <2>1, JobParts DEF CallerWaits
  <2>3. job.op = "reserve" /\ job.of = o
    BY <1>4, <2>1, <2>2, JobCaller, JobParts DEF Ops
  <2>4. notes[o] = job.copy /\ job.copy.state = "reserved"
    BY <1>4, <2>1, <2>3, JobParts DEF JobDoes, Reserving
  <2> QED BY <2>4
<1> QED BY <1>1, <1>2, <1>3, <1>4 DEF NotesFollow

LEMMA OneReview ==
  ASSUME Calm, AllInv, NEW v \in Reviews, NEW w \in Reviews, Target[v] = Target[w],
         Active(v), Active(w)
  PROVE  v = w
BY Parts DEF PlacesOK

\* An order is paid only when its reservation is committed.
LEMMA PaidIsCommitted ==
  ASSUME Calm, AllInv, NEW o \in Quiet, o \in paid
  PROVE  notes[o].state = "committed"
BY Parts DEF PaymentFollows

-----------------------------------------------------------------------------
(* A step at one order leaves the others as they are.                      *)

SameUnits(o) == \A k \in Kinds : moved'[k][o] = moved[k][o]

SameOrder(p) ==
  /\ SameUnits(p)
  /\ at'[p] = at[p] /\ notes'[p] = notes[p] /\ copy'[p] = copy[p]
  /\ order'[p] = order[p] /\ intent'[p] = intent[p]
  /\ p \in paid' <=> p \in paid
  /\ p \in due' <=> p \in due
  /\ \A v \in Reviews : Target[v] = p => at'[v] = at[v] /\ copy'[v] = copy[v]

LEMMA UnitsStay ==
  ASSUME NEW o, SameUnits(o)
  PROVE  /\ \A k \in Kinds, b \in Batches : Units(k, o, b)' = Units(k, o, b)
         /\ Kept(o)' <=> Kept(o)
         /\ Back(o)' <=> Back(o)
         /\ Unsold(o)' <=> Unsold(o)
         /\ AllSold(o)' <=> AllSold(o)
         /\ Complete(o)' <=> Complete(o)
         /\ moved'["reserve"][o] = moved["reserve"][o]
<1>1. \A k \in Kinds, b \in Batches : Units(k, o, b)' = Units(k, o, b)
  BY DEF SameUnits, Units
<1>2. moved'["reserve"][o] = moved["reserve"][o]
  BY DEF SameUnits, Kinds
<1> QED BY <1>1, <1>2 DEF Kept, Back, Unsold, AllSold, Complete, Kinds

LEMMA OrderStays ==
  ASSUME NEW o, SameOrder(o), OrderFollows(o),
         job' = job \/ (~About(o) /\ ~About(o)' /\ ~Busy(o) /\ ~Busy(o)'),
         o \in round'.free => o \in round.free /\ round'.seen[o] = round.seen[o]
  PROVE  OrderFollows(o)'
<1>1. /\ Kept(o)' <=> Kept(o)
      /\ Back(o)' <=> Back(o)
      /\ Unsold(o)' <=> Unsold(o)
      /\ AllSold(o)' <=> AllSold(o)
      /\ Complete(o)' <=> Complete(o)
      /\ \A b \in Batches : Units("reserve", o, b)' = Units("reserve", o, b)
  BY UnitsStay DEF SameOrder, Kinds
<1>2. Whole(o, notes[o])' <=> Whole(o, notes[o])
  BY <1>1 DEF Whole, SameOrder
<1>3. (About(o)' <=> About(o)) /\ (Moving(o)' <=> Moving(o)) /\ (Busy(o)' <=> Busy(o))
  BY DEF About, Moving, Busy
<1>4. \A v \in Reviews : Target[v] = o => at'[v] = at[v] /\ (Active(v)' <=> Active(v))
  BY DEF SameOrder, Active
<1>5. /\ at'[o] = at[o] /\ notes'[o] = notes[o] /\ copy'[o] = copy[o]
      /\ order'[o] = order[o] /\ intent'[o] = intent[o]
      /\ (o \in paid' <=> o \in paid) /\ (o \in due' <=> o \in due)
  BY DEF SameOrder
<1>6. NotesFollow(o)'
  <2>1. (Busy(o) /\ job.pc = "answer") <=> (Busy(o)' /\ job'.pc = "answer")
    BY <1>3 DEF Busy
  <2> QED BY <1>5, <2>1 DEF OrderFollows, NotesFollow
<1>7. UnitsFollow(o)'
  BY <1>1, <1>2, <1>3, <1>5 DEF OrderFollows, UnitsFollow
<1>8. PaymentFollows(o)'
  BY <1>4, <1>5 DEF OrderFollows, PaymentFollows
<1>9. SweepFollows(o)'
  BY <1>3, <1>5 DEF OrderFollows, SweepFollows
<1> QED BY <1>6, <1>7, <1>8, <1>9 DEF OrderFollows

LEMMA ReviewStays ==
  ASSUME NEW v \in Reviews, SameOrder(Target[v]), ReviewFollows(v),
         job' = job \/ (~Busy(v) /\ ~Busy(v)')
  PROVE  ReviewFollows(v)'
<1> DEFINE o == Target[v]
<1>1. Busy(v)' <=> Busy(v)
  BY DEF Busy
<1>2. /\ notes'[o] = notes[o] /\ intent'[o] = intent[o] /\ at'[v] = at[v] /\ copy'[v] = copy[v]
      /\ (o \in paid' <=> o \in paid) /\ (o \in due' <=> o \in due)
  BY DEF SameOrder
<1>3. Reviewed(v)' <=> Reviewed(v)
  BY <1>2 DEF Reviewed
<1> QED BY <1>1, <1>2, <1>3 DEF ReviewFollows

\* Nobody waits with a request about o; what the coordinator does with it, if
\* anything, is sweep.
Free(o) == About(o) => job.op = "sweep"

LEMMA FreeOfOrders ==
  ASSUME Calm, AllInv, NEW o \in Quiet, at[o] \notin {"reserve", "release", "placed"}
  PROVE  Free(o)
BY JobCaller, JobParts DEF Free, About, Ops

LEMMA FreeOfReviews ==
  ASSUME Calm, AllInv, NEW o \in Quiet, at[o] = "placed",
         \A v \in Reviews : Target[v] = o => at[v] \notin Ops
  PROVE  Free(o)
BY JobCaller, JobParts DEF Free, About, Ops

\* One review of an order that is not waiting is enough: it is the only one.
LEMMA FreeOfReview ==
  ASSUME Calm, AllInv, NEW v \in Reviews, Active(v), at[v] \notin Ops
  PROVE  Free(Target[v]) /\ at[Target[v]] = "placed"
<1>1. at[Target[v]] = "placed" /\ Target[v] \in Quiet
  BY Parts DEF PlacesOK, Active
<1>2. \A w \in Reviews : Target[w] = Target[v] => at[w] \notin Ops
  BY OneReview DEF Active, Ops
<1> QED BY <1>1, <1>2, FreeOfReviews

\* A step of a caller at o that does not disturb a sweep of o leaves the job as
\* it was to the invariant.
LEMMA JobStays ==
  ASSUME Calm, AllInv, UNCHANGED <<moved, work>>, NEW o \in Orders, o \in Quiet => Free(o),
         \A c \in Callers : OrderFor(c) # o \/ at[c] \in Ops => at'[c] = at[c],
         \A p \in Quiet \ {o} : /\ notes'[p] = notes[p] /\ intent'[p] = intent[p]
                                /\ p \in paid' <=> p \in paid,
         due \subseteq due',
         About(o) /\ o \in Quiet /\ job.pc # "sync" => at'[o] = at[o] /\ notes'[o] = notes[o]
  PROVE  JobFollows'
<1> SUFFICES ASSUME job # Idle PROVE JobFollows'
  BY DEF JobFollows, work
<1> DEFINE q == job.of
           r == job.copy
           v == job.by
<1>1. job' = job /\ round' = round /\ q \in Orders
  BY JobParts DEF work
<1>2. CallerWaits'
  <2>1. job.op # "sweep" => at'[v] = at[v] /\ at[v] = job.op /\ round = NoRound
    BY JobCaller, JobParts DEF Ops
  <2> QED BY <1>1, <2>1, JobParts DEF CallerWaits
<1>3. ASSUME q \in Quiet PROVE JobDoes'
  <2>1. SameUnits(q)
    BY DEF SameUnits
  <2>2. /\ Kept(q)' <=> Kept(q)
        /\ Back(q)' <=> Back(q)
        /\ Unsold(q)' <=> Unsold(q)
        /\ AllSold(q)' <=> AllSold(q)
        /\ Complete(q)' <=> Complete(q)
        /\ Whole(q, r)' <=> Whole(q, r)
    <3>1. \A b \in Batches : Units("reserve", q, b)' = Units("reserve", q, b)
      BY <1>1, <2>1 DEF Units
    <3> QED BY <1>1, <3>1 DEF Kept, Back, Unsold, AllSold, Complete, Whole, Units
  <2>3. CASE job.op = "sweep"
    <3>1. Sweeping(q, r)
      BY <1>3, <2>3, JobParts DEF JobDoes
    <3>2. q = o => About(o)
      BY DEF About
    <3>3. job.pc # "sync" => at'[q] = at[q] /\ notes'[q] = notes[q]
      BY <1>1, <1>3, <3>2, CallerKinds
    <3>4. Sweeping(q, r)'
      BY <1>1, <2>2, <3>1, <3>3 DEF Sweeping
    <3> QED BY <1>1, <2>3, <3>4 DEF JobDoes
  <2>4. CASE job.op # "sweep"
    <3>1. q # o
      BY <1>3, <2>4 DEF Free, About
    <3>2. /\ notes'[q] = notes[q] /\ intent'[q] = intent[q]
          /\ (q \in paid' <=> q \in paid)
      BY <1>3, <3>1
    <3>3. job.op \in {"claim", "abort", "commit"} => Target[v] = q
      BY <2>4, JobCaller
    <3>4. job.op \in {"claim", "abort", "commit"} => (Reviewed(v)' <=> Reviewed(v))
      BY <1>1, <3>2, <3>3 DEF Reviewed
    <3>5. JobDoes
      BY <1>3, JobParts
    <3>6. job.op = "reserve" => Reserving(q, r)'
      BY <1>1, <2>2, <3>2, <3>5 DEF JobDoes, Reserving
    <3>7. job.op = "release" => Releasing(q, r)'
      BY <1>1, <2>2, <3>2, <3>5 DEF JobDoes, Releasing
    <3>8. job.op = "claim" => Claiming(q, r, v)'
      BY <1>1, <2>2, <3>2, <3>4, <3>5 DEF JobDoes, Claiming
    <3>9. job.op = "abort" => Aborting(q, r, v)'
      BY <1>1, <2>2, <3>2, <3>4, <3>5 DEF JobDoes, Aborting
    <3>10. job.op = "commit" => Committing(q, r, v)'
      BY <1>1, <2>2, <3>2, <3>4, <3>5 DEF JobDoes, Committing
    <3> QED BY <1>1, <2>4, <3>6, <3>7, <3>8, <3>9, <3>10 DEF JobDoes
  <2> QED BY <2>3, <2>4
<1> QED BY <1>1, <1>2, <1>3 DEF JobFollows

\* What is left to show of a step at one order.
LEMMA AtOneOrder ==
  ASSUME Calm, AllInv, NEW o \in Orders,
         \A p \in Quiet \ {o} :
            /\ SameOrder(p)
            /\ p \in round'.free => p \in round.free /\ round'.seen[p] = round.seen[p],
         \/ job' = job
         \/ /\ \A p \in Quiet \ {o} : ~About(p) /\ ~About(p)' /\ ~Busy(p) /\ ~Busy(p)'
            /\ \A v \in Reviews : Target[v] # o => ~Busy(v) /\ ~Busy(v)',
         PlacesOK', JobFollows', o \in Quiet => OrderFollows(o)',
         \A v \in Reviews : Target[v] = o => ReviewFollows(v)'
  PROVE  CalmInv'
<1>1. \A p \in Quiet \ {o} : OrderFollows(p)'
  <2> SUFFICES ASSUME NEW p \in Quiet \ {o} PROVE OrderFollows(p)'
    OBVIOUS
  <2>1. OrderFollows(p)
    BY DEF AllInv, CalmInv
  <2> QED BY <2>1, OrderStays
<1>2. \A v \in Reviews : Target[v] # o => ReviewFollows(v)'
  <2> SUFFICES ASSUME NEW v \in Reviews, Target[v] # o PROVE ReviewFollows(v)'
    OBVIOUS
  <2>1. ReviewFollows(v) /\ SameOrder(Target[v])
    BY Parts
  <2> QED BY <2>1, ReviewStays
<1> QED BY <1>1, <1>2 DEF CalmInv

LEMMA CallerStays ==
  ASSUME Calm, AllInv, UNCHANGED <<moved, work>>, NEW o \in Orders, o \in Quiet => Free(o),
         \A c \in Callers : OrderFor(c) # o => at'[c] = at[c] /\ copy'[c] = copy[c],
         \A c \in Callers : at[c] \in Ops => at'[c] = at[c],
         \A p \in Orders \ {o} :
            /\ notes'[p] = notes[p] /\ order'[p] = order[p] /\ intent'[p] = intent[p]
            /\ p \in paid' <=> p \in paid
            /\ p \in due' <=> p \in due,
         due \subseteq due',
         About(o) /\ o \in Quiet /\ job.pc # "sync" => at'[o] = at[o] /\ notes'[o] = notes[o],
         PlacesOK', o \in Quiet => OrderFollows(o)',
         \A v \in Reviews : Target[v] = o => ReviewFollows(v)'
  PROVE  CalmInv'
<1>1. \A p \in Quiet \ {o} : SameOrder(p)
  <2> SUFFICES ASSUME NEW p \in Quiet \ {o} PROVE SameOrder(p)
    OBVIOUS
  <2>1. SameUnits(p) /\ p \in Orders \ {o}
    BY CallerKinds DEF SameUnits
  <2>2. at'[p] = at[p] /\ copy'[p] = copy[p]
    BY <2>1, CallerKinds
  <2>3. \A v \in Reviews : Target[v] = p => at'[v] = at[v] /\ copy'[v] = copy[v]
    BY CallerKinds
  <2> QED BY <2>1, <2>2, <2>3 DEF SameOrder
<1>2. JobFollows'
  BY JobStays, CallerKinds
<1>3. job' = job /\ round' = round
  BY DEF work
<1> QED BY <1>1, <1>2, <1>3, AtOneOrder

\* A step of a caller at an order of the admins: of that nothing is said but where
\* its checkout is.
LEMMA ElsewhereStays ==
  ASSUME Calm, AllInv, UNCHANGED <<moved, work, due>>, NEW o \in Orders, o \notin Quiet,
         NEW c \in Callers, OrderFor(c) = o, at[c] \notin Ops,
         \A d \in Callers : d # c => at'[d] = at[d] /\ copy'[d] = copy[d],
         \A p \in Orders \ {o} :
            /\ notes'[p] = notes[p] /\ order'[p] = order[p] /\ intent'[p] = intent[p]
            /\ p \in paid' <=> p \in paid,
         c \in Orders => /\ at'[o] \in {"reserve", "jot", "placed", "release", "failed"}
                         /\ at[o] \notin {"placed", "failed"}
  PROVE  CalmInv'
<1>1. \A v \in Reviews : Target[v] # o /\ v # c /\ at'[v] = at[v]
  BY Parts, CallerKinds
<1>2. \A p \in Orders : p # o => at'[p] = at[p]
  BY CallerKinds
<1>3. at'[o] = at[o] \/ c = o
  BY CallerKinds
<1>4. PlacesOK'
  <2>1. PlacesOK
    BY Parts
  <2>2. \A p \in Orders : at'[p] \in {"idle", "reserve", "pay", "jot", "placed",
                                      "release", "cancel", "failed"}
    BY <1>2, <1>3, <2>1 DEF PlacesOK
  <2>3. o \in due => at'[o] = at[o]
    BY <1>3, <2>1 DEF PlacesOK
  <2>4. \A p \in due' : at'[p] \in {"placed", "failed"}
    BY <1>2, <2>1, <2>3 DEF PlacesOK, AllInv, IInv, TypeOK
  <2>5. \A v \in Reviews : at'[Target[v]] = at[Target[v]]
    BY <1>1, <1>2, CallerKinds
  <2> QED BY <1>1, <2>1, <2>2, <2>4, <2>5 DEF PlacesOK, Active
<1>5. \A d \in Callers : OrderFor(d) # o => at'[d] = at[d] /\ copy'[d] = copy[d]
  OBVIOUS
<1>6. \A d \in Callers : at[d] \in Ops => at'[d] = at[d]
  OBVIOUS
<1> QED BY <1>1, <1>4, <1>5, <1>6, CallerStays

\* A review, the only one of its order that is under way, goes on without touching
\* the reservation.
LEMMA ReviewMoves ==
  ASSUME Calm, AllInv, NEW v \in Reviews,
         \/ Active(v) /\ at[v] \notin Ops
         \/ /\ at[v] = "idle" /\ at[Target[v]] = "placed"
            /\ \A w \in Reviews : Target[w] = Target[v] => ~Active(w),
         NEW place, place \in {"claim", "notify", "settle", "commit", "confirm",
                               "abandon", "abort", "done"},
         at' = [at EXCEPT ![v] = place],
         UNCHANGED <<moved, work, due, notes>>,
         \A c \in Callers : c # v => copy'[c] = copy[c],
         \A p \in Orders : p # Target[v] =>
            /\ order'[p] = order[p] /\ intent'[p] = intent[p]
            /\ p \in paid' <=> p \in paid,
         PaymentFollows(Target[v])', ReviewFollows(v)'
  PROVE  CalmInv'
<1> DEFINE o == Target[v]
<1>1. /\ o \in Orders /\ o \in Quiet
      /\ v \in Callers /\ v \notin Orders /\ at \in [Callers -> PlaceType]
      /\ \A c \in Callers : at'[c] = IF c = v THEN place ELSE at[c]
  BY CallerKinds, Parts DEF AllInv, IInv, TypeOK
<1>2. Free(o) /\ at[o] = "placed"
  <2>1. CASE Active(v) /\ at[v] \notin Ops
    BY <2>1, FreeOfReview
  <2>2. CASE at[v] = "idle" /\ at[o] = "placed"
             /\ \A w \in Reviews : Target[w] = Target[v] => ~Active(w)
    BY <1>1, <2>2, FreeOfReviews DEF Active, Ops
  <2> QED BY <2>1, <2>2
<1>3. \A w \in Reviews : Target[w] = o /\ w # v => ~Active(w)
  BY OneReview
<1>4. \A w \in Reviews : w # v => at'[w] = at[w] /\ (Active(w)' <=> Active(w))
  BY <1>1, CallerKinds DEF Active
<1>5. \A p \in Orders : at'[p] = at[p] /\ copy'[p] = copy[p]
  BY <1>1, CallerKinds
<1>6. PlacesOK'
  <2>1. PlacesOK
    BY Parts
  <2>2. /\ \A p \in Orders : at'[p] \in {"idle", "reserve", "pay", "jot", "placed",
                                         "release", "cancel", "failed"}
        /\ \A p \in due' : at'[p] \in {"placed", "failed"}
    BY <1>5, <2>1 DEF PlacesOK, AllInv, IInv, TypeOK
  <2>3. ASSUME NEW w \in Reviews
        PROVE  /\ at'[w] \in {"idle", "claim", "notify", "settle", "commit", "confirm",
                              "abandon", "abort", "done"}
               /\ at'[w] # "idle" => at'[Target[w]] = "placed"
    BY <1>1, <1>2, <1>4, <1>5, <2>1, CallerKinds DEF PlacesOK
  <2>4. ASSUME NEW w \in Reviews, NEW x \in Reviews, Target[w] = Target[x],
               Active(w)', Active(x)'
        PROVE  w = x
    BY <1>3, <1>4, <2>4, OneReview
  <2> QED BY <2>2, <2>3, <2>4 DEF PlacesOK
<1>7. OrderFollows(o)'
  <2>1. /\ Kept(o)' <=> Kept(o)
        /\ Back(o)' <=> Back(o)
        /\ Unsold(o)' <=> Unsold(o)
        /\ AllSold(o)' <=> AllSold(o)
        /\ Complete(o)' <=> Complete(o)
        /\ Whole(o, notes[o])' <=> Whole(o, notes[o])
    BY DEF Kept, Back, Unsold, AllSold, Complete, Whole, Units
  <2>2. job' = job /\ round' = round
    BY DEF work
  <2>3. (Moving(o)' <=> Moving(o)) /\ (About(o)' <=> About(o)) /\ (Busy(o)' <=> Busy(o))
    BY <2>2 DEF Moving, About, Busy
  <2>4. NotesFollow(o)'
    BY <1>1, <1>5, <2>2, <2>3, Parts DEF NotesFollow
  <2>5. UnitsFollow(o)'
    BY <1>1, <1>5, <2>1, <2>3, Parts DEF UnitsFollow
  <2>6. SweepFollows(o)'
    BY <1>1, <1>5, <2>2, <2>3, Parts DEF SweepFollows
  <2> QED BY <2>4, <2>5, <2>6 DEF OrderFollows
<1>8. \A w \in Reviews : Target[w] = o => ReviewFollows(w)'
  <2> SUFFICES ASSUME NEW w \in Reviews, Target[w] = o, w # v PROVE ReviewFollows(w)'
    OBVIOUS
  <2>1. at'[w] \in {"idle", "done"}
    BY <1>3, <1>4 DEF Active
  <2> QED BY <2>1 DEF ReviewFollows
<1>9. \A c \in Callers : OrderFor(c) # o => at'[c] = at[c] /\ copy'[c] = copy[c]
  BY <1>1, CallerKinds
<1>10. \A p \in Orders \ {o} :
          /\ notes'[p] = notes[p] /\ order'[p] = order[p] /\ intent'[p] = intent[p]
          /\ p \in paid' <=> p \in paid
          /\ p \in due' <=> p \in due
  OBVIOUS
<1>11. About(o) /\ o \in Quiet /\ job.pc # "sync" => at'[o] = at[o] /\ notes'[o] = notes[o]
  BY <1>1, <1>5
<1>12. UNCHANGED <<moved, work>> /\ due \subseteq due'
  OBVIOUS
<1>13. \A c \in Callers : at[c] \in Ops => at'[c] = at[c]
  BY <1>1 DEF Ops, Active
<1> HIDE DEF o
<1> QED BY <1>1, <1>2, <1>6, <1>7, <1>8, <1>9, <1>10, <1>11, <1>12, <1>13, CallerStays

-----------------------------------------------------------------------------
(* The steps of a review.                                                  *)

\* What an order says of the only review of it that is under way.
LEMMA UnderReview ==
  ASSUME Calm, AllInv, NEW v \in Reviews, Active(v)
  PROVE  LET o == Target[v]
         IN  /\ o \in Quiet /\ at[o] = "placed"
             /\ notes[o].state = "payment_review" => at[v] # "confirm"
             /\ notes[o].state = "committed" =>
                  o \in paid \/ at[v] \in {"commit", "confirm"}
             /\ o \in paid => notes[o].state = "committed"
             /\ intent[o] = "paid" =>
                  \/ notes[o].state = "committed"
                  \/ notes[o].state = "payment_review" /\ at[v] \in {"settle", "commit"}
             /\ notes[o].state \in Live => order[o] # "cancelled"
             /\ notes[o].state = "expired" => o \in due
<1>1. \A w \in Reviews : Target[w] = Target[v] /\ Active(w) => w = v
  BY OneReview
<1>2. PaymentFollows(Target[v]) /\ Target[v] \in Quiet /\ at[Target[v]] = "placed"
  BY Parts DEF Active, PlacesOK
<1> QED BY <1>1, <1>2 DEF PaymentFollows, Active

\* Nobody reviews the order: then it is paid, or has a reservation that is open
\* or ended.
LEMMA NotUnderReview ==
  ASSUME Calm, AllInv, NEW o \in Quiet, at[o] = "placed",
         \A w \in Reviews : Target[w] = o => ~Active(w)
  PROVE  /\ o \in paid \/ notes[o].state \in {"reserved", "expired"}
         /\ o \in paid => notes[o].state = "committed"
         /\ intent[o] = "paid" => notes[o].state = "committed"
         /\ notes[o].state \in Live => order[o] # "cancelled"
         /\ notes[o].state = "expired" => o \in due
<1>1. PaymentFollows(o) /\ NotesFollow(o)
  BY Parts
<1> QED BY <1>1 DEF PaymentFollows, NotesFollow, Active, Live

LEMMA CalmPreflight ==
  ASSUME Calm, AllInv, NEW v \in Reviews, Preflight(v)
  PROVE  CalmInv'
<1> DEFINE o == Target[v]
<1>1. /\ at[v] = "idle" /\ at[o] = "placed"
      /\ \A w \in Reviews : Target[w] = Target[v] => ~Active(w)
      /\ UNCHANGED <<stock, records, due, work, faults>>
  BY DEF Preflight, Calm, Active
<1>2. o \in Quiet /\ v \in Callers /\ OrderFor(v) = o /\ v \notin Orders /\ o \in Callers
  BY CallerKinds, Parts
<1>3. /\ o \in paid \/ notes[o].state \in {"reserved", "expired"}
      /\ o \in paid => notes[o].state = "committed"
      /\ intent[o] = "paid" => notes[o].state = "committed"
      /\ notes[o].state \in Live => order[o] # "cancelled"
      /\ notes[o].state = "expired" => o \in due
  BY <1>1, <1>2, NotUnderReview
<1>4. PICK place : /\ Keep(v, place)
                   /\ \/ place = "notify" /\ o \in paid
                      \/ place = "done"
                      \/ place = "claim" /\ notes[o].state = "reserved" /\ o \notin paid
  BY <1>2, <1>3 DEF Preflight, Ended
<1>5. /\ at' = [at EXCEPT ![v] = place]
      /\ copy' = [copy EXCEPT ![v] = notes[o]]
  BY <1>2, <1>4 DEF Keep, Goto
<1>6. at'[v] = place /\ copy'[v] = notes[o] /\ at'[o] = at[o]
      /\ \A c \in Callers : c # v => copy'[c] = copy[c]
  BY <1>2, <1>5, CallerKinds DEF AllInv, IInv, TypeOK
<1>7. UNCHANGED <<moved, work, due, notes, order, intent, paid>>
  BY <1>1 DEF stock, records
<1>8. PaymentFollows(o)'
  BY <1>1, <1>3, <1>6, <1>7 DEF PaymentFollows, Live
<1>9. ReviewFollows(v)'
  BY <1>4, <1>6, <1>7 DEF ReviewFollows
<1> HIDE DEF o
<1>10. place \in {"claim", "notify", "settle", "commit", "confirm", "abandon",
                  "abort", "done"}
  BY <1>4
<1> QED BY <1>1, <1>5, <1>6, <1>7, <1>8, <1>9, <1>10, ReviewMoves DEF o

LEMMA CalmNotify ==
  ASSUME Calm, AllInv, NEW v \in Reviews, Notify(v)
  PROVE  CalmInv'
<1> DEFINE o == Target[v]
<1>1. at[v] = "notify" /\ Active(v) /\ at[v] \notin Ops
      /\ UNCHANGED <<stock, notes, order, paid, due, work, copy>>
  BY DEF Notify, Active, Ops
<1>2. o \in Orders /\ v \in Callers /\ v \notin Orders
  BY CallerKinds
<1>3. PICK place : /\ at' = [at EXCEPT ![v] = place]
                   /\ \/ place = "settle" /\ intent' = [intent EXCEPT ![o] = "paid"]
                      \/ place = "abandon" /\ intent' = intent
  BY NoFault DEF Notify, Goto, AllInv, Calm
<1>4. at'[v] = place /\ at'[o] = at[o]
  BY <1>2, <1>3, CallerKinds DEF AllInv, IInv, TypeOK
<1>5. /\ place = "settle" => intent'[o] = "paid"
      /\ place = "abandon" => intent'[o] = intent[o]
      /\ \A p \in Orders : p # o => intent'[p] = intent[p]
  BY <1>2, <1>3 DEF AllInv, IInv, TypeOK
<1>6. o \in paid \/ (Reviewed(v) /\ intent[o] # "paid")
  BY <1>1, Parts DEF ReviewFollows
<1>7. UNCHANGED <<moved, work, due, notes, order, paid>>
  BY <1>1 DEF stock
<1>8. PaymentFollows(o)'
  BY <1>1, <1>3, <1>4, <1>5, <1>6, <1>7, UnderReview
     DEF PaymentFollows, Live, Active, Reviewed
<1>9. ReviewFollows(v)'
  BY <1>3, <1>4, <1>5, <1>6, <1>7 DEF ReviewFollows, Reviewed
<1> HIDE DEF o
<1>10. place \in {"claim", "notify", "settle", "commit", "confirm", "abandon",
                  "abort", "done"}
  BY <1>3
<1>11. \A c \in Callers : c # v => copy'[c] = copy[c]
  BY <1>1
<1> QED BY <1>1, <1>3, <1>5, <1>7, <1>8, <1>9, <1>10, <1>11, ReviewMoves DEF o

LEMMA CalmSettle ==
  ASSUME Calm, AllInv, NEW v \in Reviews, Settle(v)
  PROVE  CalmInv'
<1> DEFINE o == Target[v]
<1>1. at[v] = "settle" /\ Active(v) /\ at[v] \notin Ops
      /\ UNCHANGED <<stock, records, due, work, faults>>
  BY DEF Settle, Active, Ops
<1>2. o \in Quiet /\ o \in Orders /\ v \in Callers /\ v \notin Orders /\ OrderFor(v) = o
  BY CallerKinds, Parts
<1>3. intent[o] = "paid" /\ (o \in paid \/ Reviewed(v))
  BY <1>1, Parts DEF ReviewFollows
<1>4. o \in paid => notes[o].state = "committed"
  BY <1>2, PaidIsCommitted
<1>5. PICK place : /\ Keep(v, place)
                   /\ \/ place = "commit" /\ Reviewed(v) /\ o \notin paid
                      \/ place = "confirm" /\ notes[o].state = "committed"
  BY <1>3, <1>4 DEF Settle, Reviewed
<1>6. /\ at' = [at EXCEPT ![v] = place]
      /\ copy' = [copy EXCEPT ![v] = notes[o]]
  BY <1>2, <1>5 DEF Keep, Goto
<1>7. at'[v] = place /\ copy'[v] = notes[o] /\ at'[o] = at[o]
      /\ \A c \in Callers : c # v => copy'[c] = copy[c]
  BY <1>2, <1>6, CallerKinds DEF AllInv, IInv, TypeOK
<1>8. UNCHANGED <<moved, work, due, notes, order, intent, paid>>
  BY <1>1 DEF stock, records
<1>9. PaymentFollows(o)'
  BY <1>1, <1>3, <1>4, <1>5, <1>7, <1>8, UnderReview
     DEF PaymentFollows, Live, Active, Reviewed
<1>10. ReviewFollows(v)'
  BY <1>3, <1>5, <1>7, <1>8 DEF ReviewFollows, Reviewed
<1> HIDE DEF o
<1>11. place \in {"claim", "notify", "settle", "commit", "confirm", "abandon",
                  "abort", "done"}
  BY <1>5
<1> QED BY <1>1, <1>6, <1>7, <1>8, <1>9, <1>10, <1>11, ReviewMoves DEF o

\* The order is marked paid; its notes are written as they are.
LEMMA CalmConfirm ==
  ASSUME Calm, AllInv, NEW v \in Reviews, Confirm(v)
  PROVE  CalmInv'
<1> DEFINE o == Target[v]
<1>1. at[v] = "confirm" /\ Active(v) /\ at[v] \notin Ops
      /\ UNCHANGED <<stock, intent, due, work, copy>>
  BY DEF Confirm, Active, Ops
<1>2. o \in Orders /\ v \in Callers /\ v \notin Orders
  BY CallerKinds
<1>3. notes[o].state = "committed" /\ copy[v] = notes[o] /\ intent[o] = "paid"
  BY <1>1, Parts DEF ReviewFollows
<1>4. /\ at' = [at EXCEPT ![v] = "done"]
      /\ order' = [order EXCEPT ![o] = "confirmed"]
      /\ paid' = paid \cup {o}
      /\ notes' = [notes EXCEPT ![o] = copy[v]]
  BY NoFault DEF Confirm, Goto, AllInv, Calm
<1>5. notes' = notes
  BY <1>2, <1>3, <1>4 DEF AllInv, IInv, TypeOK
<1>6. at'[v] = "done" /\ at'[o] = at[o] /\ order'[o] = "confirmed" /\ o \in paid'
      /\ \A p \in Orders : p # o => order'[p] = order[p] /\ (p \in paid' <=> p \in paid)
  BY <1>2, <1>4, CallerKinds DEF AllInv, IInv, TypeOK
<1>7. UNCHANGED <<moved, work, due, intent>>
  BY <1>1 DEF stock
<1>8. PaymentFollows(o)'
  BY <1>3, <1>5, <1>6 DEF PaymentFollows
<1>9. ReviewFollows(v)'
  BY <1>6 DEF ReviewFollows
<1> HIDE DEF o
<1>10. \A c \in Callers : c # v => copy'[c] = copy[c]
  BY <1>1
<1> QED BY <1>1, <1>4, <1>5, <1>6, <1>7, <1>8, <1>9, <1>10, ReviewMoves DEF o

LEMMA CalmAbandon ==
  ASSUME Calm, AllInv, NEW v \in Reviews, Abandon(v)
  PROVE  CalmInv'
<1> DEFINE o == Target[v]
<1>1. at[v] = "abandon" /\ Active(v) /\ at[v] \notin Ops
      /\ UNCHANGED <<stock, records, due, work, faults>>
  BY DEF Abandon, Active, Ops
<1>2. o \in Quiet /\ o \in Orders /\ v \in Callers /\ v \notin Orders /\ OrderFor(v) = o
  BY CallerKinds, Parts
<1>3. o \in paid \/ (Reviewed(v) /\ intent[o] # "paid")
  BY <1>1, Parts DEF ReviewFollows
<1>4. o \in paid => notes[o].state = "committed"
  BY <1>2, PaidIsCommitted
<1>5. PICK place : /\ Keep(v, place)
                   /\ \/ place = "abort" /\ Reviewed(v) /\ o \notin paid /\ intent[o] # "paid"
                      \/ place = "done" /\ o \in paid
  BY <1>3, <1>4 DEF Abandon, Reviewed
<1>6. /\ at' = [at EXCEPT ![v] = place]
      /\ copy' = [copy EXCEPT ![v] = notes[o]]
  BY <1>2, <1>5 DEF Keep, Goto
<1>7. at'[v] = place /\ copy'[v] = notes[o] /\ at'[o] = at[o]
      /\ \A c \in Callers : c # v => copy'[c] = copy[c]
  BY <1>2, <1>6, CallerKinds DEF AllInv, IInv, TypeOK
<1>8. UNCHANGED <<moved, work, due, notes, order, intent, paid>>
  BY <1>1 DEF stock, records
<1>9. PaymentFollows(o)'
  BY <1>1, <1>3, <1>4, <1>5, <1>7, <1>8, UnderReview
     DEF PaymentFollows, Live, Active, Reviewed
<1>10. ReviewFollows(v)'
  BY <1>5, <1>7, <1>8 DEF ReviewFollows, Reviewed
<1> HIDE DEF o
<1>11. place \in {"claim", "notify", "settle", "commit", "confirm", "abandon",
                  "abort", "done"}
  BY <1>5
<1> QED BY <1>1, <1>6, <1>7, <1>8, <1>9, <1>10, <1>11, ReviewMoves DEF o

-----------------------------------------------------------------------------
(* The steps of a checkout, and time.                                      *)

\* Before its customer has the payment link, and while no request of it is with
\* the coordinator, an order is the business of its checkout alone.
LEMMA CheckoutAlone ==
  ASSUME Calm, AllInv, NEW o \in Quiet, at[o] \in {"idle", "pay", "jot", "cancel"}
  PROVE  /\ o \notin due /\ o \notin paid /\ intent[o] # "paid"
         /\ notes[o].state \notin {"payment_review", "committed", "expired"}
         /\ \A v \in Reviews : Target[v] = o => at[v] = "idle"
         /\ Free(o) /\ (About(o) => job.pc = "sync") /\ ~Moving(o) /\ ~Busy(o)
         /\ o \notin round.free
<1>1. notes[o].state \notin {"payment_review", "committed", "expired"}
  BY StateAtPlaced
<1>2. o \notin due /\ \A v \in Reviews : Target[v] = o => at[v] = "idle"
  BY Parts, CallerKinds DEF PlacesOK
<1>3. o \notin paid /\ intent[o] # "paid"
  BY <1>1, Parts DEF PaymentFollows
<1>4. Free(o)
  BY FreeOfOrders
<1>5. About(o) => job.op = "sweep" /\ job.pc = "sync"
  BY <1>4, JobParts DEF Free, About, JobDoes, Sweeping
<1>6. o \notin round.free
  BY Parts DEF SweepFollows
<1>7. ~Busy(o)
  <2> SUFFICES ASSUME Busy(o) PROVE FALSE
    OBVIOUS
  <2>1. job # Idle /\ job.by = o /\ o # Nobody
    BY CallersAssumption, CallerKinds DEF Busy, Callers, CallersAssumption
  <2>2. job.op # "sweep"
    BY <2>1, JobParts DEF CallerWaits
  <2> QED BY <2>1, <2>2, JobCaller, JobParts DEF Ops
<1> QED BY <1>1, <1>2, <1>3, <1>4, <1>5, <1>6, <1>7 DEF Moving

LEMMA CheckoutMoves ==
  ASSUME Calm, AllInv, NEW o \in Quiet, at[o] \in {"idle", "pay", "jot", "cancel"},
         NEW place, place \in {"reserve", "jot", "placed", "release", "failed"},
         at' = [at EXCEPT ![o] = place],
         UNCHANGED <<moved, work, due, copy, paid>>,
         \A p \in Orders : p # o =>
            notes'[p] = notes[p] /\ order'[p] = order[p] /\ intent'[p] = intent[p],
         NotesFollow(o)', UnitsFollow(o)', PaymentFollows(o)'
  PROVE  CalmInv'
<1>1. /\ o \in Orders /\ o \in Callers /\ at \in [Callers -> PlaceType]
      /\ \A c \in Callers : at'[c] = IF c = o THEN place ELSE at[c]
  BY CallerKinds DEF AllInv, IInv, TypeOK
<1>2. /\ o \notin due
      /\ \A v \in Reviews : Target[v] = o => at[v] = "idle"
      /\ Free(o) /\ (About(o) => job.pc = "sync")
      /\ o \notin round.free
  BY CheckoutAlone
<1>3. \A v \in Reviews : at'[v] = at[v] /\ (Active(v)' <=> Active(v))
  BY <1>1, CallerKinds DEF Active
<1>4. PlacesOK'
  <2>1. PlacesOK
    BY Parts
  <2>2. /\ \A p \in Orders : at'[p] \in {"idle", "reserve", "pay", "jot", "placed",
                                         "release", "cancel", "failed"}
        /\ \A p \in due' : at'[p] \in {"placed", "failed"}
    BY <1>1, <1>2, <2>1, CallerKinds DEF PlacesOK, AllInv, IInv, TypeOK
  <2>3. ASSUME NEW w \in Reviews
        PROVE  /\ at'[w] \in {"idle", "claim", "notify", "settle", "commit", "confirm",
                              "abandon", "abort", "done"}
               /\ at'[w] # "idle" => at'[Target[w]] = "placed"
    BY <1>1, <1>2, <1>3, <2>1, CallerKinds DEF PlacesOK
  <2> QED BY <1>3, <2>1, <2>2, <2>3 DEF PlacesOK
<1>5. SweepFollows(o)'
  BY <1>2 DEF SweepFollows, work
<1>6. \A v \in Reviews : Target[v] = o => ReviewFollows(v)'
  BY <1>2, <1>3 DEF ReviewFollows
<1>7. OrderFollows(o)'
  BY <1>5 DEF OrderFollows
<1>8. \A c \in Callers : OrderFor(c) # o => at'[c] = at[c] /\ copy'[c] = copy[c]
  BY <1>1, CallerKinds
<1>9. \A p \in Orders \ {o} :
          /\ notes'[p] = notes[p] /\ order'[p] = order[p] /\ intent'[p] = intent[p]
          /\ p \in paid' <=> p \in paid
          /\ p \in due' <=> p \in due
  OBVIOUS
<1>10. About(o) /\ job.pc # "sync" => at'[o] = at[o] /\ notes'[o] = notes[o]
  BY <1>2
<1>11. UNCHANGED <<moved, work>> /\ due \subseteq due'
  OBVIOUS
<1>12. \A c \in Callers : at[c] \in Ops => at'[c] = at[c]
  BY <1>1 DEF Ops
<1> QED BY <1>1, <1>2, <1>4, <1>6, <1>7, <1>8, <1>9, <1>10, <1>11, <1>12, CallerStays

\* With the movements, and the work, as they are, so is what they say of o.
LEMMA MovementsStay ==
  ASSUME UNCHANGED <<moved, work>>, NEW o
  PROVE  /\ Kept(o)' <=> Kept(o)
         /\ Back(o)' <=> Back(o)
         /\ Unsold(o)' <=> Unsold(o)
         /\ AllSold(o)' <=> AllSold(o)
         /\ Complete(o)' <=> Complete(o)
         /\ (Moving(o)' <=> Moving(o)) /\ (Busy(o)' <=> Busy(o)) /\ (About(o)' <=> About(o))
BY DEF Kept, Back, Unsold, AllSold, Complete, Moving, Busy, About, Units, work

LEMMA CalmPlace ==
  ASSUME Calm, AllInv, NEW o \in Quiet, Place(o)
  PROVE  CalmInv'
<1>1. /\ at[o] = "idle" /\ at' = [at EXCEPT ![o] = "reserve"]
      /\ order' = [order EXCEPT ![o] = "draft"]
      /\ UNCHANGED <<moved, work, due, copy, paid, notes, intent>>
  BY DEF Place, Goto, stock
<1>2. at'[o] = "reserve" /\ \A p \in Orders : p # o => order'[p] = order[p]
  BY <1>1, CallerKinds DEF AllInv, IInv, TypeOK
<1>3. ~Moving(o) /\ ~Busy(o) /\ o \notin paid /\ intent[o] # "paid"
      /\ notes[o].state \notin {"payment_review", "committed", "expired"}
  BY <1>1, CheckoutAlone
<1>4. NotesFollow(o)'
  BY <1>1, <1>2, <1>3, MovementsStay, Parts DEF NotesFollow
<1>5. UnitsFollow(o)'
  BY <1>1, <1>2, <1>3, MovementsStay, Parts DEF UnitsFollow
<1>6. PaymentFollows(o)'
  BY <1>1, <1>2, <1>3 DEF PaymentFollows
<1> QED BY <1>1, <1>2, <1>4, <1>5, <1>6, CheckoutMoves

LEMMA CalmPay ==
  ASSUME Calm, AllInv, NEW o \in Quiet, Pay(o)
  PROVE  CalmInv'
<1>1. at[o] = "pay" /\ UNCHANGED <<moved, work, due, copy, paid, notes, order>>
  BY DEF Pay, stock
<1>2. PICK place : /\ at' = [at EXCEPT ![o] = place]
                   /\ \/ /\ place = "jot" /\ order[o] # "cancelled"
                         /\ intent' = [intent EXCEPT ![o] = "pending"]
                      \/ place = "release" /\ intent' = intent
  BY NoFault DEF Pay, Goto, AllInv, Calm
<1>3. /\ at'[o] = place /\ intent'[o] \in {"pending", intent[o]}
      /\ \A p \in Orders : p # o => intent'[p] = intent[p]
  BY <1>2, CallerKinds DEF AllInv, IInv, TypeOK
<1>4. ~Moving(o) /\ ~Busy(o) /\ o \notin paid /\ intent[o] # "paid"
      /\ notes[o].state \notin {"payment_review", "committed", "expired"}
  BY <1>1, CheckoutAlone
<1>5. place \in {"reserve", "jot", "placed", "release", "failed"}
  BY <1>2
<1>6. NotesFollow(o)'
  BY <1>1, <1>2, <1>3, Parts DEF NotesFollow
<1>7. UnitsFollow(o)'
  <2>1. Whole(o, notes[o])' <=> Whole(o, notes[o])
    BY <1>1 DEF Whole, Units
  <2> QED BY <1>1, <1>2, <1>3, <1>4, <2>1, MovementsStay, Parts DEF UnitsFollow
<1>8. PaymentFollows(o)'
  BY <1>1, <1>2, <1>3, <1>4 DEF PaymentFollows
<1> QED BY <1>1, <1>2, <1>3, <1>5, <1>6, <1>7, <1>8, CheckoutMoves

LEMMA CalmJot ==
  ASSUME Calm, AllInv, NEW o \in Quiet, Jot(o)
  PROVE  CalmInv'
<1>1. /\ at[o] = "jot" /\ at' = [at EXCEPT ![o] = "placed"]
      /\ notes' = [notes EXCEPT ![o] = copy[o]]
      /\ UNCHANGED <<moved, work, due, copy, paid, intent, order>>
  BY NoFault DEF Jot, Goto, AllInv, Calm, stock
<1>2. notes[o].state = "reserved" /\ copy[o] = notes[o]
  BY <1>1, Parts DEF NotesFollow
<1>3. notes' = notes
  BY <1>1, <1>2 DEF AllInv, IInv, TypeOK
<1>4. at'[o] = "placed"
  BY <1>1, CallerKinds DEF AllInv, IInv, TypeOK
<1>5. ~Moving(o) /\ ~Busy(o) /\ o \notin paid /\ intent[o] # "paid"
  BY <1>1, CheckoutAlone
<1>6. NotesFollow(o)'
  BY <1>2, <1>3, <1>4 DEF NotesFollow, Live
<1>7. UnitsFollow(o)'
  <2>1. Whole(o, notes[o])' <=> Whole(o, notes[o])
    BY <1>1, <1>3 DEF Whole, Units
  <2> QED BY <1>1, <1>2, <1>3, <1>4, <1>5, <2>1, MovementsStay, Parts DEF UnitsFollow
<1>8. PaymentFollows(o)'
  <2>1. order[o] # "cancelled"
    BY <1>1, <1>2, Parts DEF PaymentFollows, Live
  <2> QED BY <1>1, <1>2, <1>3, <1>4, <1>5, <2>1 DEF PaymentFollows
<1> QED BY <1>1, <1>3, <1>6, <1>7, <1>8, CheckoutMoves

LEMMA CalmCancel ==
  ASSUME Calm, AllInv, NEW o \in Quiet, Cancel(o)
  PROVE  CalmInv'
<1>1. /\ at[o] = "cancel" /\ at' = [at EXCEPT ![o] = "failed"]
      /\ notes' = [notes EXCEPT ![o] = copy[o]]
      /\ order' = [order EXCEPT ![o] = "cancelled"]
      /\ UNCHANGED <<moved, work, due, copy, paid, intent>>
  BY NoFault, CallerKinds DEF Cancel, Goto, AllInv, Calm, stock
<1>2. copy[o].state \in {"none", "released"}
  BY <1>1, Parts DEF NotesFollow
<1>3. /\ at'[o] = "failed" /\ notes'[o] = copy[o]
      /\ \A p \in Orders : p # o => notes'[p] = notes[p] /\ order'[p] = order[p]
  BY <1>1, CallerKinds DEF AllInv, IInv, TypeOK
<1>4. ~Moving(o) /\ ~Busy(o) /\ o \notin paid /\ intent[o] # "paid"
      /\ notes[o].state \notin {"payment_review", "committed", "expired"}
  BY <1>1, CheckoutAlone
<1>5. NotesFollow(o)'
  BY <1>2, <1>3 DEF NotesFollow
<1>6. UnitsFollow(o)'
  BY <1>1, <1>2, <1>3, <1>4, MovementsStay, Parts DEF UnitsFollow
<1>7. PaymentFollows(o)'
  BY <1>1, <1>2, <1>3, <1>4 DEF PaymentFollows
<1> QED BY <1>1, <1>3, <1>5, <1>6, <1>7, CheckoutMoves

\* The checkout of an order that an admin may cancel.
LEMMA CalmElsewhere ==
  ASSUME Calm, AllInv, NEW o \in Orders, o \notin Quiet, Place(o) \/ CheckoutStep(o)
  PROVE  CalmInv'
<1>1. o \in Callers /\ OrderFor(o) = o
  BY CallerKinds
<1>2. PICK place \in {"reserve", "jot", "placed", "release", "failed"} :
        at' = [at EXCEPT ![o] = place]
  <2>1. Cancel(o) => at' = [at EXCEPT ![o] = "failed"]
    BY DEF Cancel, Goto
  <2> QED BY <2>1 DEF CheckoutStep, Place, Pay, Jot, Goto
<1>3. at[o] \in {"idle", "pay", "jot", "cancel"} /\ UNCHANGED <<moved, work, due, copy, paid>>
  BY DEF CheckoutStep, Place, Pay, Jot, Cancel, stock
<1>4. \A p \in Orders \ {o} :
        notes'[p] = notes[p] /\ order'[p] = order[p] /\ intent'[p] = intent[p]
  BY <1>1 DEF CheckoutStep, Place, Pay, Jot, Cancel, AllInv, IInv, TypeOK
<1>5. at'[o] = place /\ \A d \in Callers : d # o => at'[d] = at[d] /\ copy'[d] = copy[d]
  BY <1>1, <1>2, <1>3 DEF AllInv, IInv, TypeOK
<1>6. at[o] \notin Ops /\ at[o] \notin {"placed", "failed"}
  BY <1>3 DEF Ops
<1> QED BY <1>1, <1>3, <1>4, <1>5, <1>6, ElsewhereStays

\* A cancellation by an admin.
LEMMA CalmAdmin ==
  ASSUME Calm, AllInv, NEW a \in Admins, AdminCancel(a) \/ Cancel(a)
  PROVE  CalmInv'
<1> DEFINE o == Target[a]
<1>1. o \in Orders /\ o \notin Quiet /\ OrderFor(a) = o /\ a \in Callers /\ a \notin Orders
  BY CallersAssumption, CallerKinds DEF CallersAssumption, OrderFor, Quiet
<1>2. PICK place : at' = [at EXCEPT ![a] = place]
  BY DEF AdminCancel, Cancel, Keep, Goto
<1>3. at[a] \in {"idle", "cancel"} /\ UNCHANGED <<moved, work, due, intent, paid>>
  BY DEF AdminCancel, Cancel, stock, records
<1>4. \A p \in Orders \ {o} : notes'[p] = notes[p] /\ order'[p] = order[p]
  BY <1>1 DEF AdminCancel, Cancel, records, AllInv, IInv, TypeOK
<1>5. \A d \in Callers : d # a => at'[d] = at[d] /\ copy'[d] = copy[d]
  BY <1>1, <1>2 DEF AdminCancel, Cancel, Keep, AllInv, IInv, TypeOK
<1>6. at[a] \notin Ops
  BY <1>3 DEF Ops
<1> HIDE DEF o
<1> QED BY <1>1, <1>3, <1>4, <1>5, <1>6, ElsewhereStays

LEMMA CalmTick ==
  ASSUME Calm, AllInv, NEW t \in Orders, Tick(t)
  PROVE  CalmInv'
<1>1. /\ at[t] \in {"placed", "failed", "done"} /\ due' = due \cup {t}
      /\ UNCHANGED <<moved, notes, order, paid, intent, work, at, copy>>
  BY DEF Tick, stock, records, callers
<1>2. PlacesOK'
  <2>1. at[t] \in {"placed", "failed"}
    BY <1>1, Parts DEF PlacesOK
  <2> QED BY <1>1, <2>1, Parts DEF PlacesOK, Active
<1>3. job' = job /\ round' = round /\ \A p : p \in due => p \in due'
  BY <1>1 DEF work
<1>4. \A v \in Reviews : (Reviewed(v)' <=> Reviewed(v)) /\ (Active(v)' <=> Active(v))
  BY <1>1 DEF Reviewed, Active
<1>5. ASSUME NEW o \in Quiet
      PROVE  OrderFollows(o)'
  <2>1. Whole(o, notes[o])' <=> Whole(o, notes[o])
    BY <1>1 DEF Whole, Units
  <2>2. NotesFollow(o)'
    BY <1>1, <1>3, MovementsStay, Parts DEF NotesFollow
  <2>3. UnitsFollow(o)'
    BY <1>1, <2>1, MovementsStay, Parts DEF UnitsFollow
  <2>4. PaymentFollows(o)'
    BY <1>1, <1>3, <1>4, Parts DEF PaymentFollows
  <2>5. SweepFollows(o)'
    BY <1>1, <1>3, MovementsStay, Parts DEF SweepFollows
  <2> QED BY <2>2, <2>3, <2>4, <2>5 DEF OrderFollows
<1>6. ASSUME NEW v \in Reviews
      PROVE  ReviewFollows(v)'
  <2>1. Busy(v)' <=> Busy(v)
    BY <1>3 DEF Busy
  <2> QED BY <1>1, <1>3, <1>4, <2>1, Parts DEF ReviewFollows
<1>7. JobFollows'
  <2> SUFFICES ASSUME job # Idle PROVE JobFollows'
    BY <1>3 DEF JobFollows
  <2>1. /\ Kept(job.of)' <=> Kept(job.of)
        /\ Back(job.of)' <=> Back(job.of)
        /\ Unsold(job.of)' <=> Unsold(job.of)
        /\ AllSold(job.of)' <=> AllSold(job.of)
        /\ Complete(job.of)' <=> Complete(job.of)
        /\ Whole(job.of, job.copy)' <=> Whole(job.of, job.copy)
    BY <1>1, <1>3 DEF Kept, Back, Unsold, AllSold, Complete, Whole, Units
  <2>2. CallerWaits'
    BY <1>1, <1>3, JobParts DEF CallerWaits
  <2>3. Reviewed(job.by)' <=> Reviewed(job.by)
    BY <1>1, <1>3 DEF Reviewed
  <2>4. ASSUME job.of \in Quiet PROVE JobDoes'
    <3>1. JobDoes
      BY <2>4, JobParts
    <3>2. job.op = "reserve" => Reserving(job.of, job.copy)'
      BY <1>1, <1>3, <2>1, <3>1 DEF JobDoes, Reserving
    <3>3. job.op = "release" => Releasing(job.of, job.copy)'
      BY <1>1, <1>3, <2>1, <3>1 DEF JobDoes, Releasing
    <3>4. job.op = "claim" => Claiming(job.of, job.copy, job.by)'
      BY <1>1, <1>3, <2>3, <3>1 DEF JobDoes, Claiming
    <3>5. job.op = "abort" => Aborting(job.of, job.copy, job.by)'
      BY <1>1, <1>3, <2>1, <2>3, <3>1 DEF JobDoes, Aborting
    <3>6. job.op = "commit" => Committing(job.of, job.copy, job.by)'
      BY <1>1, <1>3, <2>1, <2>3, <3>1 DEF JobDoes, Committing
    <3>7. job.op = "sweep" => Sweeping(job.of, job.copy)'
      BY <1>1, <1>3, <2>1, <3>1 DEF JobDoes, Sweeping
    <3> QED BY <1>3, <3>2, <3>3, <3>4, <3>5, <3>6, <3>7 DEF JobDoes
  <2> QED BY <1>3, <2>2, <2>4 DEF JobFollows
<1> QED BY <1>2, <1>5, <1>6, <1>7 DEF CalmInv

-----------------------------------------------------------------------------
(* The requests.                                                           *)

\* A step of the idle coordinator that begins a job, or a sweep, and changes nothing
\* else.
LEMMA FromIdle ==
  ASSUME Calm, AllInv, job = Idle, UNCHANGED <<moved, records, due, callers>>, JobFollows',
         \A o \in Quiet : SweepFollows(o)'
  PROVE  CalmInv'
<1>1. UNCHANGED <<moved, notes, order, paid, intent, due, at, copy>>
  BY DEF records, callers
<1>2. \A v \in Reviews : (Reviewed(v)' <=> Reviewed(v)) /\ (Active(v)' <=> Active(v))
  BY <1>1 DEF Reviewed, Active
<1>3. PlacesOK'
  BY <1>1, Parts DEF PlacesOK, Active
<1>4. \A c : ~Busy(c) /\ ~About(c) /\ ~Moving(c)
  BY DEF Busy, About, Moving
<1>5. ASSUME NEW o \in Quiet
      PROVE  OrderFollows(o)'
  <2>1. SameUnits(o)
    BY <1>1 DEF SameUnits
  <2>2. Whole(o, notes[o])' <=> Whole(o, notes[o])
    BY <1>1 DEF Whole, Units
  <2>3. NotesFollow(o)'
    BY <1>1, <1>4, Parts DEF NotesFollow
  <2>4. UnitsFollow(o)'
    BY <1>1, <1>4, <2>1, <2>2, UnitsStay, Parts DEF UnitsFollow
  <2>5. PaymentFollows(o)'
    BY <1>1, <1>2, Parts DEF PaymentFollows
  <2> QED BY <2>3, <2>4, <2>5 DEF OrderFollows
<1>6. ASSUME NEW v \in Reviews
      PROVE  ReviewFollows(v)'
  BY <1>1, <1>2, <1>4, Parts DEF ReviewFollows
<1> QED BY <1>3, <1>5, <1>6 DEF CalmInv

\* A request taken up changes nothing but the job.
LEMMA TakenUp ==
  ASSUME Calm, AllInv, job = Idle, round = NoRound,
         UNCHANGED <<moved, records, due, round, callers>>, JobFollows'
  PROVE  CalmInv'
<1>1. \A o \in Quiet : SweepFollows(o)'
  BY DEF SweepFollows, NoRound
<1> QED BY <1>1, FromIdle

\* With no job, the notes of an order say where its units are.
LEMMA WhenIdle ==
  ASSUME Calm, AllInv, job = Idle, NEW o \in Quiet,
         at[o] \in {"pay", "jot", "release", "placed"}, notes[o].state \in Live
  PROVE  /\ Whole(o, notes[o]) /\ Kept(o) /\ Complete(o)
         /\ notes[o].state # "committed" => Unsold(o)
<1>1. ~Moving(o)
  BY DEF Moving, About
<1> QED BY <1>1, Parts DEF UnitsFollow

LEMMA ReservesNothingYet ==
  ASSUME Calm, AllInv, NEW o \in Orders, Asking(o)
  PROVE  /\ Kept(o) /\ Unsold(o) /\ Whole(o, NoReservation)
         /\ SumFunction(moved["reserve"][o]) = 0
<1>1. \A kind \in Kinds, b \in Batches : Units(kind, o, b) = 0
  BY Parts DEF MovesInv, NothingYet, Kinds
<1>2. moved["reserve"][o] = [b \in Batches |-> 0]
  <2>1. moved["reserve"][o] \in [Batches -> Nat]
    BY UnitsType, Parts DEF Kinds
  <2>2. \A b \in Batches : moved["reserve"][o][b] = 0
    BY <1>1 DEF Units, Kinds
  <2> QED BY <2>1, <2>2
<1>3. IsFiniteSet(Batches)
  BY StockAssumption, FS_Interval DEF Batches, StockAssumption
<1>4. SumFunction(moved["reserve"][o]) = 0
  BY <1>2, <1>3, SumOfZeros
<1> QED BY <1>1, <1>4 DEF Kept, Unsold, Whole, Kinds, NoReservation, NoUnits

LEMMA CalmReserve ==
  ASSUME Calm, AllInv, NEW o \in Orders, Reserve(o)
  PROVE  CalmInv'
<1> DEFINE r == [NoReservation EXCEPT !.state = "reserved"]
<1>1. /\ job = Idle /\ round = NoRound /\ at[o] = "reserve"
      /\ UNCHANGED <<moved, records, due, round, callers>>
  BY DEF Reserve, Takes, stock
<1>2. /\ job' # Idle /\ job'.op = "reserve" /\ job'.by = o /\ job'.of = o
      /\ job'.pc = "take" /\ job'.copy = r /\ job'.left = Need[o]
  BY CallerKinds DEF Reserve, JobFor, Idle
<1>3. /\ Kept(o) /\ Unsold(o) /\ Whole(o, NoReservation)
      /\ SumFunction(moved["reserve"][o]) = 0
  BY <1>1, ReservesNothingYet DEF Asking
<1>4. r.alloc = NoReservation.alloc /\ r.state = "reserved"
  BY DEF NoReservation
<1>5. /\ Kept(o)' <=> Kept(o)
      /\ Unsold(o)' <=> Unsold(o)
      /\ moved'["reserve"][o] = moved["reserve"][o]
      /\ Whole(o, job.copy)' <=> Whole(o, NoReservation)
  BY <1>1, <1>2, <1>4 DEF Kept, Unsold, Whole, Units
<1>6. Need[o] \in Nat
  BY StockAssumption DEF StockAssumption
<1> HIDE DEF r
<1>7. Reserving(o, job.copy)'
  BY <1>1, <1>2, <1>3, <1>4, <1>5, <1>6 DEF Reserving
<1>8. CallerWaits'
  BY <1>1, <1>2 DEF CallerWaits, callers
<1>9. JobFollows'
  BY <1>2, <1>7, <1>8 DEF JobFollows, JobDoes
<1> QED BY <1>1, <1>9, TakenUp

LEMMA CalmRelease ==
  ASSUME Calm, AllInv, NEW c \in Orders \cup Admins, Release(c)
  PROVE  CalmInv'
<1> DEFINE o == OrderFor(c)
<1>1. /\ job = Idle /\ round = NoRound /\ at[c] = "release"
      /\ UNCHANGED <<moved, records, due, round, callers>>
  BY DEF Release, Takes, stock
<1>2. job' # Idle /\ job'.op = "release" /\ job'.by = c /\ job'.of = o
  BY DEF Release, JobFor, Idle
<1>3. ASSUME o \in Quiet PROVE JobDoes'
  <2>1. c = o /\ OrderFor(o) = o
    BY <1>3, CallersAssumption, CallerKinds DEF CallersAssumption, OrderFor, Quiet
  <2>2. copy[o] = notes[o] /\ notes[o].state = "reserved"
    BY <1>1, <1>3, <2>1, Parts DEF NotesFollow
  <2>3. job' = JobFor("release", c, copy[c], "give", Unmoved("release", o, copy[c]))
    BY <2>1, <2>2 DEF Release
  <2>4. job'.pc = "give" /\ job'.copy = copy[o]
    BY <2>1, <2>3 DEF JobFor
  <2>5. Unsold(o) /\ Whole(o, notes[o])
    BY <1>1, <1>3, <2>1, <2>2, WhenIdle DEF Live
  <2>6. Releasing(o, job.copy)'
    BY <1>1, <2>2, <2>4, <2>5 DEF Releasing, Unsold, Whole, Units
  <2> QED BY <1>2, <2>6 DEF JobDoes
<1>4. CallerWaits'
  BY <1>1, <1>2 DEF CallerWaits, callers
<1> HIDE DEF o
<1>5. JobFollows'
  BY <1>2, <1>3, <1>4 DEF JobFollows
<1> QED BY <1>1, <1>5, TakenUp

LEMMA CalmClaim ==
  ASSUME Calm, AllInv, NEW v \in Reviews, Claim(v)
  PROVE  CalmInv'
<1> DEFINE o == Target[v]
           r == copy[v]
           claimed == [r EXCEPT !.state = "payment_review", !.key = KeyOf[v]]
<1>1. /\ job = Idle /\ round = NoRound /\ at[v] = "claim"
      /\ UNCHANGED <<moved, records, due, round, callers>>
  BY DEF Claim, Takes, stock
<1>2. /\ r.state = "reserved" /\ o \notin paid
      /\ notes[o] = r \/ (o \in due /\ notes[o].state = "expired")
  BY <1>1, Parts DEF ReviewFollows, Busy
<1>3. \/ job' = JobFor("claim", v, claimed, "save", {}) /\ o \notin due
      \/ job' = JobFor("claim", v, r, "refuse", {}) /\ o \in due
  BY <1>2, CallerKinds DEF Claim
<1>4. /\ job' # Idle /\ job'.op = "claim" /\ job'.by = v /\ job'.of = o
      /\ \/ job'.pc = "save" /\ job'.copy = claimed /\ o \notin due
         \/ job'.pc = "refuse" /\ o \in due
  BY <1>3, CallerKinds DEF JobFor, Idle
<1>5. Claiming(o, job.copy, v)'
  BY <1>1, <1>2, <1>4 DEF Claiming, records
<1>6. CallerWaits'
  BY <1>1, <1>4 DEF CallerWaits, callers
<1>7. JobFollows'
  BY <1>4, <1>5, <1>6 DEF JobFollows, JobDoes
<1> QED BY <1>1, <1>7, TakenUp

\* A review that is under way, as the coordinator finds it: with no job running,
\* the reservation is whole and has not been touched.
LEMMA FoundReviewed ==
  ASSUME Calm, AllInv, job = Idle, NEW v \in Reviews, at[v] \in {"commit", "abort"}
  PROVE  LET o == Target[v]
         IN  /\ Reviewed(v) /\ copy[v] = notes[o] /\ o \in Quiet /\ o \in Orders
             /\ Whole(o, notes[o]) /\ Kept(o) /\ Unsold(o)
             /\ notes[o] \in ReservationType
<1>1. Reviewed(v) /\ copy[v] = notes[Target[v]]
  BY Parts DEF ReviewFollows, Busy
<1>2. Target[v] \in Quiet /\ Target[v] \in Orders /\ at[Target[v]] = "placed"
  BY Parts, CallerKinds DEF PlacesOK
<1>3. Whole(Target[v], notes[Target[v]]) /\ Kept(Target[v]) /\ Unsold(Target[v])
  BY <1>1, <1>2, WhenIdle DEF Reviewed, Live
<1> QED BY <1>1, <1>2, <1>3, Parts DEF IInv, TypeOK

LEMMA CalmAbort ==
  ASSUME Calm, AllInv, NEW v \in Reviews, Abort(v)
  PROVE  CalmInv'
<1> DEFINE o == Target[v]
           r == copy[v]
           open == [r EXCEPT !.state = "reserved", !.key = NoKey]
           lapsed == [r EXCEPT !.state = "reserved"]
<1>1. /\ job = Idle /\ round = NoRound /\ at[v] = "abort"
      /\ UNCHANGED <<moved, records, due, round, callers>>
  BY DEF Abort, Takes, stock
<1>2. /\ Reviewed(v) /\ r = notes[o] /\ o \in Orders
      /\ Whole(o, notes[o]) /\ Kept(o) /\ Unsold(o) /\ r \in ReservationType
  BY <1>1, FoundReviewed
<1>3. r.state = "payment_review" /\ r.key = KeyOf[v]
  BY <1>2 DEF Reviewed
<1>4. \/ job' = JobFor("abort", v, lapsed, "give", Unmoved("release", o, r)) /\ o \in due
      \/ job' = JobFor("abort", v, open, "save", {})
  BY <1>3, CallerKinds DEF Abort
<1>5. /\ open.alloc = r.alloc /\ open.state = "reserved"
      /\ lapsed.alloc = r.alloc
  BY <1>2 DEF ReservationType
<1> HIDE DEF open, lapsed
<1>6. /\ job' # Idle /\ job'.op = "abort" /\ job'.by = v /\ job'.of = o
      /\ job'.copy.alloc = r.alloc
      /\ \/ job'.pc = "give" /\ o \in due
         \/ job'.pc = "save" /\ job'.copy.state = "reserved"
  BY <1>4, <1>5, CallerKinds DEF JobFor, Idle
<1>7. Whole(o, job.copy)' /\ Kept(o)' /\ Unsold(o)' /\ Reviewed(v)'
  BY <1>1, <1>2, <1>6 DEF Whole, Kept, Unsold, Reviewed, Units, records
<1>8. Aborting(o, job.copy, v)'
  BY <1>1, <1>6, <1>7 DEF Aborting
<1>9. CallerWaits'
  BY <1>1, <1>6 DEF CallerWaits, callers
<1>10. JobFollows'
  BY <1>6, <1>8, <1>9 DEF JobFollows, JobDoes
<1> QED BY <1>1, <1>10, TakenUp

LEMMA CalmCommit ==
  ASSUME Calm, AllInv, NEW v \in Reviews, Commit(v)
  PROVE  CalmInv'
<1> DEFINE o == Target[v]
           r == copy[v]
<1>1. /\ job = Idle /\ round = NoRound /\ at[v] = "commit"
      /\ UNCHANGED <<moved, records, due, round, callers>>
  BY DEF Commit, Takes, stock
<1>2. /\ Reviewed(v) /\ r = notes[o] /\ o \in Orders
      /\ Whole(o, notes[o]) /\ Kept(o) /\ Unsold(o)
  BY <1>1, FoundReviewed
<1>3. job' = JobFor("commit", v, r, "out", Unmoved("out", o, r))
  BY <1>2, CallerKinds DEF Commit, Reviewed
<1>4. /\ job' # Idle /\ job'.op = "commit" /\ job'.by = v /\ job'.of = o
      /\ job'.copy = r /\ job'.pc = "out"
  BY <1>3, CallerKinds DEF JobFor, Idle
<1>5. Whole(o, job.copy)' /\ Kept(o)' /\ Unsold(o)' /\ Reviewed(v)'
  BY <1>1, <1>2, <1>4 DEF Whole, Kept, Unsold, Reviewed, Units, records
<1>6. Committing(o, job.copy, v)'
  BY <1>1, <1>4, <1>5 DEF Committing
<1>7. CallerWaits'
  BY <1>1, <1>4 DEF CallerWaits, callers
<1>8. JobFollows'
  BY <1>4, <1>6, <1>7 DEF JobFollows, JobDoes
<1> QED BY <1>1, <1>8, TakenUp

-----------------------------------------------------------------------------
(* The steps of a job that do not touch the notes.                         *)

Sameish(j) == j # Idle /\ j.op = job.op /\ j.by = job.by /\ j.of = job.of

\* The job as it is when its order is in nobody's way.
LEMMA QuietJob ==
  ASSUME Calm, AllInv, job # Idle, job.of \in Quiet
  PROVE  /\ job \in Jobs /\ job.of \in Orders /\ job.copy \in ReservationType
         /\ job.op \in Ops \cup {"sweep"}
         /\ CallerWaits /\ JobDoes
         /\ job.op = "reserve" => Reserving(job.of, job.copy)
         /\ job.op = "release" => Releasing(job.of, job.copy)
         /\ job.op = "claim" => Claiming(job.of, job.copy, job.by)
         /\ job.op = "abort" => Aborting(job.of, job.copy, job.by)
         /\ job.op = "commit" => Committing(job.of, job.copy, job.by)
         /\ job.op = "sweep" => Sweeping(job.of, job.copy)
BY JobParts DEF JobDoes

\* The caller of a job is the checkout of its order, a review of it, or an admin.
LEMMA CallerOfJob ==
  ASSUME Calm, AllInv, job # Idle
  PROVE  /\ \A p \in Orders : job.by = p => job.of = p /\ job.op \in {"reserve", "release"}
         /\ \A v \in Reviews : job.by = v =>
              job.of = Target[v] /\ job.op \in {"claim", "commit", "abort"}
<1>1. \A c \in Callers : c # Nobody
  BY CallersAssumption DEF CallersAssumption
<1>2. job.op = "sweep" => job.by = Nobody
  BY JobParts DEF CallerWaits
<1>3. job.op \in Ops \cup {"sweep"}
  BY JobParts
<1> QED BY <1>1, <1>2, <1>3, JobCaller, CallerKinds, CallersAssumption
        DEF Ops, CallersAssumption

\* What a step of a job about o has to show.
LEMMA JobWorks ==
  ASSUME Calm, AllInv, job # Idle, NEW o \in Quiet, o = job.of,
         job' = Idle \/ Sameish(job'),
         UNCHANGED <<paid, intent, due, at, copy>>,
         round'.free \subseteq round.free, round'.seen = round.seen,
         \A p \in Orders : p # o =>
            SameUnits(p) /\ notes'[p] = notes[p] /\ order'[p] = order[p],
         JobFollows', NotesFollow(o)', UnitsFollow(o)', PaymentFollows(o)',
         \A v \in Reviews : Target[v] = o => ReviewFollows(v)'
  PROVE  CalmInv'
<1>0. Quiet \subseteq Orders
  BY CallerKinds
<1>1. \A p \in Quiet \ {o} :
        /\ SameOrder(p)
        /\ p \in round'.free => p \in round.free /\ round'.seen[p] = round.seen[p]
  BY <1>0 DEF SameOrder
<1>2. /\ \A p \in Quiet \ {o} : ~About(p) /\ ~About(p)' /\ ~Busy(p) /\ ~Busy(p)'
      /\ \A v \in Reviews : Target[v] # o => ~Busy(v) /\ ~Busy(v)'
  BY <1>0, CallerOfJob DEF About, Busy, Sameish
<1>3. PlacesOK'
  BY Parts DEF PlacesOK, Active
<1>4. SweepFollows(o)'
  <2>1. o \notin round.free
    BY Parts DEF SweepFollows, About
  <2> QED BY <2>1 DEF SweepFollows
<1>5. OrderFollows(o)'
  BY <1>4 DEF OrderFollows
<1> QED BY <1>0, <1>1, <1>2, <1>3, <1>5, AtOneOrder

\* A job goes on moving the units of its order, and leaves all the records but
\* the movements as they are.
LEMMA JobGoesOn ==
  ASSUME Calm, AllInv, job # Idle, NEW o \in Quiet, o = job.of, Sameish(job'),
         job.pc # "answer", Moving(o)', UNCHANGED <<records, due, round, callers>>,
         \A p \in Orders : p # o => SameUnits(p),
         job.op # "reserve" => moved'["reserve"][o] = moved["reserve"][o],
         JobDoes'
  PROVE  CalmInv'
<1>1. UNCHANGED <<notes, order, paid, intent, due, round, at, copy>>
  BY DEF records, callers
<1>2. JobFollows'
  <2>1. CallerWaits'
    BY <1>1, JobParts DEF CallerWaits, Sameish
  <2> QED BY <2>1 DEF JobFollows
<1>3. NotesFollow(o)'
  BY <1>1, Parts DEF NotesFollow, Busy, Sameish
<1>4. UnitsFollow(o)'
  <2>1. job.op = "reserve" => at[o] = "reserve"
    BY JobCaller
  <2>2. at[o] \in {"pay", "jot", "release", "placed"} =>
          Complete(o) /\ moved'["reserve"][o] = moved["reserve"][o]
    BY <2>1, Parts DEF UnitsFollow
  <2> QED BY <1>1, <2>2 DEF UnitsFollow, Complete
<1>5. PaymentFollows(o)'
  BY <1>1, Parts DEF PaymentFollows, Active
<1>6. \A v \in Reviews : Target[v] = o => ReviewFollows(v)'
  BY <1>1, Parts DEF ReviewFollows, Reviewed, Busy, Sameish
<1> QED BY <1>1, <1>2, <1>3, <1>4, <1>5, <1>6, JobWorks

\* The same for a step that moves nothing at all.
LEMMA JobQuiet ==
  ASSUME Calm, AllInv, job # Idle, NEW o \in Quiet, o = job.of, Sameish(job'),
         job.pc # "answer", Moving(o)', UNCHANGED <<moved, records, due, round, callers>>,
         JobDoes'
  PROVE  CalmInv'
BY JobGoesOn DEF SameUnits

LEMMA CalmTake ==
  ASSUME Calm, AllInv, Take, job.of \in Quiet
  PROVE  CalmInv'
<1>1. /\ job # Idle /\ job \in Jobs /\ job.pc = "take" /\ job.op = "reserve"
      /\ Reserving(job.of, job.copy) /\ job.of \in Orders
  BY AtWork, QuietJob DEF Take, Running, JobOK, AllInv
<1>2. PICK b, q : job' = [job EXCEPT !.pc = "record", !.batch = b, !.take = q]
  BY NoFault DEF Take, AllInv, Calm
<1>3. /\ Sameish(job') /\ job'.pc = "record" /\ job'.copy = job.copy
      /\ job'.left = job.left
  BY <1>1, <1>2 DEF Sameish, Jobs, Idle
<1>4. UNCHANGED <<moved, records, due, round, callers>>
  BY DEF Take
<1>5. JobDoes'
  BY <1>1, <1>3, <1>4 DEF JobDoes, Reserving, Sameish, Unsold, Kept, Whole, Units
<1>6. \A o \in Quiet : o = job.of => Moving(o)'
  BY <1>1, <1>3 DEF Moving, About, Sameish
<1> QED BY <1>1, <1>3, <1>4, <1>5, <1>6, JobQuiet

LEMMA CalmShortage ==
  ASSUME Calm, AllInv, Shortage, job.of \in Quiet
  PROVE  CalmInv'
<1>1. /\ job # Idle /\ job \in Jobs /\ job.pc = "take" /\ job.op = "reserve"
      /\ Reserving(job.of, job.copy) /\ job.of \in Orders
  BY AtWork, QuietJob DEF Shortage, Running, JobOK, AllInv
<1>2. job' = [job EXCEPT !.pc = "give", !.todo = Unmoved("release", job.of, job.copy)]
  BY DEF Shortage, RolledBack
<1>3. Sameish(job') /\ job'.pc = "give" /\ job'.copy = job.copy
  BY <1>1, <1>2 DEF Sameish, Jobs, Idle
<1>4. UNCHANGED <<moved, records, due, round, callers>>
  BY DEF Shortage, stock
<1>5. JobDoes'
  BY <1>1, <1>3, <1>4 DEF JobDoes, Reserving, Sameish, Unsold, Whole, Units
<1>6. \A o \in Quiet : o = job.of => Moving(o)'
  BY <1>1, <1>3 DEF Moving, About, Sameish
<1> QED BY <1>1, <1>3, <1>4, <1>5, <1>6, JobQuiet

LEMMA CalmAllocated ==
  ASSUME Calm, AllInv, Allocated, job.of \in Quiet
  PROVE  CalmInv'
<1>1. /\ job # Idle /\ job \in Jobs /\ job.pc = "take" /\ job.op = "reserve"
      /\ Reserving(job.of, job.copy) /\ job.of \in Orders /\ job.left = 0
  BY AtWork, QuietJob DEF Allocated, Running, JobOK, AllInv
<1>2. job' = [job EXCEPT !.pc = "note"]
  BY DEF Allocated
<1>3. Sameish(job') /\ job'.pc = "note" /\ job'.copy = job.copy
  BY <1>1, <1>2 DEF Sameish, Jobs, Idle
<1>4. UNCHANGED <<moved, records, due, round, callers>>
  BY DEF Allocated, stock
<1>5. Complete(job.of)
  <2>1. SumFunction(moved["reserve"][job.of]) \in Int
    <3>1. moved["reserve"][job.of] \in [Batches -> Nat]
      BY <1>1, UnitsType, Parts DEF Kinds
    <3>2. moved["reserve"][job.of] \in [Batches -> Int]
      BY <3>1
    <3>3. IsFiniteSet(Batches)
      BY StockAssumption, FS_Interval DEF Batches, StockAssumption
    <3> QED BY <3>2, <3>3, SumInt
  <2>2. SumFunction(moved["reserve"][job.of]) + 0 = Need[job.of]
    BY <1>1 DEF Reserving
  <2> QED BY <2>1, <2>2 DEF Complete
<1>6. JobDoes'
  BY <1>1, <1>3, <1>4, <1>5
     DEF JobDoes, Reserving, Sameish, Unsold, Kept, Whole, Units, Complete
<1>7. \A o \in Quiet : o = job.of => Moving(o)'
  BY <1>1, <1>3 DEF Moving, About, Sameish
<1> QED BY <1>1, <1>3, <1>4, <1>6, <1>7, JobQuiet

LEMMA CalmGive ==
  ASSUME Calm, AllInv, Give, job.of \in Quiet
  PROVE  CalmInv'
<1>1. /\ job # Idle /\ job \in Jobs /\ job.pc = "give" /\ job.of \in Orders
      /\ JobDoes
  BY AtWork, QuietJob DEF Give, Running, AllInv, JobDoes
<1>2. PICK b : job' = [job EXCEPT !.pc = "given", !.batch = b]
  BY NoFault DEF Give, AllInv, Calm
<1>3. Sameish(job') /\ job'.pc = "given" /\ job'.copy = job.copy
  BY <1>1, <1>2 DEF Sameish, Jobs, Idle
<1>4. UNCHANGED <<moved, records, due, round, callers>>
  BY DEF Give
<1>5. JobDoes'
  BY <1>1, <1>3, <1>4 DEF JobDoes, Reserving, Releasing, Claiming, Aborting, Committing,
       Sweeping, Sameish, Unsold, Whole, Units, Reviewed, records, callers
<1>6. \A o \in Quiet : o = job.of => Moving(o)'
  BY <1>1, <1>3 DEF Moving, About, Sameish
<1> QED BY <1>1, <1>3, <1>4, <1>5, <1>6, JobQuiet

\* One movement of an order leaves those of the others, and its others, alone.
LEMMA OthersStay ==
  ASSUME IInv, IInv', NEW kind \in Kinds, NEW o \in Orders, NEW b \in Batches,
         NEW n \in Nat, moved' = Recorded(kind, o, b, n)
  PROVE  /\ \A p \in Orders : p # o => SameUnits(p)
         /\ \A k \in Kinds : k # kind => moved'[k][o] = moved[k][o]
<1>1. \A k \in Kinds, p \in Orders, c \in Batches :
        Units(k, p, c)' = IF k = kind /\ p = o /\ c = b
                          THEN Units(k, p, c) + n ELSE Units(k, p, c)
  BY OneMoreMade
<1>2. /\ moved \in [Kinds -> [Orders -> [Batches -> Nat]]]
      /\ moved' \in [Kinds -> [Orders -> [Batches -> Nat]]]
  BY DEF IInv, TypeOK, Kinds
<1>3. ASSUME NEW k \in Kinds, NEW p \in Orders, k # kind \/ p # o
      PROVE  moved'[k][p] = moved[k][p]
  <2>1. \A c \in Batches : moved'[k][p][c] = moved[k][p][c]
    BY <1>1, <1>3 DEF Units
  <2>2. moved'[k][p] \in [Batches -> Nat] /\ moved[k][p] \in [Batches -> Nat]
    BY <1>2
  <2> QED BY <2>1, <2>2
<1> QED BY <1>3 DEF SameUnits

LEMMA CalmRecord ==
  ASSUME Calm, AllInv, IInv', Record, job.of \in Quiet
  PROVE  CalmInv'
<1> DEFINE b == job.batch
           n == job.take
<1>0. PICK o \in Quiet : o = job.of /\ o \in Orders
  BY QuietJob DEF Record, Running
<1>1. /\ job # Idle /\ job \in Jobs /\ job.pc = "record" /\ job.op = "reserve"
      /\ Reserving(o, job.copy) /\ o \in Orders /\ b \in Batches
      /\ n \in Nat /\ job.left \in Nat /\ job.copy \in ReservationType
  BY <1>0, AtWork, QuietJob, JobTypes DEF Record, Running, JobOK, AllInv
<1>2. /\ moved' = Recorded("reserve", o, b, n)
      /\ job' = [job EXCEPT !.pc = "take", !.left = @ - job.take,
                            !.copy.alloc[job.batch] = job.take]
  BY <1>0, NoFault DEF Record, Recorded, AllInv, Calm
<1>3. /\ Sameish(job') /\ job'.pc = "take" /\ job'.left = job.left - n
      /\ job'.copy = [job.copy EXCEPT !.alloc[b] = n]
  BY <1>1, <1>2 DEF Sameish, Jobs, Idle
<1>4. job'.copy.state = job.copy.state
      /\ \A c \in Batches : job'.copy.alloc[c] = IF c = b THEN n ELSE job.copy.alloc[c]
  BY <1>1, <1>3 DEF ReservationType
<1>5. UNCHANGED <<records, due, round, callers>>
  BY DEF Record
<1>6. Units("reserve", o, b) = 0
  BY <1>0, <1>1, Parts DEF MovesInv, JobInStep
<1> HIDE DEF b, n
<1>7. \A k \in Kinds, p \in Orders, c \in Batches :
        Units(k, p, c)' = IF k = "reserve" /\ p = o /\ c = b
                          THEN Units(k, p, c) + n ELSE Units(k, p, c)
  <2>1. "reserve" \in Kinds
    BY DEF Kinds
  <2> QED BY <1>1, <1>2, <2>1, Parts, OneMoreMade
<1>8. /\ moved \in [Kinds -> [Orders -> [Batches -> Nat]]]
      /\ moved' \in [Kinds -> [Orders -> [Batches -> Nat]]]
  BY Parts DEF IInv, TypeOK, Kinds
<1>9. SumFunction(moved'["reserve"][o]) = SumFunction(moved["reserve"][o]) + n
      /\ SumFunction(moved["reserve"][o]) \in Int
  <2> DEFINE f == moved["reserve"][o]
             h == moved'["reserve"][o]
  <2>1. IsFiniteSet(Batches)
    BY StockAssumption, FS_Interval DEF Batches, StockAssumption
  <2>2. f \in [Batches -> Int] /\ h \in [Batches -> Int]
    BY <1>1, <1>8 DEF Kinds
  <2>3. \A c \in Batches : h[c] = IF c = b THEN f[c] + n ELSE f[c]
    BY <1>1, <1>7 DEF Units, Kinds
  <2> HIDE DEF f, h
  <2>4. SumFunction(h) = SumFunction(f) - f[b] + h[b]
    BY <1>1, <2>1, <2>2, <2>3, SumOneChanged
  <2>5. SumFunction(f) \in Int
    BY <2>1, <2>2, SumInt
  <2> QED BY <1>1, <2>2, <2>3, <2>4, <2>5 DEF f, h
<1>10. Unsold(o)' /\ Kept(o)' /\ Whole(o, job.copy)'
  <2>1. Unsold(o) /\ Kept(o) /\ Whole(o, job.copy)
    BY <1>1 DEF Reserving
  <2>2. Unsold(o)' /\ Kept(o)'
    BY <1>1, <1>7, <2>1 DEF Unsold, Kept, Kinds
  <2>3. Whole(o, job.copy)'
    <3> SUFFICES ASSUME NEW c \in Batches
                 PROVE  job'.copy.alloc[c] = Units("reserve", o, c)'
      BY DEF Whole
    <3>1. job.copy.alloc[c] = Units("reserve", o, c)
      BY <2>1 DEF Whole
    <3>2. Units("reserve", o, c)' = IF c = b THEN Units("reserve", o, c) + n
                                    ELSE Units("reserve", o, c)
      BY <1>1, <1>7 DEF Kinds
    <3> QED BY <1>1, <1>4, <1>6, <3>1, <3>2
  <2> QED BY <2>2, <2>3
<1>11. SumFunction(moved["reserve"][o]) + job.left = Need[o]
  BY <1>1 DEF Reserving
<1>12. SumFunction(moved'["reserve"][o]) + job'.left = Need[o]
  BY <1>1, <1>3, <1>9, <1>11
<1>13. JobDoes'
  <2>1. Reserving(o, job.copy)'
    BY <1>1, <1>3, <1>4, <1>10, <1>12 DEF Reserving
  <2> QED BY <1>0, <1>1, <1>3, <2>1 DEF JobDoes, Sameish
<1>14. Moving(o)'
  BY <1>0, <1>1, <1>3 DEF Moving, About, Sameish
<1>15. \A p \in Orders : p # o => SameUnits(p)
  BY <1>1, <1>2, Parts, OthersStay DEF Kinds
<1> QED BY <1>0, <1>1, <1>3, <1>5, <1>13, <1>14, <1>15, JobGoesOn

LEMMA CalmGiven ==
  ASSUME Calm, AllInv, IInv', Given, job.of \in Quiet
  PROVE  CalmInv'
<1> DEFINE b == job.batch
           n == job.copy.alloc[b]
<1>0. PICK o \in Quiet : o = job.of /\ o \in Orders
  BY QuietJob DEF Given, Running
<1>1. /\ job # Idle /\ job \in Jobs /\ job.pc = "given" /\ JobDoes
      /\ b \in Batches /\ n \in Nat
  BY AtWork, QuietJob, JobTypes DEF Given, Running, JobOK, JobDoes, AllInv
<1>2. /\ moved' = Recorded("release", o, b, n)
      /\ job' = [job EXCEPT !.pc = "give", !.todo = @ \ {b}]
  BY <1>0, NoFault DEF Given, Recorded, AllInv, Calm
<1>3. Sameish(job') /\ job'.pc = "give" /\ job'.copy = job.copy
  BY <1>1, <1>2 DEF Sameish, Jobs, Idle
<1>4. UNCHANGED <<remaining, records, due, round, callers>>
  BY DEF Given
<1> HIDE DEF b, n
<1>5. /\ \A p \in Orders : p # o => SameUnits(p)
      /\ \A k \in Kinds : k # "release" => moved'[k][o] = moved[k][o]
  BY <1>0, <1>1, <1>2, Parts, OthersStay DEF Kinds
<1>6. (Unsold(o)' <=> Unsold(o)) /\ (Whole(o, job.copy)' <=> Whole(o, job.copy))
  BY <1>3, <1>5 DEF Unsold, Whole, Units, Kinds
<1>7. JobDoes'
  BY <1>0, <1>1, <1>3, <1>4, <1>6 DEF JobDoes, Reserving, Releasing, Claiming, Aborting,
       Committing, Sweeping, Sameish, Reviewed, records, callers
<1>8. Moving(o)'
  BY <1>0, <1>1, <1>3 DEF Moving, About, Sameish
<1>9. moved'["reserve"][o] = moved["reserve"][o]
  BY <1>5 DEF Kinds
<1> QED BY <1>0, <1>1, <1>3, <1>4, <1>5, <1>7, <1>8, <1>9, JobGoesOn

LEMMA CalmOut ==
  ASSUME Calm, AllInv, IInv', Out, job.of \in Quiet
  PROVE  CalmInv'
<1> DEFINE b == Min(job.todo)
           n == job.copy.alloc[b]
<1>0. PICK o \in Quiet : o = job.of /\ o \in Orders
  BY QuietJob DEF Out, Running
<1>1. /\ job # Idle /\ job \in Jobs /\ job.pc = "out" /\ JobDoes
      /\ b \in Batches /\ n \in Nat
  <2>1. job # Idle /\ job \in Jobs /\ job.pc = "out" /\ JobDoes
    BY AtWork, QuietJob DEF Out, Running, JobDoes, AllInv
  <2>2. job.todo \in SUBSET Batches /\ job.todo # {} /\ job.copy.alloc \in [Batches -> Nat]
    BY <2>1, JobTypes DEF Out, AllInv
  <2>3. b \in Batches
    BY <2>2, MinOfBatches
  <2> QED BY <2>1, <2>2, <2>3
<1>2. /\ moved' = Recorded("out", o, b, n)
      /\ job' = [job EXCEPT !.todo = @ \ {b}]
  BY <1>0, NoFault DEF Out, Recorded, AllInv, Calm
<1>3. Sameish(job') /\ job'.pc = "out" /\ job'.copy = job.copy
  BY <1>1, <1>2 DEF Sameish, Jobs, Idle
<1>4. UNCHANGED <<remaining, records, due, round, callers>>
  BY DEF Out
<1> HIDE DEF b, n
<1>5. /\ \A p \in Orders : p # o => SameUnits(p)
      /\ \A k \in Kinds : k # "out" => moved'[k][o] = moved[k][o]
  BY <1>0, <1>1, <1>2, Parts, OthersStay DEF Kinds
<1>6. (Kept(o)' <=> Kept(o)) /\ (Whole(o, job.copy)' <=> Whole(o, job.copy))
  BY <1>3, <1>5 DEF Kept, Whole, Units, Kinds
<1>7. job.op = "commit"
  BY <1>1, QuietJob DEF JobDoes, Reserving, Releasing, Claiming, Aborting, Committing,
     Sweeping, Ops
<1>8. JobDoes'
  BY <1>0, <1>1, <1>3, <1>4, <1>6, <1>7 DEF JobDoes, Committing, Sameish, Reviewed, records
<1>9. Moving(o)'
  BY <1>0, <1>1, <1>3 DEF Moving, About, Sameish
<1>10. moved'["reserve"][o] = moved["reserve"][o]
  BY <1>5 DEF Kinds
<1> QED BY <1>0, <1>1, <1>3, <1>4, <1>5, <1>8, <1>9, <1>10, JobGoesOn

\* A job with a whole copy and nothing left to move has moved everything.
LEMMA AllGivenBack ==
  ASSUME Calm, AllInv, job # Idle, job.pc = "give", job.todo = {}, Whole(job.of, job.copy)
  PROVE  Back(job.of)
<1> SUFFICES ASSUME NEW b \in Batches
             PROVE  Units("release", job.of, b) = Units("reserve", job.of, b)
  BY DEF Back
<1>1. job.copy.alloc[b] = 0 \/ Units("release", job.of, b) = Units("reserve", job.of, b)
  BY Parts DEF MovesInv, JobInStep
<1>2. Units("release", job.of, b) \in {0, Units("reserve", job.of, b)}
  BY Parts, JobParts DEF MovesInv, MovedOnce, Units
<1> QED BY <1>1, <1>2 DEF Whole

LEMMA AllIsSold ==
  ASSUME Calm, AllInv, job # Idle, job.pc = "out", job.todo = {}, Whole(job.of, job.copy)
  PROVE  AllSold(job.of)
<1> SUFFICES ASSUME NEW b \in Batches
             PROVE  Units("out", job.of, b) = Units("reserve", job.of, b)
  BY DEF AllSold
<1>1. job.copy.alloc[b] = 0 \/ Units("out", job.of, b) = Units("reserve", job.of, b)
  BY Parts DEF MovesInv, JobInStep
<1>2. Units("out", job.of, b) \in {0, Units("reserve", job.of, b)}
  BY Parts, JobParts DEF MovesInv, MovedOnce, Units
<1> QED BY <1>1, <1>2 DEF Whole

LEMMA CalmSold ==
  ASSUME Calm, AllInv, Sold, job.of \in Quiet
  PROVE  CalmInv'
<1>0. PICK o \in Quiet : o = job.of /\ o \in Orders
  BY QuietJob DEF Sold, Running
<1>1. /\ job # Idle /\ job \in Jobs /\ job.pc = "out" /\ JobDoes
      /\ job.copy \in ReservationType
  BY AtWork, QuietJob DEF Sold, Running, AllInv, JobDoes
<1>2. job' = [job EXCEPT !.pc = "save", !.copy.state = "committed"]
  BY DEF Sold
<1>3. /\ Sameish(job') /\ job'.pc = "save" /\ job'.copy.state = "committed"
      /\ job'.copy.alloc = job.copy.alloc
  BY <1>1, <1>2 DEF Sameish, Jobs, Idle, ReservationType
<1>4. UNCHANGED <<moved, records, due, round, callers>>
  BY DEF Sold, stock
<1>5. job.op = "commit"
  BY <1>1, QuietJob DEF JobDoes, Reserving, Releasing, Claiming, Aborting, Committing,
     Sweeping, Ops
<1>6. Committing(o, job.copy, job.by) /\ AllSold(o)
  BY <1>0, <1>1, <1>5, AllIsSold DEF JobDoes, Committing, Sold
<1>7. Committing(o, job.copy, job.by)'
  BY <1>1, <1>3, <1>4, <1>6
     DEF Committing, Reviewed, Kept, Whole, AllSold, Units, Sameish, records
<1>8. JobDoes'
  BY <1>0, <1>3, <1>5, <1>7 DEF JobDoes, Sameish
<1>9. Moving(o)'
  BY <1>0, <1>3, <1>5 DEF Moving, About, Sameish
<1> QED BY <1>0, <1>1, <1>3, <1>4, <1>8, <1>9, JobQuiet

LEMMA CalmFreed ==
  ASSUME Calm, AllInv, Freed, job.of \in Quiet
  PROVE  CalmInv'
<1>0. PICK o \in Quiet : o = job.of /\ o \in Orders
  BY QuietJob DEF Freed, Running
<1>1. /\ job # Idle /\ job \in Jobs /\ job.pc = "give" /\ JobDoes
      /\ job.copy \in ReservationType
  BY AtWork, QuietJob DEF Freed, Running, AllInv, JobDoes
<1>2. /\ job.op \in {"reserve", "release", "abort", "sweep"}
      /\ Unsold(o) /\ Whole(o, job.copy)
  BY <1>0, <1>1, QuietJob DEF JobDoes, Reserving, Releasing, Claiming, Aborting, Committing,
     Sweeping, Ops
<1>3. Back(o)
  BY <1>0, <1>1, <1>2, AllGivenBack DEF Freed
<1>4. /\ Sameish(job') /\ job'.copy.alloc = job.copy.alloc
      /\ CASE job.op = "reserve" -> job'.pc = "refuse"
           [] job.op = "release" -> job'.pc = "answer" /\ job'.copy.state = "released"
           [] job.op = "abort" -> job'.pc = "save" /\ job'.copy.state = "expired"
           [] job.op = "sweep" -> job'.pc = "close" /\ job'.copy.state = "expired"
  <2>1. CASE job.op = "reserve"
    <3>1. job' = [job EXCEPT !.pc = "refuse"]
      BY <2>1 DEF Freed, Thrown
    <3> QED BY <1>1, <2>1, <3>1 DEF Sameish, Jobs, Idle
  <2>2. CASE job.op = "release"
    <3>1. job' = [job EXCEPT !.pc = "answer", !.copy.state = "released"]
      BY <2>2 DEF Freed
    <3> QED BY <1>1, <2>2, <3>1 DEF Sameish, Jobs, Idle, ReservationType
  <2>3. CASE job.op = "abort"
    <3>1. job' = [job EXCEPT !.pc = "save", !.copy.state = "expired"]
      BY <2>3 DEF Freed
    <3> QED BY <1>1, <2>3, <3>1 DEF Sameish, Jobs, Idle, ReservationType
  <2>4. CASE job.op = "sweep"
    <3>1. job' = [job EXCEPT !.pc = "close", !.copy.state = "expired"]
      BY <2>4 DEF Freed
    <3> QED BY <1>1, <2>4, <3>1 DEF Sameish, Jobs, Idle, ReservationType
  <2> QED BY <1>2, <2>1, <2>2, <2>3, <2>4
<1>5. UNCHANGED <<moved, records, due, round, callers>>
  BY DEF Freed, stock
<1>6. Unsold(o)' /\ Back(o)' /\ Whole(o, job.copy)'
  BY <1>2, <1>3, <1>4, <1>5 DEF Unsold, Back, Whole, Units
<1>7. JobDoes'
  <2>1. job.op = "reserve" => Reserving(o, job.copy)'
    BY <1>4, <1>6 DEF Reserving
  <2>2. job.op = "release" => Releasing(o, job.copy)'
    BY <1>4, <1>6 DEF Releasing
  <2>3. job.op = "abort" => Aborting(o, job.copy, job.by)'
    BY <1>0, <1>1, <1>4, <1>5, <1>6 DEF Aborting, JobDoes, Reviewed, Sameish, records
  <2>4. job.op = "sweep" => Sweeping(o, job.copy)'
    BY <1>0, <1>1, <1>4, <1>5, <1>6 DEF Sweeping, JobDoes, records, callers
  <2> QED BY <1>0, <1>2, <1>4, <2>1, <2>2, <2>3, <2>4 DEF JobDoes, Sameish
<1>8. Moving(o)'
  BY <1>0, <1>2, <1>4 DEF Moving, About, Sameish
<1> QED BY <1>0, <1>1, <1>4, <1>5, <1>7, <1>8, JobQuiet

-----------------------------------------------------------------------------
(* The steps of a job that write to the notes, and its answer.             *)

LEMMA CalmNote ==
  ASSUME Calm, AllInv, Note, job.of \in Quiet
  PROVE  CalmInv'
<1>0. PICK o \in Quiet : o = job.of /\ o \in Orders
  BY QuietJob DEF Note, Running
<1> DEFINE r == job.copy
<1>1. /\ job # Idle /\ job \in Jobs /\ job.pc = "note" /\ job.op = "reserve"
      /\ Reserving(o, r) /\ job.by = o /\ at[o] = "reserve"
  BY <1>0, AtWork, QuietJob, JobCaller DEF Note, Running, JobOK, AllInv
<1>2. /\ notes' = [notes EXCEPT ![o] = r]
      /\ job' = [job EXCEPT !.pc = "answer"]
      /\ UNCHANGED <<moved, order, paid, intent, due, round, at, copy>>
  BY <1>0, NoFault DEF Note, AllInv, Calm, stock, callers
<1>3. Sameish(job') /\ job'.pc = "answer" /\ job'.copy = r
  BY <1>1, <1>2 DEF Sameish, Jobs, Idle
<1>4. notes'[o] = r /\ \A p \in Orders : p # o => notes'[p] = notes[p]
  BY <1>0, <1>2 DEF AllInv, IInv, TypeOK
<1>5. r.state = "reserved" /\ Kept(o) /\ Unsold(o) /\ Whole(o, r) /\ Complete(o)
  BY <1>1 DEF Reserving
<1>6. intent[o] # "paid" /\ o \notin paid /\ \A v \in Reviews : Target[v] = o => at[v] = "idle"
  <2>1. notes[o].state \notin {"payment_review", "committed", "expired"}
    BY <1>1, StateAtPlaced
  <2> QED BY <1>1, <2>1, Parts DEF PaymentFollows, PlacesOK
<1>7. Reserving(o, job.copy)'
  BY <1>2, <1>3, <1>4, <1>5 DEF Reserving, Kept, Unsold, Whole, Complete, Units
<1>8. JobFollows'
  <2>1. CallerWaits'
    BY <1>1, <1>2, <1>3, QuietJob DEF CallerWaits, Sameish
  <2> QED BY <1>0, <1>1, <1>3, <1>7, <2>1 DEF JobFollows, JobDoes, Sameish
<1>9. NotesFollow(o)'
  BY <1>1, <1>2, <1>3, Parts DEF NotesFollow, Busy, Sameish
<1>10. UnitsFollow(o)'
  BY <1>0, <1>1, <1>2, <1>3 DEF UnitsFollow, Moving, About, Sameish
<1>11. PaymentFollows(o)'
  BY <1>1, <1>2, <1>4, <1>5, <1>6 DEF PaymentFollows
<1>12. \A v \in Reviews : Target[v] = o => ReviewFollows(v)'
  BY <1>2, <1>6 DEF ReviewFollows
<1>13. \A p \in Orders : p # o =>
          SameUnits(p) /\ notes'[p] = notes[p] /\ order'[p] = order[p]
  BY <1>2, <1>4 DEF SameUnits
<1>14. round'.free \subseteq round.free /\ round'.seen = round.seen
  BY <1>2
<1> HIDE DEF r
<1> QED BY <1>0, <1>1, <1>2, <1>3, <1>8, <1>9, <1>10, <1>11, <1>12, <1>13, <1>14, JobWorks

\* What the coordinator writes for a review: the reservation claimed, opened
\* again, given back or sold.
LEMMA CalmSave ==
  ASSUME Calm, AllInv, Save, job.of \in Quiet
  PROVE  CalmInv'
<1>0. PICK o \in Quiet : o = job.of /\ o \in Orders
  BY QuietJob DEF Save, Running
<1>00. PICK v \in Reviews : v = job.by /\ o = Target[v]
  <2>1. job # Idle /\ job.pc = "save" /\ JobDoes
    BY QuietJob DEF Save, Running, JobDoes
  <2>2. job.op \in {"claim", "commit", "abort"}
    BY <2>1, QuietJob DEF JobDoes, Reserving, Releasing, Sweeping, Ops
  <2> QED BY <1>0, <2>1, <2>2, JobCaller
<1> DEFINE r == job.copy
<1>1. /\ job # Idle /\ job \in Jobs /\ job.pc = "save" /\ JobDoes
      /\ job.op \in {"claim", "commit", "abort"}
      /\ at[v] = job.op /\ at[o] = "placed" /\ Active(v) /\ round = NoRound
  <2>1. job # Idle /\ job \in Jobs /\ job.pc = "save" /\ JobDoes
    BY QuietJob DEF Save, Running, JobDoes
  <2>2. job.op \in {"claim", "commit", "abort"}
    BY <2>1, QuietJob DEF JobDoes, Reserving, Releasing, Sweeping, Ops
  <2> QED BY <1>0, <1>00, <2>1, <2>2, JobCaller
<1>2. /\ notes' = [notes EXCEPT ![o] = r]
      /\ job' = [job EXCEPT !.pc = "answer"]
      /\ UNCHANGED <<moved, order, paid, intent, due, round, at, copy>>
  BY <1>0, NoFault DEF Save, AllInv, Calm, stock, callers
<1>3. Sameish(job') /\ job'.pc = "answer" /\ job'.copy = r
  BY <1>1, <1>2 DEF Sameish, Jobs, Idle
<1>4. notes'[o] = r /\ \A p \in Orders : p # o => notes'[p] = notes[p]
  BY <1>0, <1>2 DEF AllInv, IInv, TypeOK
<1>5. /\ notes[o].state \in {"reserved", "payment_review"} /\ o \notin paid
      /\ order[o] # "cancelled"
  <2>1. notes[o].state \in {"reserved", "payment_review"}
    BY <1>0, <1>00, <1>1 DEF JobDoes, Claiming, Aborting, Committing, Reviewed
  <2>2. o \notin paid
    BY <2>1, PaidIsCommitted
  <2>3. order[o] # "cancelled"
    BY <1>00, <1>1, <2>1, UnderReview DEF Live
  <2> QED BY <2>1, <2>2, <2>3
<1>6. /\ Whole(o, r) /\ Complete(o)
      /\ job.op = "claim" => r.state = "payment_review" /\ r.key = KeyOf[v]
                             /\ Kept(o) /\ Unsold(o) /\ intent[o] # "paid"
      /\ job.op = "abort" => /\ Unsold(o) /\ intent[o] # "paid"
                             /\ \/ r.state = "reserved" /\ Kept(o)
                                \/ r.state = "expired" /\ Back(o) /\ o \in due
      /\ job.op = "commit" => /\ r.state = "committed" /\ AllSold(o) /\ Kept(o)
                              /\ intent[o] = "paid"
  <2>1. Complete(o)
    BY <1>1, Parts DEF UnitsFollow
  <2>2. CASE job.op = "claim"
    <3>1. /\ notes[o].state = "reserved"
          /\ r = [notes[o] EXCEPT !.state = "payment_review", !.key = KeyOf[v]]
      BY <1>0, <1>00, <1>1, <2>2 DEF JobDoes, Claiming
    <3>2. notes[o] \in ReservationType
      BY <1>0, Parts DEF IInv, TypeOK
    <3>3. r.state = "payment_review" /\ r.key = KeyOf[v] /\ r.alloc = notes[o].alloc
      BY <3>1, <3>2 DEF ReservationType
    <3>4. ~Moving(o)
      BY <1>1, <2>2 DEF Moving
    <3>5. Whole(o, notes[o]) /\ Kept(o) /\ Unsold(o)
      BY <1>1, <3>1, <3>4, Parts DEF UnitsFollow, Live
    <3>6. intent[o] # "paid"
      BY <1>00, <1>1, <3>1, UnderReview
    <3> QED BY <2>1, <2>2, <3>3, <3>5, <3>6 DEF Whole
  <2>3. CASE job.op = "abort"
    <3>1. intent[o] # "paid"
      BY <1>00, <1>1, <2>3, Parts DEF ReviewFollows
    <3> QED BY <1>0, <1>00, <1>1, <2>1, <2>3, <3>1 DEF JobDoes, Aborting
  <2>4. CASE job.op = "commit"
    <3>1. intent[o] = "paid"
      BY <1>00, <1>1, <2>4, Parts DEF ReviewFollows
    <3> QED BY <1>0, <1>00, <1>1, <2>1, <2>4, <3>1 DEF JobDoes, Committing
  <2> QED BY <1>1, <2>2, <2>3, <2>4
<1> HIDE DEF r
<1>7. /\ Kept(o)' <=> Kept(o)
      /\ Back(o)' <=> Back(o)
      /\ Unsold(o)' <=> Unsold(o)
      /\ AllSold(o)' <=> AllSold(o)
      /\ Complete(o)' <=> Complete(o)
      /\ Whole(o, notes[o])' <=> Whole(o, r)
  BY <1>2, <1>4 DEF Kept, Back, Unsold, AllSold, Complete, Whole, Units
<1>8. JobFollows'
  <2>1. CallerWaits'
    BY <1>2, <1>3, QuietJob, <1>1 DEF CallerWaits, Sameish
  <2>2. job.op = "claim" => Claiming(o, job.copy, v)'
    BY <1>00, <1>2, <1>3, <1>4, <1>6 DEF Claiming, Reviewed
  <2>3. job.op = "abort" => Aborting(o, job.copy, v)'
    BY <1>3, <1>4, <1>6 DEF Aborting
  <2>4. job.op = "commit" => Committing(o, job.copy, v)'
    BY <1>3, <1>4, <1>6 DEF Committing
  <2> QED BY <1>0, <1>00, <1>1, <1>3, <2>1, <2>2, <2>3, <2>4 DEF JobFollows, JobDoes, Sameish
<1>9. NotesFollow(o)'
  BY <1>1, <1>2, <1>4, <1>6 DEF NotesFollow, Live
<1>10. UnitsFollow(o)'
  BY <1>1, <1>2, <1>4, <1>6, <1>7 DEF UnitsFollow, Live
<1>11. PaymentFollows(o)'
  <2>1. at'[v] = job.op /\ Active(v)' /\ at'[v] # "confirm"
    BY <1>1, <1>2 DEF Active
  <2> QED BY <1>00, <1>1, <1>2, <1>4, <1>5, <1>6, <2>1 DEF PaymentFollows
<1>12. \A w \in Reviews : Target[w] = o => ReviewFollows(w)'
  <2> SUFFICES ASSUME NEW w \in Reviews, Target[w] = o PROVE ReviewFollows(w)'
    OBVIOUS
  <2>1. CASE w = v
    <3>1. Busy(v)'
      BY <1>00, <1>3 DEF Busy, Sameish
    <3> QED BY <1>00, <1>1, <1>2, <1>5, <1>6, <2>1, <3>1 DEF ReviewFollows
  <2>2. CASE w # v
    <3>1. at'[w] \in {"idle", "done"}
      BY <1>00, <1>1, <1>2, <2>2, OneReview DEF Active
    <3> QED BY <3>1 DEF ReviewFollows
  <2> QED BY <2>1, <2>2
<1>13. \A p \in Orders : p # o =>
          SameUnits(p) /\ notes'[p] = notes[p] /\ order'[p] = order[p]
  BY <1>2, <1>4 DEF SameUnits
<1>14. round'.free \subseteq round.free /\ round'.seen = round.seen
  BY <1>2
<1> QED BY <1>0, <1>1, <1>2, <1>3, <1>8, <1>9, <1>10, <1>11, <1>12, <1>13, <1>14, JobWorks

\* An answer is heard, and is what the job has to say.
LEMMA Heard ==
  ASSUME Calm, AllInv, Answer
  PROVE  /\ job # Idle /\ job.pc \in {"answer", "refuse"} /\ job.op \in Ops
         /\ job.by \in Callers /\ at[job.by] = job.op /\ round = NoRound
         /\ job' = Idle /\ UNCHANGED <<moved, records, due, round>>
         /\ at' = [at EXCEPT ![job.by] = IF job.pc = "answer" THEN OnAnswer[job.op]
                                         ELSE OnFailure(job.by)]
         /\ copy' = IF job.pc = "answer" THEN [copy EXCEPT ![job.by] = job.copy] ELSE copy
<1>1. job # Idle /\ job.pc \in {"answer", "refuse"} /\ job' = Idle
      /\ UNCHANGED <<moved, records, due, round>>
  BY DEF Answer, stock
<1>2. job.op \in Ops
  BY <1>1, JobTypes, Parts DEF JobOK, Jobs
<1>3. job.by \in Callers /\ at[job.by] = job.op /\ round = NoRound
  BY <1>1, <1>2, JobCaller DEF Ops
<1>4. ~Fault
  BY NoFault DEF AllInv, Calm
<1> QED BY <1>1, <1>2, <1>3, <1>4 DEF Answer

\* With the job answered, the order is all there is to look at.
LEMMA AfterAnswer ==
  ASSUME Calm, AllInv, Answer, NEW o \in Orders, o = job.of,
         PlacesOK',
         o \in Quiet => NotesFollow(o)' /\ UnitsFollow(o)' /\ PaymentFollows(o)',
         \A v \in Reviews : Target[v] = o => ReviewFollows(v)'
  PROVE  CalmInv'
<1>1. /\ job # Idle /\ job.by \in Callers /\ OrderFor(job.by) = o /\ job' = Idle
      /\ UNCHANGED <<moved, notes, order, paid, intent, due, round>> /\ round = NoRound
      /\ \A c \in Callers : c # job.by => at'[c] = at[c] /\ copy'[c] = copy[c]
  BY Heard, JobTypes DEF AllInv, IInv, TypeOK, JobOK, Ops, records
<1>0. Quiet \subseteq Orders
  BY CallerKinds
<1>2. \A p \in Quiet \ {o} :
        /\ SameOrder(p)
        /\ p \in round'.free => p \in round.free /\ round'.seen[p] = round.seen[p]
  <2> SUFFICES ASSUME NEW p \in Quiet \ {o}
               PROVE  SameOrder(p) /\ round' = round
    OBVIOUS
  <2>1. p # job.by /\ \A v \in Reviews : Target[v] = p => v # job.by
    BY <1>0, <1>1, CallerKinds
  <2> QED BY <1>0, <1>1, <2>1, CallerKinds DEF SameOrder, SameUnits
<1>3. /\ \A p \in Quiet \ {o} : ~About(p) /\ ~About(p)' /\ ~Busy(p) /\ ~Busy(p)'
      /\ \A v \in Reviews : Target[v] # o => ~Busy(v) /\ ~Busy(v)'
  BY <1>0, <1>1, CallerOfJob DEF About, Busy
<1>4. JobFollows'
  BY <1>1 DEF JobFollows
<1>5. SweepFollows(o)'
  BY <1>1 DEF SweepFollows, NoRound
<1>6. o \in Quiet => OrderFollows(o)'
  BY <1>5 DEF OrderFollows
<1> QED BY <1>2, <1>3, <1>4, <1>6, AtOneOrder

LEMMA CalmAnswerCheckout ==
  ASSUME Calm, AllInv, Answer, job.op \in {"reserve", "release"}, job.of \in Quiet
  PROVE  CalmInv'
<1>0. PICK o \in Quiet : o = job.of /\ o = job.by /\ o \in Orders
  BY Heard, JobCaller, JobParts
<1> DEFINE r == job.copy
           place == IF job.pc = "refuse" \/ job.op = "release" THEN "cancel" ELSE "pay"
<1>1. /\ job # Idle /\ job.pc \in {"answer", "refuse"} /\ job' = Idle /\ JobDoes
      /\ at[o] = job.op /\ at' = [at EXCEPT ![o] = place]
      /\ copy' = IF job.pc = "answer" THEN [copy EXCEPT ![o] = r] ELSE copy
      /\ UNCHANGED <<moved, notes, order, paid, intent, due, round>>
  BY <1>0, Heard, QuietJob DEF JobDoes, OnAnswer, OnFailure, records, Releasing
<1>2. /\ at'[o] = place /\ (copy'[o] = IF job.pc = "answer" THEN r ELSE copy[o])
      /\ \A c \in Callers : c # o => at'[c] = at[c]
  BY <1>1, CallerKinds DEF AllInv, IInv, TypeOK
<1>3. \A v \in Reviews : Target[v] = o => at[v] = "idle"
  BY <1>1, Parts DEF PlacesOK
<1>4. o \notin due
  BY <1>1, Parts DEF PlacesOK
<1>5. /\ notes[o].state \in {"none", "reserved"}
      /\ intent[o] # "paid" /\ o \notin paid
      /\ job.op = "release" => notes[o].state = "reserved"
  <2>1. notes[o].state \notin {"payment_review", "committed", "expired"}
    BY <1>1, StateAtPlaced
  <2>2. job.op = "release" => notes[o].state = "reserved"
    BY <1>1, Parts DEF NotesFollow
  <2>3. job.op = "reserve" => notes[o].state \in {"none", "reserved"}
    <3>1. CASE job.pc = "answer"
      BY <1>0, <1>1, <3>1 DEF JobDoes, Reserving
    <3>2. CASE job.pc = "refuse"
      BY <1>0, <1>1, <3>2, Parts DEF NotesFollow, Busy, NoReservation
    <3> QED BY <1>1, <3>1, <3>2
  <2> QED BY <2>1, <2>2, <2>3, Parts DEF PaymentFollows
<1>6. /\ Unsold(o)
      /\ place = "cancel" => Back(o) /\ copy'[o].state \in {"none", "released"}
      /\ place = "pay" => /\ Complete(o) /\ Whole(o, notes[o]) /\ Kept(o)
                          /\ notes[o] = r /\ r.state = "reserved" /\ job.pc = "answer"
  <2>1. CASE job.op = "reserve"
    <3>1. Reserving(o, r) /\ copy[o].state = "none"
      BY <1>0, <1>1, <2>1, Parts DEF JobDoes, NotesFollow
    <3> QED BY <1>1, <1>2, <2>1, <3>1 DEF Reserving
  <2>2. CASE job.op = "release"
    <3>1. Releasing(o, r)
      BY <1>0, <1>1, <2>2 DEF JobDoes
    <3> QED BY <1>1, <1>2, <2>2, <3>1 DEF Releasing
  <2> QED BY <2>1, <2>2
<1>7. /\ Kept(o)' <=> Kept(o)
      /\ Back(o)' <=> Back(o)
      /\ Unsold(o)' <=> Unsold(o)
      /\ Complete(o)' <=> Complete(o)
      /\ Whole(o, notes[o])' <=> Whole(o, notes[o])
  BY <1>1 DEF Kept, Back, Unsold, Complete, Whole, Units
<1>8. place \in {"pay", "cancel"}
  OBVIOUS
<1> HIDE DEF r, place
<1>9. NotesFollow(o)'
  BY <1>1, <1>2, <1>5, <1>6, <1>8 DEF NotesFollow
<1>10. UnitsFollow(o)'
  BY <1>1, <1>2, <1>5, <1>6, <1>7, <1>8 DEF UnitsFollow
<1>11. PaymentFollows(o)'
  BY <1>1, <1>2, <1>5, <1>8 DEF PaymentFollows
<1>12. \A v \in Reviews : at'[v] = at[v]
  BY <1>2, CallerKinds
<1>13. PlacesOK'
  <2>1. PlacesOK
    BY Parts
  <2>2. /\ \A p \in Orders : at'[p] \in {"idle", "reserve", "pay", "jot", "placed",
                                         "release", "cancel", "failed"}
        /\ \A p \in due' : at'[p] \in {"placed", "failed"}
    BY <1>1, <1>2, <1>4, <1>8, <2>1, CallerKinds DEF PlacesOK, AllInv, IInv, TypeOK
  <2>3. ASSUME NEW w \in Reviews
        PROVE  /\ at'[w] \in {"idle", "claim", "notify", "settle", "commit", "confirm",
                              "abandon", "abort", "done"}
               /\ at'[w] # "idle" => at'[Target[w]] = "placed"
    BY <1>2, <1>3, <1>12, <2>1, CallerKinds DEF PlacesOK
  <2> QED BY <1>12, <2>1, <2>2, <2>3 DEF PlacesOK, Active
<1>14. \A v \in Reviews : Target[v] = o => ReviewFollows(v)'
  BY <1>3, <1>12 DEF ReviewFollows
<1> QED BY <1>0, <1>9, <1>10, <1>11, <1>13, <1>14, AfterAnswer

LEMMA CalmAnswerReview ==
  ASSUME Calm, AllInv, Answer, job.op \in {"claim", "abort", "commit"}
  PROVE  CalmInv'
<1>0. PICK o \in Quiet, v \in Reviews :
         o = job.of /\ v = job.by /\ o = Target[v] /\ o \in Orders
  BY Heard, JobCaller, JobParts
<1> DEFINE r == job.copy
           place == CASE job.op = "claim" /\ job.pc = "answer" -> "notify"
                      [] job.op = "commit" /\ job.pc = "answer" -> "confirm"
                      [] OTHER -> "done"
<1>1. /\ job # Idle /\ job.pc \in {"answer", "refuse"} /\ job' = Idle /\ JobDoes
      /\ at[v] = job.op /\ at' = [at EXCEPT ![v] = place] /\ Active(v) /\ at[o] = "placed"
      /\ copy' = IF job.pc = "answer" THEN [copy EXCEPT ![v] = r] ELSE copy
      /\ UNCHANGED <<moved, notes, order, paid, intent, due, round>>
  BY <1>0, Heard, QuietJob, JobCaller, CallerKinds DEF JobDoes, OnAnswer, OnFailure, records
<1>2. /\ at'[v] = place /\ (copy'[v] = IF job.pc = "answer" THEN r ELSE copy[v])
      /\ \A c \in Callers : c # v => at'[c] = at[c] /\ copy'[c] = copy[c]
  BY <1>1, CallerKinds DEF AllInv, IInv, TypeOK
<1>3. \A p \in Orders : at'[p] = at[p] /\ copy'[p] = copy[p]
  BY <1>2, CallerKinds
<1>4. \A w \in Reviews : Target[w] = o /\ Active(w) => w = v
  BY <1>0, <1>1, OneReview
<1>5. /\ ~Moving(o) /\ place \in {"notify", "confirm", "done"}
      /\ place = "notify" =>
           Reviewed(v) /\ intent[o] # "paid"
      /\ place = "confirm" => notes[o].state = "committed" /\ copy'[v] = notes[o]
                              /\ intent[o] = "paid"
      /\ place = "done" =>
           notes[o].state \in {"reserved", "expired"} /\ intent[o] # "paid"
  <2>1. place \in {"notify", "confirm", "done"}
    OBVIOUS
  <2>2. notes[o].state \in {"reserved", "expired"} => intent[o] # "paid"
    BY <1>0, <1>1, UnderReview
  <2>3. CASE job.op = "claim"
    BY <1>0, <1>1, <2>2, <2>3 DEF JobDoes, Claiming, Moving
  <2>4. CASE job.op = "abort"
    BY <1>0, <1>1, <2>2, <2>4 DEF JobDoes, Aborting, Moving
  <2>5. CASE job.op = "commit"
    <3>1. intent[o] = "paid"
      BY <1>0, <1>1, <2>5, Parts DEF ReviewFollows
    <3> QED BY <1>0, <1>1, <1>2, <2>5, <3>1 DEF JobDoes, Committing, Moving
  <2> QED BY <2>1, <2>3, <2>4, <2>5
<1>6. /\ Kept(o)' <=> Kept(o)
      /\ Back(o)' <=> Back(o)
      /\ Unsold(o)' <=> Unsold(o)
      /\ AllSold(o)' <=> AllSold(o)
      /\ Complete(o)' <=> Complete(o)
      /\ Whole(o, notes[o])' <=> Whole(o, notes[o])
  BY <1>1 DEF Kept, Back, Unsold, AllSold, Complete, Whole, Units
<1> HIDE DEF r, place
<1>7. NotesFollow(o)'
  BY <1>1, <1>3, Parts DEF NotesFollow
<1>8. UnitsFollow(o)'
  BY <1>1, <1>3, <1>5, <1>6, Parts DEF UnitsFollow
<1>9. PaymentFollows(o)'
  <2>1. Active(v)' <=> place \in {"notify", "confirm"}
    BY <1>2, <1>5 DEF Active
  <2>2. o \in paid => notes[o].state = "committed"
    BY PaidIsCommitted
  <2>3. /\ notes[o].state \in Live => order[o] # "cancelled"
        /\ notes[o].state = "expired" => o \in due
    BY <1>0, <1>1, UnderReview
  <2> QED BY <1>0, <1>1, <1>2, <1>5, <2>1, <2>2, <2>3 DEF PaymentFollows, Reviewed
<1>10. PlacesOK'
  <2>1. PlacesOK
    BY Parts
  <2>2. /\ \A p \in Orders : at'[p] \in {"idle", "reserve", "pay", "jot", "placed",
                                         "release", "cancel", "failed"}
        /\ \A p \in due' : at'[p] \in {"placed", "failed"}
    BY <1>1, <1>3, <2>1 DEF PlacesOK, AllInv, IInv, TypeOK
  <2>3. ASSUME NEW w \in Reviews
        PROVE  /\ at'[w] \in {"idle", "claim", "notify", "settle", "commit", "confirm",
                              "abandon", "abort", "done"}
               /\ at'[w] # "idle" => at'[Target[w]] = "placed"
    BY <1>0, <1>1, <1>2, <1>3, <1>5, <2>1, CallerKinds DEF PlacesOK
  <2>4. ASSUME NEW w \in Reviews, NEW x \in Reviews, Target[w] = Target[x],
               Active(w)', Active(x)'
        PROVE  w = x
    <3>1. Active(w) /\ Active(x)
      BY <1>1, <1>2, <2>4, CallerKinds DEF Active
    <3> QED BY <2>4, <3>1, OneReview
  <2> QED BY <2>2, <2>3, <2>4 DEF PlacesOK
<1>11. \A w \in Reviews : Target[w] = o => ReviewFollows(w)'
  <2> SUFFICES ASSUME NEW w \in Reviews, Target[w] = o PROVE ReviewFollows(w)'
    OBVIOUS
  <2>1. CASE w = v
    BY <1>0, <1>1, <1>2, <1>5, <2>1 DEF ReviewFollows, Reviewed
  <2>2. CASE w # v
    <3>1. at'[w] \in {"idle", "done"}
      BY <1>2, <1>4, <2>2, CallerKinds DEF Active
    <3> QED BY <3>1 DEF ReviewFollows
  <2> QED BY <2>1, <2>2
<1> QED BY <1>0, <1>7, <1>8, <1>9, <1>10, <1>11, AfterAnswer

-----------------------------------------------------------------------------
(* The sweep.                                                              *)

\* An order whose time is up and whose reservation is open has its payment link:
\* a checkout that failed left no reservation.
LEMMA CalmSweep ==
  ASSUME Calm, AllInv, Sweep
  PROVE  CalmInv'
<1>1. /\ job = Idle /\ job' = Idle
      /\ round' = [free |-> Expirable, void |-> Untold, seen |-> notes]
      /\ UNCHANGED <<moved, records, due, callers>>
  BY DEF Sweep, stock
<1>2. JobFollows'
  BY <1>1 DEF JobFollows
<1>3. ASSUME NEW o \in Quiet PROVE SweepFollows(o)'
  <2> SUFFICES ASSUME o \in round'.free PROVE SweepFollows(o)'
    BY DEF SweepFollows
  <2>1. o \in due /\ notes[o].state = "reserved"
    BY <1>1 DEF Expirable
  <2>2. at[o] = "placed"
    BY <2>1, Parts, CallerKinds DEF PlacesOK, NotesFollow
  <2> QED BY <1>1, <2>1, <2>2 DEF SweepFollows, About, records, callers
<1> QED BY <1>1, <1>2, <1>3, FromIdle

LEMMA CalmSweepEnds ==
  ASSUME Calm, AllInv, SweepEnds
  PROVE  CalmInv'
<1>1. job = Idle /\ job' = Idle /\ round' = NoRound
      /\ UNCHANGED <<moved, records, due, callers>>
  BY DEF SweepEnds, stock
<1>2. JobFollows' /\ \A o \in Quiet : SweepFollows(o)'
  BY <1>1 DEF JobFollows, SweepFollows, NoRound
<1> QED BY <1>1, <1>2, FromIdle

LEMMA CalmExpire ==
  ASSUME Calm, AllInv, NEW o \in Orders, Expire(o)
  PROVE  CalmInv'
<1> DEFINE r == round.seen[o]
<1>1. /\ job = Idle /\ o \in round.free
      /\ job' = SweepJob(o, r, "give", Unmoved("release", o, r))
      /\ round' = [round EXCEPT !.free = @ \ {o}]
      /\ UNCHANGED <<moved, records, due, callers>>
  BY DEF Expire, stock
<1>2. /\ job' # Idle /\ job'.op = "sweep" /\ job'.by = Nobody /\ job'.of = o
      /\ job'.pc = "give" /\ job'.copy = r
  BY <1>1 DEF SweepJob, Idle
<1>3. ASSUME o \in Quiet PROVE Sweeping(o, job.copy)'
  <2>1. /\ at[o] = "placed" /\ o \in due /\ notes[o].state = "reserved" /\ r = notes[o]
    BY <1>1, <1>3, Parts DEF SweepFollows
  <2>2. Unsold(o) /\ Whole(o, notes[o])
    BY <1>1, <1>3, <2>1, WhenIdle DEF Live
  <2> QED BY <1>1, <1>2, <2>1, <2>2 DEF Sweeping, Unsold, Whole, Units, records, callers
<1>6. CallerWaits'
  BY <1>2 DEF CallerWaits
<1>7. JobFollows'
  BY <1>2, <1>3, <1>6 DEF JobFollows, JobDoes
<1> HIDE DEF r
<1>8. ASSUME NEW p \in Quiet PROVE SweepFollows(p)'
  <2>1. round'.seen = round.seen /\ (p \in round'.free => p \in round.free /\ p # o)
    BY <1>1 DEF AllInv, IInv, TypeOK
  <2>2. SweepFollows(p)
    BY Parts
  <2> QED BY <1>1, <1>2, <2>1, <2>2 DEF SweepFollows, About, records, callers
<1> QED BY <1>1, <1>7, <1>8, FromIdle

LEMMA CalmVoid ==
  ASSUME Calm, AllInv, NEW o \in Orders, Void(o)
  PROVE  CalmInv'
<1>1. /\ job = Idle /\ round.free = {}
      /\ round' = [round EXCEPT !.void = @ \ {o}]
      /\ intent' = IF intent[o] = "pending" THEN [intent EXCEPT ![o] = "cancelled"]
                   ELSE intent
      /\ job' = Idle \/ job' = SweepJob(o, NoReservation, "sync", {})
      /\ UNCHANGED <<moved, notes, order, paid, due, at, copy>>
  BY NoFault DEF Void, AllInv, Calm, stock, callers
<1>2. /\ round'.free = {}
      /\ \A p \in Orders : intent'[p] = "paid" <=> intent[p] = "paid"
      /\ \A p \in Orders : p # o => intent'[p] = intent[p]
  BY <1>1 DEF AllInv, IInv, TypeOK
<1>3. /\ job' # Idle => /\ job'.op = "sweep" /\ job'.by = Nobody /\ job'.of = o
                        /\ job'.pc = "sync"
      /\ \A c \in Callers : c # Nobody
  BY <1>1, CallersAssumption DEF SweepJob, CallersAssumption
<1>4. JobFollows'
  BY <1>3 DEF JobFollows, JobDoes, CallerWaits, Sweeping
<1>5. \A v \in Reviews : (Reviewed(v)' <=> Reviewed(v)) /\ (Active(v)' <=> Active(v))
  BY <1>1 DEF Reviewed, Active
<1>6. PlacesOK'
  BY <1>1, Parts DEF PlacesOK, Active
<1>7. /\ \A c : ~Busy(c) /\ ~About(c) /\ ~Moving(c)
      /\ \A c \in Callers : ~Busy(c)'
      /\ \A p \in Orders : p # o => ~About(p)'
  BY <1>1, <1>3 DEF Busy, About, Moving
<1>8. ASSUME o \in Quiet PROVE OrderFollows(o)'
  <2>1. SameUnits(o)
    BY <1>1 DEF SameUnits
  <2>2. Whole(o, notes[o])' <=> Whole(o, notes[o])
    BY <1>1 DEF Whole, Units
  <2>3. NotesFollow(o)'
    BY <1>1, <1>7, <1>8, Parts DEF NotesFollow
  <2>4. UnitsFollow(o)'
    BY <1>1, <1>7, <2>1, <2>2, UnitsStay, <1>8, Parts DEF UnitsFollow
  <2>5. PaymentFollows(o)'
    BY <1>1, <1>2, <1>5, <1>8, Parts DEF PaymentFollows
  <2>6. SweepFollows(o)'
    BY <1>2 DEF SweepFollows
  <2> QED BY <2>3, <2>4, <2>5, <2>6 DEF OrderFollows
<1>9. ASSUME NEW v \in Reviews, Target[v] = o
      PROVE  ReviewFollows(v)'
  BY <1>1, <1>2, <1>5, <1>7, <1>9, CallerKinds, Parts DEF ReviewFollows
<1>10. \A p \in Quiet \ {o} :
        /\ SameOrder(p)
        /\ p \in round'.free => p \in round.free /\ round'.seen[p] = round.seen[p]
  BY <1>1, <1>2, CallerKinds DEF SameOrder, SameUnits
<1>11. /\ \A p \in Quiet \ {o} : ~About(p) /\ ~About(p)' /\ ~Busy(p) /\ ~Busy(p)'
       /\ \A v \in Reviews : Target[v] # o => ~Busy(v) /\ ~Busy(v)'
  BY <1>7, CallerKinds
<1> QED BY <1>4, <1>6, <1>8, <1>9, <1>10, <1>11, AtOneOrder

\* The sweep writes the order and its notes after it gave the stock back; a review
\* that began meanwhile has still to claim.
LEMMA CalmClose ==
  ASSUME Calm, AllInv, Close, job.of \in Quiet
  PROVE  CalmInv'
<1>0. PICK o \in Quiet : o = job.of /\ o \in Orders
  BY QuietJob DEF Close, Running
<1> DEFINE r == job.copy
<1>1. /\ job # Idle /\ job.pc = "close" /\ job.op = "sweep" /\ Sweeping(o, r)
      /\ job.by = Nobody
  <2>1. job # Idle /\ job.pc = "close"
    BY DEF Close, Running
  <2>2. job.op = "sweep"
    BY <2>1, Parts DEF MovesInv, JobInStep
  <2> QED BY <1>0, <2>1, <2>2, QuietJob DEF CallerWaits
<1>2. /\ notes' = [notes EXCEPT ![o] = r]
      /\ order' = [order EXCEPT ![o] = "cancelled"]
      /\ round' = [round EXCEPT !.void = @ \cup {job.of}]
      /\ job' = Idle
      /\ UNCHANGED <<moved, paid, intent, due, at, copy>>
  BY <1>0, NoFault DEF Close, AllInv, Calm, stock, callers
<1>3. notes'[o] = r
      /\ \A p \in Orders : p # o => notes'[p] = notes[p] /\ order'[p] = order[p]
  BY <1>0, <1>2 DEF AllInv, IInv, TypeOK
<1>4. /\ at[o] = "placed" /\ o \in due /\ notes[o].state = "reserved"
      /\ Unsold(o) /\ r.state = "expired" /\ Back(o)
  BY <1>1 DEF Sweeping
<1>5. o \notin paid /\ intent[o] # "paid"
  BY <1>4, PaidIsCommitted, Parts DEF PaymentFollows
<1> HIDE DEF r
<1>6. round'.free \subseteq round.free /\ round'.seen = round.seen
  BY <1>2 DEF AllInv, IInv, TypeOK
<1>7. JobFollows'
  BY <1>2 DEF JobFollows
<1>8. NotesFollow(o)'
  BY <1>2, <1>3, <1>4 DEF NotesFollow
<1>9. UnitsFollow(o)'
  <2>1. Complete(o)
    BY <1>4, Parts DEF UnitsFollow
  <2>2. Complete(o)' /\ Back(o)' /\ Unsold(o)'
    BY <1>2, <1>4, <2>1 DEF Complete, Back, Unsold, Units
  <2> QED BY <1>2, <1>3, <1>4, <2>2 DEF UnitsFollow, Live
<1>10. PaymentFollows(o)'
  BY <1>2, <1>3, <1>4, <1>5 DEF PaymentFollows, Live
<1>11. ASSUME NEW v \in Reviews, Target[v] = o PROVE ReviewFollows(v)'
  <2>1. ~Busy(v)
    BY <1>1, CallersAssumption, CallerKinds DEF Busy, CallersAssumption
  <2>2. ReviewFollows(v) /\ ~Reviewed(v)
    BY <1>4, <1>11, Parts DEF Reviewed
  <2>3. at[v] \in {"idle", "claim", "done"}
    BY <1>4, <1>5, <1>11, <2>1, <2>2, Parts DEF ReviewFollows, PlacesOK
  <2> QED BY <1>2, <1>3, <1>4, <1>11, <2>1, <2>2, <2>3 DEF ReviewFollows
<1>12. \A p \in Orders : p # o =>
          SameUnits(p) /\ notes'[p] = notes[p] /\ order'[p] = order[p]
  BY <1>2, <1>3 DEF SameUnits
<1> QED BY <1>0, <1>1, <1>2, <1>6, <1>7, <1>8, <1>9, <1>10, <1>11, <1>12, JobWorks

LEMMA CalmSync ==
  ASSUME Calm, AllInv, Sync, job.of \in Quiet
  PROVE  CalmInv'
<1>0. PICK o \in Quiet : o = job.of /\ o \in Orders
  BY QuietJob DEF Sync, Running
<1>1. /\ job # Idle /\ job.pc = "sync" /\ job.op = "sweep" /\ job.by = Nobody
      /\ ~Moving(o)
  <2>1. job # Idle /\ job.pc = "sync"
    BY DEF Sync, Running
  <2>2. job.op = "sweep"
    BY <2>1, Parts DEF MovesInv, JobInStep
  <2> QED BY <1>0, <2>1, <2>2, QuietJob DEF CallerWaits, Moving
<1>2. /\ notes' = IF notes[o].state = "expired" THEN [notes EXCEPT ![o].synced = TRUE]
                  ELSE notes
      /\ job' = Idle
      /\ UNCHANGED <<moved, order, paid, intent, due, round, at, copy>>
  BY <1>0, NoFault DEF Sync, AllInv, Calm, stock, callers
<1>3. /\ notes'[o].state = notes[o].state /\ notes'[o].alloc = notes[o].alloc
      /\ notes'[o].key = notes[o].key
      /\ notes[o].state # "expired" => notes'[o] = notes[o]
      /\ \A p \in Orders : p # o => notes'[p] = notes[p]
  BY <1>2 DEF AllInv, IInv, TypeOK, ReservationType
<1>4. notes[o].state = "expired" => at[o] = "placed" /\ o \in due
  BY StateAtPlaced, Parts DEF PaymentFollows
<1>5. JobFollows'
  BY <1>2 DEF JobFollows
<1>6. NotesFollow(o)'
  <2>1. ~(Busy(o) /\ job.pc = "answer")
    BY <1>1
  <2> QED BY <1>2, <1>3, <1>4, <2>1, Parts DEF NotesFollow
<1>7. UnitsFollow(o)'
  <2>1. /\ Kept(o)' <=> Kept(o)
        /\ Back(o)' <=> Back(o)
        /\ Unsold(o)' <=> Unsold(o)
        /\ AllSold(o)' <=> AllSold(o)
        /\ Complete(o)' <=> Complete(o)
        /\ Whole(o, notes[o])' <=> Whole(o, notes[o])
    BY <1>2, <1>3 DEF Kept, Back, Unsold, AllSold, Complete, Whole, Units
  <2> QED BY <1>1, <1>2, <1>3, <2>1, Parts DEF UnitsFollow
<1>8. PaymentFollows(o)'
  BY <1>2, <1>3, Parts DEF PaymentFollows, Active
<1>9. ASSUME NEW v \in Reviews, Target[v] = o PROVE ReviewFollows(v)'
  <2>1. ~Busy(v) /\ ~Busy(v)'
    BY <1>1, <1>2, CallersAssumption, CallerKinds DEF Busy, CallersAssumption
  <2>2. Reviewed(v)' <=> Reviewed(v)
    BY <1>3, <1>9 DEF Reviewed
  <2>3. ReviewFollows(v)
    BY Parts
  <2>4. CASE notes[o].state = "expired"
    BY <1>2, <1>3, <1>4, <1>9, <2>1, <2>2, <2>3, <2>4 DEF ReviewFollows, Reviewed
  <2>5. CASE notes[o].state # "expired"
    BY <1>2, <1>3, <1>9, <2>1, <2>2, <2>3, <2>5 DEF ReviewFollows
  <2> QED BY <2>4, <2>5
<1>10. \A p \in Orders : p # o =>
          SameUnits(p) /\ notes'[p] = notes[p] /\ order'[p] = order[p]
  BY <1>2, <1>3 DEF SameUnits
<1>11. round'.free \subseteq round.free /\ round'.seen = round.seen
  BY <1>2
<1> QED BY <1>0, <1>1, <1>2, <1>5, <1>6, <1>7, <1>8, <1>9, <1>10, <1>11, JobWorks

-----------------------------------------------------------------------------
(* A job about an order of the admins.                                     *)

\* It changes nothing of the other orders.
LEMMA JobElsewhere ==
  ASSUME Calm, AllInv, JobStep, ~Answer, job # Idle, job.of \notin Quiet
  PROVE  CalmInv'
<1> DEFINE o == job.of
<1>1. /\ o \in Orders /\ Quiet \subseteq Orders /\ job \in Jobs
      /\ moved \in [Kinds -> [Orders -> [Batches -> Nat]]]
      /\ notes \in [Orders -> ReservationType] /\ DOMAIN order = Orders
      /\ round \in [free : SUBSET Orders, void : SUBSET Orders,
                    seen : [Orders -> ReservationType]]
  BY JobParts, CallerKinds, UnitsType, Parts DEF IInv, TypeOK
<1>2. /\ job' = Idle \/ (Sameish(job') /\ round' = round)
      /\ UNCHANGED <<paid, intent, due, at, copy>>
      /\ round'.free = round.free /\ round'.seen = round.seen
      /\ \A p \in Orders \ {o} :
           SameUnits(p) /\ notes'[p] = notes[p] /\ order'[p] = order[p]
  <2>1. CASE Take \/ Undo \/ Shortage \/ Allocated \/ Give \/ Freed \/ Sold
    <3>1. UNCHANGED <<moved, records, due, round, callers>>
      BY <2>1 DEF Take, Undo, Shortage, Allocated, Give, Freed, Sold, stock
    <3>2. job' = Idle \/ Sameish(job')
      <4>1. Thrown = Idle \/ Thrown = [job EXCEPT !.pc = "refuse"]
        BY DEF Thrown
      <4>2. \/ job' = Idle
            \/ job' = [job EXCEPT !.pc = "refuse"]
            \/ \E b, q : job' = [job EXCEPT !.pc = "record", !.batch = b, !.take = q]
            \/ \E t : job' = [job EXCEPT !.pc = "give", !.todo = t]
            \/ job' = [job EXCEPT !.pc = "note"]
            \/ \E b : job' = [job EXCEPT !.pc = "given", !.batch = b]
            \/ \E pc, s : job' = [job EXCEPT !.pc = pc, !.copy.state = s]
            \/ Freed
        BY <2>1, <4>1 DEF Take, Undo, Shortage, RolledBack, Allocated, Give, Sold
      <4>3. CASE Freed
        <5>1. job.op \in {"reserve", "release", "abort", "sweep"}
          BY <4>3, JobTypes, Parts DEF Freed, Running, JobOK, Jobs, Ops
        <5>2. job' = Idle \/ job' = [job EXCEPT !.pc = "refuse"]
              \/ \E pc, s : job' = [job EXCEPT !.pc = pc, !.copy.state = s]
          BY <4>1, <4>3, <5>1 DEF Freed
        <5> QED BY <1>1, <5>2 DEF Sameish, Jobs, Idle
      <4> QED BY <1>1, <4>2, <4>3 DEF Sameish, Jobs, Idle
    <3> QED BY <3>1, <3>2 DEF SameUnits, records, callers
  <2>2. CASE Record \/ Given \/ Out
    <3>1. UNCHANGED <<records, due, round, callers>>
      BY <2>2 DEF Record, Given, Out
    <3>2. job' = Idle \/ Sameish(job')
      <4>1. \/ \E t, q : job' = [job EXCEPT !.pc = "take", !.left = t,
                                          !.copy.alloc[job.batch] = q]
            \/ \E t : job' = [job EXCEPT !.pc = "give", !.todo = t]
            \/ \E t : job' = [job EXCEPT !.todo = t]
        BY <2>2, Parts, NoFault DEF Record, Given, Out, Calm
      <4> QED BY <1>1, <4>1 DEF Sameish, Jobs, Idle
    <3>3. \E k \in Kinds : \E b, n : moved' = [moved EXCEPT ![k][o][b] = n]
      BY <2>2, Parts, NoFault DEF Record, Given, Out, Calm, Kinds
    <3>4. \A p \in Orders \ {o} : SameUnits(p)
      BY <1>1, <3>3 DEF SameUnits
    <3> QED BY <3>1, <3>2, <3>4 DEF records, callers
  <2>3. CASE Note \/ Save \/ Sync
    <3>1. UNCHANGED <<moved, order, paid, intent, due, round, at, copy>>
      BY <2>3 DEF Note, Save, Sync, stock, callers
    <3>2. job' = Idle \/ job' = [job EXCEPT !.pc = "answer"]
      BY <2>3, Parts, NoFault DEF Note, Save, Sync, Calm
    <3>3. \A p \in Orders \ {o} : notes'[p] = notes[p]
      BY <1>1, <2>3 DEF Note, Save, Sync
    <3> QED BY <1>1, <3>1, <3>2, <3>3 DEF SameUnits, Sameish, Jobs, Idle
  <2>4. CASE Close
    <3>1. job' = Idle /\ UNCHANGED <<moved, paid, intent, due, at, copy>>
      BY <2>4 DEF Close, stock, callers
    <3>2. \A p \in Orders \ {o} : notes'[p] = notes[p] /\ order'[p] = order[p]
      BY <1>1, <2>4 DEF Close
    <3>3. round'.free = round.free /\ round'.seen = round.seen
      BY <1>1, <2>4 DEF Close
    <3> QED BY <3>1, <3>2, <3>3 DEF SameUnits
  <2>5. ~(SweepEnds \/ \E p \in Orders : Expire(p) \/ Void(p))
    BY DEF SweepEnds, Expire, Void
  <2> QED BY <2>1, <2>2, <2>3, <2>4, <2>5 DEF JobStep
<1>3. \A p \in Quiet \ {o} :
        /\ SameOrder(p)
        /\ p \in round'.free => p \in round.free /\ round'.seen[p] = round.seen[p]
  BY <1>1, <1>2 DEF SameOrder
<1>4. /\ \A p \in Quiet \ {o} : ~About(p) /\ ~About(p)' /\ ~Busy(p) /\ ~Busy(p)'
      /\ \A v \in Reviews : Target[v] # o => ~Busy(v) /\ ~Busy(v)'
  BY <1>1, <1>2, CallerOfJob DEF About, Busy, Sameish
<1>5. PlacesOK'
  BY <1>2, Parts DEF PlacesOK, Active
<1>6. JobFollows'
  <2>1. job' # Idle => CallerWaits'
    BY <1>2, JobParts DEF CallerWaits, Sameish
  <2> QED BY <1>2, <2>1 DEF JobFollows, Sameish
<1>7. \A v \in Reviews : Target[v] # o
  BY Parts
<1> HIDE DEF o
<1> QED BY <1>1, <1>3, <1>4, <1>5, <1>6, <1>7, AtOneOrder DEF o

LEMMA AnswerElsewhere ==
  ASSUME Calm, AllInv, Answer, job.of \notin Quiet
  PROVE  CalmInv'
<1> DEFINE o == job.of
           c == job.by
           place == IF job.pc = "answer" THEN OnAnswer[job.op] ELSE OnFailure(c)
<1>1. /\ job # Idle /\ o \in Orders /\ c \in Orders \cup Admins /\ OrderFor(c) = o
      /\ job.op \in {"reserve", "release"} /\ at[c] = job.op /\ c \in Callers
  BY Heard, JobCaller, JobParts DEF Ops
<1>2. /\ at' = [at EXCEPT ![c] = place] /\ UNCHANGED due
      /\ c \in Orders => place \in {"pay", "cancel"}
  BY <1>1, Heard DEF OnAnswer, OnFailure
<1>3. at'[c] = place /\ \A d \in Callers : d # c => at'[d] = at[d]
  BY <1>1, <1>2, Parts DEF IInv, TypeOK
<1>4. \A v \in Reviews : Target[v] # o /\ v # c /\ Target[v] # c
  BY <1>1, Parts, CallerKinds
<1>5. \A v \in Reviews : at'[v] = at[v] /\ at'[Target[v]] = at[Target[v]]
  BY <1>3, <1>4, CallerKinds
<1> HIDE DEF place
<1>6. PlacesOK'
  <2>1. PlacesOK /\ due \subseteq Orders
    BY Parts DEF IInv, TypeOK
  <2>2. \A p \in Orders : at'[p] \in {"idle", "reserve", "pay", "jot", "placed",
                                      "release", "cancel", "failed"}
    BY <1>2, <1>3, <2>1, CallerKinds DEF PlacesOK
  <2>3. c \notin due
    BY <1>1, <2>1 DEF PlacesOK
  <2>4. \A p \in due' : at'[p] \in {"placed", "failed"}
    BY <1>2, <1>3, <2>1, <2>3, CallerKinds DEF PlacesOK
  <2> QED BY <1>5, <2>1, <2>2, <2>4 DEF PlacesOK, Active
<1> QED BY <1>1, <1>4, <1>6, AfterAnswer

-----------------------------------------------------------------------------
(* The invariant, and what it implies.                                     *)

LEMMA CalmInit ==
  ASSUME Init
  PROVE  CalmInv
<1>1. \A kind \in Kinds, o \in Orders, b \in Batches : Units(kind, o, b) = 0
  BY DEF Init, NoUnits, Units, Kinds
<1>2. /\ job = Idle /\ round.free = {} /\ due = {} /\ paid = {}
      /\ \A c \in Callers : at[c] = "idle" /\ copy[c] = NoReservation
      /\ \A o \in Orders : notes[o] = NoReservation /\ intent[o] = "none"
      /\ NoReservation.state = "none"
  BY DEF Init, NoRound, NoReservation
<1>3. PlacesOK
  BY <1>2, CallerKinds DEF PlacesOK, Active
<1>4. JobFollows
  BY <1>2 DEF JobFollows
<1>5. ASSUME NEW o \in Quiet PROVE OrderFollows(o)
  <2>1. NotesFollow(o)
    BY <1>2, CallerKinds DEF NotesFollow
  <2>2. UnitsFollow(o)
    BY <1>1, <1>2, CallerKinds DEF UnitsFollow, Unsold, Kinds
  <2>3. PaymentFollows(o) /\ SweepFollows(o)
    BY <1>2, CallerKinds DEF PaymentFollows, SweepFollows
  <2> QED BY <2>1, <2>2, <2>3 DEF OrderFollows
<1>6. ASSUME NEW v \in Reviews PROVE ReviewFollows(v)
  BY <1>2, CallerKinds DEF ReviewFollows
<1> QED BY <1>3, <1>4, <1>5, <1>6 DEF CalmInv

LEMMA CalmJobs ==
  ASSUME Calm, AllInv, IInv', JobStep
  PROVE  CalmInv'
<1>1. ~Undo
  BY Parts DEF ShelfInv, Undo, Running
<1>2. CASE Answer
  <2>1. CASE job.of \notin Quiet
    BY <1>2, <2>1, AnswerElsewhere
  <2>2. CASE job.of \in Quiet
    BY <1>2, <2>2, Heard, CalmAnswerCheckout, CalmAnswerReview DEF Ops
  <2> QED BY <2>1, <2>2
<1>3. CASE SweepEnds \/ \E o \in Orders : Expire(o) \/ Void(o)
  BY <1>3, CalmSweepEnds, CalmExpire, CalmVoid
<1>4. CASE ~Answer /\ job # Idle /\ job.of \notin Quiet
  BY <1>4, JobElsewhere
<1>5. CASE job.of \in Quiet /\ (Close \/ Sync \/ Take \/ Record \/ Shortage \/ Allocated \/ Note)
  BY <1>5, CalmClose, CalmSync, CalmTake, CalmRecord, CalmShortage, CalmAllocated, CalmNote
<1>6. CASE job.of \in Quiet /\ (Give \/ Given \/ Freed \/ Out \/ Sold \/ Save)
  BY <1>6, CalmGive, CalmGiven, CalmFreed, CalmOut, CalmSold, CalmSave
<1>7. \/ Answer \/ SweepEnds \/ job # Idle
      \/ \E o \in Orders : Expire(o) \/ Void(o)
  BY DEF JobStep, Take, Record, Undo, Shortage, Allocated, Note, Give, Given, Freed, Out,
         Sold, Save, Close, Sync, Running
<1> QED BY <1>1, <1>2, <1>3, <1>4, <1>5, <1>6, <1>7 DEF JobStep

LEMMA CalmStep ==
  ASSUME Calm, AllInv, IInv', [Next]_vars
  PROVE  CalmInv'
<1>1. CASE Request
  BY <1>1, CalmReserve, CalmRelease, CalmClaim, CalmAbort, CalmCommit DEF Request
<1>2. CASE JobStep
  BY <1>2, CalmJobs
<1>3. CASE Sweep
  BY <1>3, CalmSweep
<1>4. CASE \E o \in Orders : Place(o) \/ CheckoutStep(o) \/ Tick(o)
  <2>1. PICK o \in Orders : Place(o) \/ CheckoutStep(o) \/ Tick(o)
    BY <1>4
  <2>2. CASE Tick(o)
    BY <2>2, CalmTick
  <2>3. CASE (Place(o) \/ CheckoutStep(o)) /\ o \notin Quiet
    BY <2>3, CalmElsewhere
  <2>4. CASE (Place(o) \/ CheckoutStep(o)) /\ o \in Quiet
    BY <2>4, CalmPlace, CalmPay, CalmJot, CalmCancel DEF CheckoutStep
  <2> QED BY <2>1, <2>2, <2>3, <2>4
<1>5. CASE \E v \in Reviews : Preflight(v) \/ ReviewStep(v)
  BY <1>5, CalmPreflight, CalmNotify, CalmSettle, CalmConfirm, CalmAbandon DEF ReviewStep
<1>6. CASE \E a \in Admins : AdminCancel(a) \/ Cancel(a)
  BY <1>6, CalmAdmin
<1>7. CASE CoordinatorEvicted \/ \E c \in Callers : Evict(c)
  BY <1>7, Parts, NoEviction DEF Calm
<1>8. CASE UNCHANGED vars
  <2>1. UNCHANGED <<moved, notes, order, paid, intent, due, job, round, at, copy>>
    BY <1>8 DEF vars
  <2> QED BY <2>1 DEF AllInv, CalmInv, PlacesOK, JobFollows, JobDoes, CallerWaits, Reserving,
          Releasing, Claiming, Aborting, Committing, Sweeping, OrderFollows, NotesFollow,
          UnitsFollow, PaymentFollows, SweepFollows, ReviewFollows, Reviewed, Active, Busy,
          About, Moving, Kept, Back, Unsold, AllSold, Complete, Whole, Units
<1> QED BY <1>1, <1>2, <1>3, <1>4, <1>5, <1>6, <1>7, <1>8 DEF Next

LEMMA AllStep ==
  ASSUME Calm, AllInv, [Next]_vars
  PROVE  AllInv'
<1>1. IInv' /\ MovesInv'
  BY Parts, InvStep, MovesStep
<1>2. ShelfInv'
  BY <1>1, Parts, ShelfStep DEF Calm
<1>3. UnreviewedInv'
  BY Parts, UnreviewedStep DEF AllInv
<1>4. CalmInv'
  BY <1>1, CalmStep
<1> QED BY <1>1, <1>2, <1>3, <1>4 DEF AllInv

LEMMA AllInvariance ==
  ASSUME Calm
  PROVE  Spec => []AllInv
<1>1. Init => AllInv
  BY InvInit, MovesInit, ShelfInit, UnreviewedInit, CalmInit DEF AllInv
<1>2. AllInv /\ [Next]_vars => AllInv'
  BY AllStep
<1> QED BY <1>1, <1>2, PTL DEF Spec

-----------------------------------------------------------------------------
(* The theorems of a calm shop.                                            *)

\* An order is paid, or its reservation sold, only where no admin cancels.
LEMMA SettledIsQuiet ==
  ASSUME Calm, AllInv, NEW o \in Orders,
         o \in paid \/ intent[o] = "paid" \/ notes[o].state = "committed"
  PROVE  o \in Quiet
BY Parts DEF Unsettled, Uncommitted

\* When nothing fails, admins cancel only orders that nobody reviews, and the reviews of
\* an order do not overlap: from the moment a payment is verified its order is neither
\* cancelled nor without its reservation, whatever the sweep, other orders and the
\* admins at them do at the same time.
THEOREM MoneyNeverLosesItsOrder ==
  ASSUME Calm
  PROVE  Spec => []MoneyKeepsOrder
<1>1. AllInv => MoneyKeepsOrder
  <2> SUFFICES ASSUME Calm, AllInv, NEW o \in Orders, intent[o] = "paid"
               PROVE  notes[o].state \in {"payment_review", "committed"}
                      /\ order[o] # "cancelled"
    BY DEF MoneyKeepsOrder
  <2>1. o \in Quiet /\ PaymentFollows(o)
    BY SettledIsQuiet, Parts
  <2>2. notes[o].state \in {"payment_review", "committed"}
    BY <2>1 DEF PaymentFollows
  <2>3. at[o] = "placed"
    BY <2>1, <2>2, StateAtPlaced
  <2> QED BY <2>1, <2>2, <2>3 DEF PaymentFollows, Live
<1> QED BY <1>1, AllInvariance, PTL

\* The jobs that move the units of an order leave a committed reservation alone.
LEMMA NotMoving ==
  ASSUME Calm, AllInv, NEW o \in Orders, notes[o].state = "committed"
  PROVE  ~Moving(o) /\ at[o] = "placed" /\ o \in Quiet
<1>0. o \in Quiet
  BY SettledIsQuiet
<1>1. at[o] = "placed"
  BY <1>0, StateAtPlaced
<1> SUFFICES ASSUME Moving(o) PROVE FALSE
  BY <1>0, <1>1
<1>2. job # Idle /\ job.of = o /\ JobDoes /\ job.op \in Ops \cup {"sweep"}
  BY <1>0, QuietJob DEF Moving, About
<1>3. job.op \notin {"reserve", "release"}
  BY <1>0, <1>1, <1>2, JobCaller
<1>4. job.op \in {"claim", "abort", "commit"} => o = Target[job.by]
  BY <1>2, JobCaller
<1> QED BY <1>2, <1>3, <1>4
        DEF Moving, JobDoes, Claiming, Aborting, Committing, Sweeping, Reviewed, Ops

\* In the same circumstances, the units an order wanted are sold to it, all of them
\* and no others, before it is marked paid.
THEOREM PaidMeansSold ==
  ASSUME Calm
  PROVE  Spec => []PaidOrderHasUnits
<1>1. AllInv => PaidOrderHasUnits
  <2> SUFFICES ASSUME Calm, AllInv, NEW o \in paid
               PROVE  SumFunction(moved["out"][o]) = Need[o] /\ Kept(o)
    BY DEF PaidOrderHasUnits, Kept, Units
  <2>1. o \in Orders
    BY Parts DEF IInv, TypeOK
  <2>2. notes[o].state = "committed" /\ at[o] = "placed" /\ ~Moving(o) /\ o \in Quiet
    BY <2>1, SettledIsQuiet, PaidIsCommitted, NotMoving
  <2>3. Complete(o) /\ AllSold(o) /\ Kept(o)
    BY <2>1, <2>2, Parts DEF UnitsFollow, Live
  <2>4. moved["out"][o] = moved["reserve"][o]
    <3>1. /\ moved["out"][o] \in [Batches -> Nat]
          /\ moved["reserve"][o] \in [Batches -> Nat]
      BY <2>1, UnitsType, Parts DEF Kinds
    <3>2. \A b \in Batches : moved["out"][o][b] = moved["reserve"][o][b]
      BY <2>3 DEF AllSold, Units
    <3> QED BY <3>1, <3>2
  <2> QED BY <2>3, <2>4 DEF Complete
<1> QED BY <1>1, AllInvariance, PTL

\* No step takes an order's notes out of "committed".
LEMMA CommittedStays ==
  ASSUME Calm, AllInv, [Next]_vars, NEW o \in Orders, notes[o].state = "committed"
  PROVE  notes'[o].state = "committed"
<1>1. notes \in [Orders -> ReservationType] /\ at[o] = "placed" /\ ~Moving(o)
      /\ o \in Quiet
  BY NotMoving, Parts DEF IInv, TypeOK
<1>2. CASE Note \/ Save \/ Close
  <2>1. job # Idle /\ job.pc \in {"note", "save", "close"} /\ job.of \in Orders
        /\ notes' = [notes EXCEPT ![job.of] = job.copy]
    BY <1>2, JobParts, Parts, NoFault DEF Note, Save, Close, Running, Calm
  <2>2. job.of # o
    <3> SUFFICES ASSUME job.of = o PROVE FALSE
      OBVIOUS
    <3>1. job.op = "claim" /\ job.pc = "save"
      <4>1. job.pc = "note" => job.op = "reserve"
        BY <2>1, JobTypes, Parts DEF JobOK
      <4> QED BY <1>1, <2>1, <4>1 DEF Moving, About
    <3> QED BY <1>1, <2>1, <3>1, QuietJob DEF Claiming
  <2> QED BY <1>1, <2>1, <2>2
<1>3. CASE Sync
  <2>1. job.of \in Orders /\ notes' = IF notes[job.of].state = "expired"
                                      THEN [notes EXCEPT ![job.of].synced = TRUE] ELSE notes
    BY <1>3, JobParts, Parts, NoFault DEF Sync, Running, Calm
  <2> QED BY <1>1, <2>1
<1>4. CASE \E p \in Orders : Jot(p) \/ Cancel(p)
  <2>1. PICK p \in Orders : Jot(p) \/ Cancel(p)
    BY <1>4
  <2>2. at[p] \in {"jot", "cancel"} /\ notes' \in {notes, [notes EXCEPT ![p] = copy[p]]}
    BY <2>1, CallerKinds DEF Jot, Cancel
  <2> QED BY <1>1, <2>2
<1>5. CASE \E v \in Reviews : Confirm(v)
  <2>1. PICK v \in Reviews : Confirm(v)
    BY <1>5
  <2>2. notes[Target[v]].state = "committed" /\ copy[v] = notes[Target[v]]
    BY <2>1, Parts DEF Confirm, ReviewFollows
  <2>3. notes' \in {notes, [notes EXCEPT ![Target[v]] = copy[v]]}
    BY <2>1 DEF Confirm
  <2> QED BY <1>1, <2>2, <2>3
<1>6. CASE \/ Request \/ Sweep \/ SweepEnds \/ Take \/ Record \/ Undo \/ Shortage \/ Allocated
           \/ Give \/ Given \/ Freed \/ Out \/ Sold \/ Answer
           \/ \E p \in Orders : Expire(p) \/ Void(p) \/ Place(p) \/ Pay(p) \/ Tick(p)
           \/ \E v \in Reviews : Preflight(v) \/ Notify(v) \/ Settle(v) \/ Abandon(v)
           \/ \E a \in Admins : AdminCancel(a)
           \/ \E c \in Callers : Evict(c)
           \/ CoordinatorEvicted \/ UNCHANGED vars
  <2>1. notes' = notes
    <3>1. CASE Request
      BY <3>1 DEF Request, Reserve, Release, Claim, Abort, Commit, Takes, records
    <3>2. CASE \/ Sweep \/ SweepEnds \/ Take \/ Record \/ Undo \/ Shortage \/ Allocated
               \/ Give \/ Given \/ Freed \/ Out \/ Sold \/ Answer
      BY <3>2 DEF Sweep, SweepEnds, Take, Record, Undo, Shortage, Allocated, Give, Given,
         Freed, Out, Sold, Answer, records
    <3>3. CASE \E p \in Orders : Expire(p) \/ Void(p) \/ Place(p) \/ Pay(p) \/ Tick(p)
      BY <3>3 DEF Expire, Void, Place, Pay, Tick, records
    <3>4. CASE \E v \in Reviews : Preflight(v) \/ Notify(v) \/ Settle(v) \/ Abandon(v)
      BY <3>4 DEF Preflight, Notify, Settle, Abandon, records
    <3>5. CASE \/ \E a \in Admins : AdminCancel(a)
               \/ \E c \in Callers : Evict(c)
               \/ CoordinatorEvicted \/ UNCHANGED vars
      BY <3>5 DEF AdminCancel, Evict, CoordinatorEvicted, vars, records
    <3> QED BY <1>6, <3>1, <3>2, <3>3, <3>4, <3>5
  <2> QED BY <2>1
<1>7. CASE \E a \in Admins : Cancel(a)
  <2>1. PICK a \in Admins : Cancel(a)
    BY <1>7
  <2>2. OrderFor(a) # o
    BY <1>1, CallersAssumption DEF Quiet, OrderFor, CallersAssumption
  <2>3. notes' \in {notes, [notes EXCEPT ![OrderFor(a)] = copy[a]]}
    BY <2>1 DEF Cancel
  <2> QED BY <1>1, <2>2, <2>3
<1> QED BY <1>2, <1>3, <1>4, <1>5, <1>6, <1>7
        DEF Next, JobStep, CheckoutStep, ReviewStep

\* In the same circumstances a reservation that was sold stays sold: no caller, with
\* whatever copy it holds, writes anything else over it.
THEOREM SoldStaysSold ==
  ASSUME Calm
  PROVE  Spec => CommittedIsFinal
<1>1. AllInv /\ [Next]_vars =>
        [\A o \in Orders :
           notes[o].state = "committed" => notes'[o].state = "committed"]_vars
  BY CommittedStays
<1> QED BY <1>1, AllInvariance, PTL DEF Spec, CommittedIsFinal

\* In the same circumstances, and where no admin cancels at all, the notes account for
\* the stock: between two jobs a unit is in its batch or in the live reservation of one
\* order.
THEOREM NotesAccountForUnits ==
  ASSUME Calm, Admins = {}
  PROVE  Spec => []UnitsAccountedFor
<1>0. Quiet = Orders
  BY DEF Quiet
<1>1. AllInv => UnitsAccountedFor
  <2> DEFINE live(o) == /\ notes[o].state \in {"reserved", "payment_review", "committed"}
                        /\ at[o] # "cancel"
             held(b) == [o \in Orders |-> IF live(o) THEN notes[o].alloc[b] ELSE 0]
  <2> SUFFICES ASSUME Calm, AllInv, job = Idle, NEW b \in Batches
               PROVE  remaining[b] + SumFunction(held(b)) = Initial[b]
    BY DEF UnitsAccountedFor
  <2>1. ASSUME NEW o \in Orders
        PROVE  Units("reserve", o, b) - Units("release", o, b)
                 = IF live(o) THEN notes[o].alloc[b] ELSE 0
    <3>1. Units("reserve", o, b) \in Nat /\ Units("release", o, b) \in Nat
      BY UnitsType, Parts DEF Kinds
    <3>2. ~Moving(o) /\ ~Busy(o)
      BY DEF Moving, About, Busy
    <3>3. CASE live(o)
      <4>1. at[o] \in {"pay", "jot", "release", "placed"} /\ notes[o].state \in Live
        BY <1>0, <3>2, <3>3, Parts DEF NotesFollow, PlacesOK, NoReservation, Live
      <4>2. notes[o].alloc[b] = Units("reserve", o, b) /\ Units("release", o, b) = 0
        BY <1>0, <4>1, WhenIdle DEF Whole, Kept
      <4> QED BY <3>1, <3>3, <4>2
    <3>4. CASE ~live(o) /\ at[o] \in {"idle", "reserve"}
      <4>1. Units("reserve", o, b) = 0 /\ Units("release", o, b) = 0
        BY <3>4, Parts DEF MovesInv, NothingYet, Asking
      <4> QED BY <3>4, <4>1
    <3>5. CASE ~live(o) /\ at[o] \notin {"idle", "reserve"}
      <4>1. at[o] \in {"cancel", "failed"} \/ notes[o].state = "expired"
        BY <1>0, <3>5, Parts DEF NotesFollow, PlacesOK, Live
      <4>2. Back(o)
        BY <1>0, <3>2, <4>1, Parts DEF UnitsFollow
      <4> QED BY <3>1, <3>5, <4>2 DEF Back
    <3> QED BY <3>3, <3>4, <3>5
  <2>2. held(b) = [o \in Orders |-> Units("reserve", o, b) - Units("release", o, b)]
    BY <2>1
  <2>3. SumFunction(held(b)) = Gone(b)
    BY <2>2 DEF Gone
  <2> HIDE DEF held
  <2>4. remaining[b] + Gone(b) + 0 = Initial[b] /\ remaining[b] \in Nat /\ Gone(b) \in Int
    BY Parts, NoneInHand, GoneType DEF ShelfInv, Handless, IInv, TypeOK
  <2> QED BY <2>3, <2>4
<1> QED BY <1>1, AllInvariance, PTL

-----------------------------------------------------------------------------
(* The movements implement the ledger: a reserve movement holds units, a    *)
(* movement of a release frees them and one of a commit sells them; every   *)
(* other step leaves the ledger as it is.                                   *)

LEMMA LedgerSum ==
  ASSUME NEW f
  PROVE  Ledger!SumFunction(f) = SumFunction(f)
BY DEF Ledger!SumFunction, SumFunction, Ledger!SumFunctionOnSet, SumFunctionOnSet,
       Ledger!FoldFunctionOnSet, FoldFunctionOnSet, Ledger!MapThenFoldSet, MapThenFoldSet

LEMMA LedgerGone ==
  ASSUME NEW b
  PROVE  Ledger!Gone(b) = Gone(b)
BY LedgerSum DEF Ledger!Gone, Gone, Units

\* The units gone of a batch are never fewer than none.
LEMMA GoneIsNat ==
  ASSUME IInv, MovesInv, NEW b \in Batches
  PROVE  Gone(b) \in Nat
<1> DEFINE f == [o \in Orders |-> Units("reserve", o, b) - Units("release", o, b)]
<1>1. ASSUME NEW o \in Orders
      PROVE  Units("reserve", o, b) - Units("release", o, b) \in Nat
  <2>1. Units("reserve", o, b) \in Nat
    BY UnitsType DEF Kinds
  <2>2. Units("release", o, b) \in {0, Units("reserve", o, b)}
    BY DEF MovesInv, MovedOnce, Units
  <2> QED BY <2>1, <2>2
<1>2. f \in [Orders -> Nat]
  BY <1>1
<1>3. Gone(b) = SumFunction(f)
  BY DEF Gone
<1> HIDE DEF f
<1> QED BY <1>2, <1>3, SumNat, OrdersAssumption DEF OrdersAssumption

LEMMA RecordedKinds ==
  ASSUME IInv, NEW kind \in Kinds, NEW o \in Orders, NEW b \in Batches, NEW n \in Nat,
         moved' = Recorded(kind, o, b, n)
  PROVE  /\ moved'[kind] = [moved[kind] EXCEPT ![o][b] = moved[kind][o][b] + n]
         /\ \A k \in Kinds : k # kind => moved'[k] = moved[k]
<1>1. moved \in [Kinds -> [Orders -> [Batches -> Nat]]]
  BY UnitsType
<1>2. moved' = [moved EXCEPT ![kind] =
                  [moved[kind] EXCEPT ![o] = [moved[kind][o] EXCEPT ![b] = moved[kind][o][b] + n]]]
  BY <1>1 DEF Recorded
<1> QED BY <1>1, <1>2

LEMMA LedgerInit == Init => Ledger!Init
BY DEF Init, Ledger!Init, Ledger!Nothing, NoUnits

LEMMA LedgerRecord ==
  ASSUME Calm, AllInv, Record
  PROVE  Ledger!Next
<1> DEFINE b == job.batch
           n == job.take
<1>0. PICK o \in Orders : o = job.of
  BY JobParts DEF Record, Running
<1>1. /\ job # Idle /\ job.pc = "record" /\ b \in Batches /\ n \in Nat /\ n > 0
      /\ Units("reserve", o, b) = 0
  BY <1>0, AtWork, JobTypes, Parts DEF Record, Running, JobOK, MovesInv, JobInStep
<1>2. moved' = Recorded("reserve", o, b, n)
  BY <1>0, NoFault DEF Record, Recorded, AllInv, Calm
<1>3. InHand(b) = n
  BY <1>1 DEF InHand
<1>4. remaining[b] + Gone(b) + n = Initial[b] /\ remaining[b] \in Nat /\ Gone(b) \in Nat
      /\ Initial[b] \in Nat
  BY <1>1, <1>3, Parts, GoneIsNat, StockAssumption
     DEF ShelfInv, IInv, TypeOK, StockAssumption
<1> HIDE DEF b, n
<1>5. n \in 1..Initial[b] /\ Ledger!Gone(b) + n <= Initial[b]
  BY <1>1, <1>4, LedgerGone
<1>6. /\ moved'["reserve"] = [moved["reserve"] EXCEPT ![o][b] = moved["reserve"][o][b] + n]
      /\ moved'["out"] = moved["out"] /\ moved'["release"] = moved["release"]
  <2>1. "reserve" \in Kinds
    BY DEF Kinds
  <2>2. /\ moved'["reserve"] = [moved["reserve"] EXCEPT ![o][b] = moved["reserve"][o][b] + n]
        /\ \A k \in Kinds : k # "reserve" => moved'[k] = moved[k]
    BY <1>1, <1>2, <2>1, Parts, RecordedKinds
  <2> QED BY <2>2 DEF Kinds
<1>7. moved["reserve"][o][b] = 0
  BY <1>1 DEF Units
<1>8. moved'["reserve"] = [moved["reserve"] EXCEPT ![o][b] = n]
  BY <1>1, <1>6, <1>7
<1>9. Ledger!Hold(o, b)
  BY <1>5, <1>6, <1>7, <1>8 DEF Ledger!Hold
<1> QED BY <1>1, <1>9 DEF Ledger!Next

\* Only of an order of the admins may a reservation name a batch it has nothing of.
LEMMA LedgerGiven ==
  ASSUME Calm, AllInv, Given
  PROVE  Ledger!Next \/ moved' = moved
<1> DEFINE b == job.batch
           n == job.copy.alloc[b]
<1>0. PICK o \in Orders : o = job.of
  BY JobParts DEF Given, Running
<1>1. /\ job # Idle /\ job.pc = "given" /\ b \in Batches
      /\ Units("release", o, b) = 0 /\ n \in {0, Units("reserve", o, b)}
      /\ Units("reserve", o, b) \in Nat
  BY <1>0, AtWork, JobTypes, Parts, CopiesAreExact, UnitsType
     DEF Given, Running, JobOK, MovesInv, JobInStep, ExactFor, Kinds
<1>2. moved' = Recorded("release", o, b, n)
  BY <1>0, NoFault DEF Given, Recorded, AllInv, Calm
<1>3. Unsold(o)
  <2>1. CASE o \in Quiet
    BY <1>0, <1>1, <2>1, QuietJob DEF JobDoes, Reserving, Releasing, Claiming, Aborting,
       Committing, Sweeping, Ops
  <2>2. CASE o \notin Quiet
    BY <2>2, Parts DEF Unsettled
  <2> QED BY <2>1, <2>2
<1>4. moved["out"][o][b] = 0 /\ moved["release"][o][b] = 0 /\ n \in Nat
  BY <1>1, <1>3 DEF Unsold, Units
<1> HIDE DEF b, n
<1>5. /\ moved'["release"] = [moved["release"] EXCEPT ![o][b] = n]
      /\ moved'["out"] = moved["out"] /\ moved'["reserve"] = moved["reserve"]
  <2>1. "release" \in Kinds
    BY DEF Kinds
  <2>2. /\ moved'["release"] = [moved["release"] EXCEPT ![o][b] = n]
        /\ \A k \in Kinds : k # "release" => moved'[k] = moved[k]
    BY <1>1, <1>2, <1>4, <2>1, Parts, RecordedKinds
  <2> QED BY <2>2 DEF Kinds
<1>6. CASE n = 0
  <2>1. moved \in [Kinds -> [Orders -> [Batches -> Nat]]]
    BY UnitsType, Parts
  <2>2. moved["release"] = [moved["release"] EXCEPT ![o][b] = n]
    BY <1>1, <1>4, <1>6, <2>1 DEF Kinds
  <2>3. moved' \in [Kinds -> [Orders -> [Batches -> Nat]]]
    BY <1>1, <1>2, <1>4, <2>1 DEF Recorded, Kinds
  <2>4. \A k \in Kinds : moved'[k] = moved[k]
    BY <1>5, <2>2 DEF Kinds
  <2> QED BY <2>1, <2>3, <2>4
<1>7. CASE n = moved["reserve"][o][b]
  BY <1>1, <1>4, <1>5, <1>7 DEF Ledger!Free, Ledger!Next
<1> QED BY <1>1, <1>6, <1>7 DEF Units

LEMMA LedgerOut ==
  ASSUME Calm, AllInv, Out
  PROVE  Ledger!Next
<1> DEFINE b == Min(job.todo)
           n == job.copy.alloc[b]
<1>0. PICK o \in Quiet : o = job.of /\ o \in Orders
  <2>1. job # Idle /\ job.op = "commit"
    BY DEF Out, Running, AllInv, UnreviewedInv
  <2> QED BY <2>1, JobCaller, JobParts
<1>1. /\ job # Idle /\ job.pc = "out" /\ JobDoes /\ b \in Batches
      /\ Units("out", o, b) = 0 /\ n \in Nat
  <2>1. job # Idle /\ job.pc = "out" /\ JobDoes
    BY <1>0, QuietJob DEF Out, Running
  <2>2. job.todo \in SUBSET Batches /\ job.todo # {} /\ job.copy.alloc \in [Batches -> Nat]
    BY <2>1, JobTypes DEF Out, AllInv
  <2>3. b \in Batches /\ b \in job.todo
    BY <2>2, MinOfBatches
  <2>4. Units("out", o, b) = 0
    BY <1>0, <2>1, <2>3, Parts DEF MovesInv, JobInStep
  <2> QED BY <2>1, <2>2, <2>3, <2>4
<1>2. moved' = Recorded("out", o, b, n)
  BY <1>0, NoFault DEF Out, Recorded, AllInv, Calm
<1>3. Kept(o) /\ Whole(o, job.copy)
  BY <1>0, <1>1, QuietJob DEF JobDoes, Reserving, Releasing, Claiming, Aborting, Committing,
     Sweeping, Ops
<1>4. moved["release"][o][b] = 0 /\ n = moved["reserve"][o][b] /\ moved["out"][o][b] = 0
  BY <1>1, <1>3 DEF Kept, Whole, Units
<1> HIDE DEF b, n
<1>5. /\ moved'["out"] = [moved["out"] EXCEPT ![o][b] = moved["out"][o][b] + n]
      /\ moved'["release"] = moved["release"] /\ moved'["reserve"] = moved["reserve"]
  <2>1. "out" \in Kinds
    BY DEF Kinds
  <2>2. /\ moved'["out"] = [moved["out"] EXCEPT ![o][b] = moved["out"][o][b] + n]
        /\ \A k \in Kinds : k # "out" => moved'[k] = moved[k]
    BY <1>0, <1>1, <1>2, <2>1, Parts, RecordedKinds
  <2> QED BY <2>2 DEF Kinds
<1>6. moved'["out"] = [moved["out"] EXCEPT ![o][b] = moved["reserve"][o][b]]
  BY <1>1, <1>4, <1>5
<1>7. Ledger!Sell(o, b)
  BY <1>4, <1>5, <1>6 DEF Ledger!Sell
<1> QED BY <1>0, <1>1, <1>7 DEF Ledger!Next

LEMMA LedgerStep ==
  ASSUME Calm, AllInv, [Next]_vars
  PROVE  [Ledger!Next]_(Ledger!vars)
<1>1. CASE Record \/ Given \/ Out
  BY <1>1, LedgerRecord, LedgerGiven, LedgerOut DEF Ledger!vars
<1>2. CASE moved' = moved
  BY <1>2 DEF Ledger!vars
<1>3. Record \/ Given \/ Out \/ moved' = moved
  <2>1. CASE Request
    BY <2>1 DEF Request, Reserve, Release, Claim, Abort, Commit, Takes, stock
  <2>2. CASE JobStep
    BY <2>2 DEF JobStep, Take, Undo, Shortage, Allocated, Note, Give, Freed, Sold, Save,
       Answer, Close, Sync, SweepEnds, Expire, Void, stock
  <2>3. CASE Sweep \/ CoordinatorEvicted \/ (\E c \in Callers : Evict(c)) \/ UNCHANGED vars
    BY <2>3 DEF Sweep, CoordinatorEvicted, Evict, vars, stock
  <2>4. CASE \E o \in Orders : Place(o) \/ CheckoutStep(o) \/ Tick(o)
    BY <2>4 DEF Place, CheckoutStep, Pay, Jot, Cancel, Tick, stock
  <2>5. CASE \E v \in Reviews : Preflight(v) \/ ReviewStep(v)
    BY <2>5 DEF Preflight, ReviewStep, Notify, Settle, Confirm, Abandon, stock
  <2>6. CASE \E a \in Admins : AdminCancel(a) \/ Cancel(a)
    BY <2>6 DEF AdminCancel, Cancel, stock
  <2> QED BY <2>1, <2>2, <2>3, <2>4, <2>5, <2>6 DEF Next
<1> QED BY <1>1, <1>2, <1>3

\* In the same circumstances the movement records keep the promise of the ledger: a
\* batch never holds for orders more than came in, and what is held for an order is
\* afterwards sold or given back, the whole of it, once, and never both.
THEOREM MovementsKeepLedger ==
  ASSUME Calm
  PROVE  Spec => KeepsLedger
<1>1. Init => Ledger!Init
  BY LedgerInit
<1>2. AllInv /\ [Next]_vars => [Ledger!Next]_(Ledger!vars)
  BY LedgerStep
<1> QED BY <1>1, <1>2, AllInvariance, PTL DEF Spec, KeepsLedger, Ledger!Spec
=============================================================================

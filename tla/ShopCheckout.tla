---------------------------- MODULE ShopCheckout ----------------------------
(***************************************************************************)
(* One shop checkout, from the calls that carry one idempotency key to the *)
(* records they leave behind.  Every call with the key reaches the same    *)
(* Durable Object, whose storage holds one row: the first call to claim it *)
(* runs the checkout, checkpointing its stage before each external write;  *)
(* every other call is answered from the row.  A call whose body does not  *)
(* normalise never gets there: the worker in front of the object refuses   *)
(* it, and lets the customer take a new key, without asking the object     *)
(* what became of this one.                                                *)
(*                                                                         *)
(* The world outside is the order in Airtable, the hold on the stock       *)
(* (taken by the coordinator of ShopStock) and the payment intent of       *)
(* payments-worker.  Others act on it as well: the sweep ends an unpaid    *)
(* hold, a review confirms a payment, an admin cancels the order at any    *)
(* time.  ShopStock has them step by step; here they are their effects.    *)
(*                                                                         *)
(* A write can be refused, or done with its reply lost; the object can be  *)
(* evicted between any two steps; storage can fail with or without having  *)
(* stored.  The budget MaxFaults bounds how often that happens; refusals,  *)
(* which the code expects, are not counted.                                *)
(***************************************************************************)
EXTENDS Naturals, FiniteSets

CONSTANTS
  Requests,     \* the calls made with the key
  Carts,        \* bodies: cart, shop, customer, shipping, member identity
  Malformed,    \* those that do not normalise
  CartOf,       \* the body each call carries
  MaxFaults     \* bound: evictions, storage failures and lost replies

ASSUME CartAssumption == CartOf \in [Requests -> Carts]
ASSUME MalformedAssumption == Malformed \subseteq Carts
ASSUME MaxFaultsAssumption == MaxFaults \in Nat

VARIABLES
  row,       \* what the object's storage holds for the key
  stale,     \* 120 s have passed since the row was claimed
  due,       \* the receipt, hence the reservation, has expired
  call,      \* the state of each call
  written,   \* the kinds of record the checkout has written
  placed,    \* how many orders were created
  order,     \* status of the order
  stock,     \* the hold on the order's stock
  admin,     \* where the last cancellation by an admin is, if there was one
  faults

vars == <<row, stale, due, call, written, placed, order, stock, admin, faults>>

-----------------------------------------------------------------------------
(* The programme of the checkout: the checkpoint before each group of      *)
(* writes, and the writes.                                                 *)

NoRow == [state |-> "none"]

CheckpointPcs == {"cp_customer", "cp_order", "cp_reserve", "cp_items", "cp_note"}
WritePcs == {"customer", "order", "reserve", "items", "payment"}
UndoPcs == {"release", "cancel"}

\* A call is executing when it owns the row and has not been answered.
ExecutingPcs == {"validate"} \cup CheckpointPcs \cup WritePcs \cup UndoPcs
                  \cup {"note", "settle"}

\* The stage each checkpoint stores.
StageOf == [cp_customer |-> "before_customer_write",
            cp_order    |-> "before_order_write",
            cp_reserve  |-> "order_created",
            cp_items    |-> "stock_reserved",
            cp_note     |-> "payment_created"]

Stages == {"claimed"} \cup {StageOf[p] : p \in CheckpointPcs}

\* What runs after a step that went well.
After == [validate    |-> "cp_customer", cp_customer |-> "customer",
          customer    |-> "cp_order",    cp_order    |-> "order",
          order       |-> "cp_reserve",  cp_reserve  |-> "reserve",
          reserve     |-> "cp_items",    cp_items    |-> "items",
          items       |-> "payment",     payment     |-> "cp_note",
          cp_note     |-> "note",        note        |-> "settle"]

\* The writes a stored stage accounts for.
Covered == [claimed               |-> {},
            before_customer_write |-> {"customer"},
            before_order_write    |-> {"customer", "order"},
            order_created         |-> {"customer", "order", "reserve"},
            stock_reserved        |-> WritePcs,
            payment_created       |-> WritePcs]

\* What the response of the checkout amounts to: "failed" asks for manual
\* review, "new_attempt" lets the customer take another key.  "refused" does so
\* too; it is said in front of the object.
Outcomes == {"ok", "failed", "new_attempt"}
StartOver == {"new_attempt", "refused"}
Replies == Outcomes \cup StartOver
             \cup {"conflict", "in_progress", "resume_expired", "recovery",
                   "unavailable", "unknown"}

RowType ==
  {NoRow} \cup
  [state : {"processing", "complete", "failed", "expired"}, stage : Stages,
   cart : Carts, reply : Outcomes \cup {"none"}]

CallType ==
  [pc : {"away", "claim", "done"} \cup ExecutingPcs,
   stage : Stages,                   \* the stage in the owner's memory
   made : BOOLEAN,                   \* it knows the order it created
   held : BOOLEAN,                   \* its reservation is in state reserved
   status : {"2xx", "4xx", "5xx"},   \* status of the response it will return
   reply : Replies \cup {"none"}]

TypeOK ==
  /\ row \in RowType
  /\ stale \in BOOLEAN
  /\ due \in BOOLEAN
  /\ call \in [Requests -> CallType]
  /\ written \subseteq WritePcs
  /\ placed \in Nat
  /\ order \in {"none", "draft", "confirmed", "cancelled"}
  /\ stock \in {"none", "held", "sold", "freed"}
  /\ admin \in {"none", "release", "cancel", "done"}
  /\ faults \in 0..MaxFaults

Executing(r) == call[r].pc \in ExecutingPcs

Init ==
  /\ row = NoRow
  /\ stale = FALSE
  /\ due = FALSE
  /\ call = [r \in Requests |->
               [pc |-> "away", stage |-> "claimed", made |-> FALSE,
                held |-> FALSE, status |-> "2xx", reply |-> "none"]]
  /\ written = {}
  /\ placed = 0
  /\ order = "none"
  /\ stock = "none"
  /\ admin = "none"
  /\ faults = 0

-----------------------------------------------------------------------------
(* Building blocks.                                                        *)

world == <<written, placed, order, stock>>
outside == <<stale, due, admin>>

Fault ==
  /\ faults < MaxFaults
  /\ faults' = faults + 1

MayFail(bad) == IF bad THEN Fault ELSE UNCHANGED faults

Goto(r, pc) == call' = [call EXCEPT ![r].pc = pc]

Reply(r, what) == call' = [call EXCEPT ![r].pc = "done", ![r].reply = what]

\* Mutant: the stock is given back only by the sweep.
Recover_OrderOnly(c) == IF c.made THEN "cancel" ELSE "settle"

\* Where an error takes the owner: give back the stock it holds, cancel the
\* order it knows, then store the outcome.
Recover(c) == IF c.held THEN "release" ELSE IF c.made THEN "cancel" ELSE "settle"

Throw(r, status) ==
  call' = [call EXCEPT ![r].pc = Recover(call[r]), ![r].status = status]

-----------------------------------------------------------------------------
(* In front of the object.                                                 *)

Normalises(r) == CartOf[r] \notin Malformed

\* A body that is not one, or whose customer, shipping or cart does not
\* normalise: the key's row is not looked at.
Refuse(r) ==
  /\ call[r].pc = "away"
  /\ ~Normalises(r)
  /\ Reply(r, "refused")
  /\ UNCHANGED <<row, outside, world, faults>>

\* The normalised body is passed on to the object of the key.
Arrive(r) ==
  /\ call[r].pc = "away"
  /\ Normalises(r)
  /\ Goto(r, "claim")
  /\ UNCHANGED <<row, outside, world, faults>>

\* The object is not reached.
Unreached(r) ==
  /\ call[r].pc = "away"
  /\ Normalises(r)
  /\ Fault
  /\ Reply(r, "unknown")
  /\ UNCHANGED <<row, outside, world>>

-----------------------------------------------------------------------------
(* The row.                                                                *)

\* Mutant: the row has no stage until the first checkpoint.
NewRow_Unstaged(r) == [state |-> "processing", stage |-> "none",
                       cart |-> CartOf[r], reply |-> "none"]

NewRow(r) == [state |-> "processing", stage |-> "claimed",
              cart |-> CartOf[r], reply |-> "none"]

\* Mutant: an overdue run is taken for dead and started again.
Claim_RestartStale(r) ==
  /\ call[r].pc = "claim"
  /\ row = NoRow \/ (row.state = "processing" /\ stale)
  /\ row' = NewRow(r)
  /\ Goto(r, "validate")
  /\ UNCHANGED <<outside, world, faults>>

Claim(r) ==
  /\ call[r].pc = "claim"
  /\ row = NoRow
  /\ row' = NewRow(r)
  /\ Goto(r, "validate")
  /\ UNCHANGED <<outside, world, faults>>

\* The claiming transaction fails, before or after its commit.
ClaimFails(r) ==
  /\ call[r].pc = "claim"
  /\ Fault
  /\ \/ UNCHANGED row
     \/ row = NoRow /\ row' = NewRow(r)
  /\ Reply(r, "unavailable")
  /\ UNCHANGED <<outside, world>>

\* Mutants: the fingerprint is not compared; the expiry is not looked at.
Existing_AnyCart(r) ==
  IF row.reply # "none" /\ ~due THEN row.reply ELSE "recovery"

Existing_NoExpiry(r) ==
  IF row.cart # CartOf[r] THEN "conflict"
  ELSE IF row.reply # "none" THEN row.reply ELSE "recovery"

\* The answer to a call that finds a row.
Existing(r) ==
  IF row.cart # CartOf[r] THEN "conflict"
  ELSE IF row.reply # "none" /\ ~due THEN row.reply
  ELSE IF row.state = "processing" /\ ~stale THEN "in_progress"
  ELSE IF row.state \in {"complete", "expired"} THEN "resume_expired"
  ELSE "recovery"

\* Mutant: a call that finds a run in progress waits for it to end.
Replay_Waits(r) ==
  /\ call[r].pc = "claim"
  /\ row # NoRow
  /\ row.state # "processing"
  /\ Reply(r, Existing(r))
  /\ UNCHANGED <<row, outside, world, faults>>

Replay(r) ==
  /\ call[r].pc = "claim"
  /\ row # NoRow
  /\ Reply(r, Existing(r))
  /\ UNCHANGED <<row, outside, world, faults>>

-----------------------------------------------------------------------------
(* The execution.                                                          *)

\* The cart is read against the catalogue: a 4xx, an upstream 5xx, or priced.
Validate(r) ==
  /\ call[r].pc = "validate"
  /\ \/ Goto(r, After.validate)
     \/ \E status \in {"4xx", "5xx"} : Throw(r, status)
  /\ UNCHANGED <<row, outside, world, faults>>

\* Mutant: the put is not awaited, its failure goes unnoticed.
Checkpoint_NotAwaited(r) ==
  LET c == [call[r] EXCEPT !.stage = StageOf[call[r].pc]]
  IN  /\ call[r].pc \in CheckpointPcs
      /\ \E stored \in BOOLEAN :
           /\ MayFail(~stored)
           /\ row' = IF stored THEN [row EXCEPT !.stage = c.stage] ELSE row
      /\ call' = [call EXCEPT ![r] = [c EXCEPT !.pc = After[c.pc]]]
      /\ UNCHANGED <<outside, world>>

\* The stage is set in memory, then stored; a failing put throws.
Checkpoint(r) ==
  LET c == [call[r] EXCEPT !.stage = StageOf[call[r].pc]]
  IN  /\ call[r].pc \in CheckpointPcs
      /\ \E stored \in BOOLEAN, thrown \in BOOLEAN :
           /\ stored \/ thrown
           /\ MayFail(thrown)
           /\ row' = IF stored THEN [row EXCEPT !.stage = c.stage] ELSE row
           /\ call' = [call EXCEPT ![r] =
                        IF thrown
                        THEN [c EXCEPT !.pc = Recover(c), !.status = "5xx"]
                        ELSE [c EXCEPT !.pc = After[c.pc]]]
      /\ UNCHANGED <<outside, world>>

\* The effect of a write on the world.
Effect(w) ==
  /\ written' = written \cup {w}
  /\ placed' = IF w = "order" THEN placed + 1 ELSE placed
  /\ order' = IF w = "order" THEN "draft" ELSE order
  /\ stock' = IF w = "reserve" THEN "held" ELSE stock

\* What the owner knows after the reply to a write.
Learn(c, w) == [c EXCEPT !.pc = After[w], !.made = @ \/ w = "order",
                         !.held = @ \/ w = "reserve"]

\* Refused writes have no effect; a lost reply follows the effect.  The status
\* an error carries is the upstream's.
Write(r) ==
  LET w == call[r].pc
  IN  /\ w \in WritePcs
      /\ \/ /\ Effect(w)
            /\ call' = [call EXCEPT ![r] = Learn(@, w)]
            /\ UNCHANGED faults
         \/ /\ \E status \in {"4xx", "5xx"} : Throw(r, status)
            /\ UNCHANGED <<world, faults>>
         \/ /\ Fault
            /\ Effect(w)
            /\ Throw(r, "5xx")
      /\ UNCHANGED <<row, outside>>

\* The payment reference is noted on the order; failing is ignored.
Note(r) ==
  /\ call[r].pc = "note"
  /\ Goto(r, After.note)
  /\ UNCHANGED <<row, outside, world, faults>>

\* Give back the stock: best effort, the answer is not looked at.
Release(r) ==
  /\ call[r].pc = "release"
  /\ \E done \in BOOLEAN, thrown \in BOOLEAN :
       /\ done \/ thrown
       /\ MayFail(thrown)
       /\ stock' = IF done THEN "freed" ELSE stock
       /\ call' = [call EXCEPT ![r].pc = "cancel", ![r].held = thrown]
  /\ UNCHANGED <<row, outside, written, placed, order>>

\* Cancel the order: best effort.
Cancel(r) ==
  /\ call[r].pc = "cancel"
  /\ \E done \in BOOLEAN, thrown \in BOOLEAN :
       /\ done \/ thrown
       /\ MayFail(thrown)
       /\ order' = IF done THEN "cancelled" ELSE order
  /\ Goto(r, "settle")
  /\ UNCHANGED <<row, outside, written, placed, stock>>

\* Mutant: every 4xx allows a new attempt, whatever was written before it.
Outcome_AnyRefusal(c) ==
  IF c.status = "2xx" THEN "ok"
  ELSE IF c.status = "4xx" THEN "new_attempt" ELSE "failed"

\* How the response of the owner is classified.
Outcome(c) ==
  IF c.status = "2xx" THEN "ok"
  ELSE IF c.stage = "claimed" /\ c.status = "4xx" THEN "new_attempt"
  ELSE "failed"

\* Mutant: the receipt is stored before new_attempt_allowed is worked out.
Settled_StatusOnly(c) ==
  [row EXCEPT !.state = IF c.status = "2xx" THEN "complete" ELSE "failed",
              !.stage = c.stage,
              !.reply = IF c.status = "2xx" THEN "ok" ELSE "failed"]

Settled(c) ==
  [row EXCEPT !.state = IF c.status = "2xx" THEN "complete" ELSE "failed",
              !.stage = c.stage, !.reply = Outcome(c)]

Settle(r) ==
  /\ call[r].pc = "settle"
  /\ row' = Settled(call[r])
  /\ Reply(r, Outcome(call[r]))
  /\ UNCHANGED <<outside, world, faults>>

\* The receipt cannot be stored, or is stored and the put still throws.
SettleFails(r) ==
  /\ call[r].pc = "settle"
  /\ Fault
  /\ row' \in {row, Settled(call[r])}
  /\ Reply(r, "recovery")
  /\ UNCHANGED <<outside, world>>

-----------------------------------------------------------------------------
(* Time, the alarm and evictions.                                          *)

\* 120 s after the claim.
Age ==
  /\ row # NoRow
  /\ ~stale
  /\ stale' = TRUE
  /\ UNCHANGED <<row, due, call, world, admin, faults>>

\* 45 minutes later; an execution does not last that long.
Lapse ==
  /\ row # NoRow
  /\ \A r \in Requests : ~Executing(r)
  /\ ~due
  /\ due' = TRUE
  /\ stale' = TRUE
  /\ UNCHANGED <<row, call, world, admin, faults>>

\* The object's alarm drops the response of an expired receipt.
Tombstone ==
  /\ row # NoRow
  /\ row.state \in {"complete", "failed"}
  /\ due
  /\ row' = [row EXCEPT !.state = "expired", !.reply = "none"]
  /\ UNCHANGED <<outside, call, world, faults>>

\* The object is evicted: its storage stays, the calls in it lose their answer.
Evict ==
  /\ Fault
  /\ \E r \in Requests : Executing(r)
  /\ call' = [r \in Requests |->
                IF Executing(r) \/ call[r].pc = "claim"
                THEN [call[r] EXCEPT !.pc = "done", !.reply = "unknown"]
                ELSE call[r]]
  /\ UNCHANGED <<row, outside, world>>

-----------------------------------------------------------------------------
(* What others do to the order and its hold.                               *)

\* The expiry sweep of the stock coordinator (ShopStock) ends an unpaid hold.
Sweep ==
  /\ due
  /\ stock = "held"
  /\ order = "draft"
  /\ stock' = "freed"
  /\ order' = "cancelled"
  /\ UNCHANGED <<row, outside, call, written, placed, faults>>

\* A review confirms the payment and sells the units.  The link to pay with is
\* in the answer of the execution, which is over by then.
Confirm ==
  /\ \A r \in Requests : ~Executing(r)
  /\ order = "draft"
  /\ stock = "held"
  /\ "payment" \in written
  /\ order' = "confirmed"
  /\ stock' = "sold"
  /\ UNCHANGED <<row, outside, call, written, placed, faults>>

\* An admin cancels an order that is not paid, also while its checkout runs.  The
\* reservation is the one in the notes at this point, if the checkout has not
\* overwritten it when it cancelled.
AdminReads ==
  /\ admin \in {"none", "done"}
  /\ order \notin {"none", "confirmed"}
  /\ \/ stock = "held" /\ admin' = "release"
     \/ (stock = "held" => order = "cancelled") /\ admin' = "cancel"
  /\ UNCHANGED <<row, stale, due, call, world, faults>>

\* The stock is given back first; if that fails the order stays as it is.
AdminReleases ==
  /\ admin = "release"
  /\ \E done \in BOOLEAN, thrown \in BOOLEAN :
       /\ done \/ thrown
       /\ MayFail(thrown)
       /\ stock' = IF done THEN "freed" ELSE stock
       /\ admin' = IF thrown THEN "done" ELSE "cancel"
  /\ UNCHANGED <<row, stale, due, call, written, placed, order>>

AdminCancels ==
  /\ admin = "cancel"
  /\ \E done \in BOOLEAN, thrown \in BOOLEAN :
       /\ done \/ thrown
       /\ MayFail(thrown)
       /\ order' = IF done THEN "cancelled" ELSE order
  /\ admin' = "done"
  /\ UNCHANGED <<row, stale, due, call, written, placed, stock>>

Others == Sweep \/ Confirm \/ AdminReads \/ AdminReleases \/ AdminCancels

-----------------------------------------------------------------------------
Step(r) ==
  \/ Claim(r) \/ ClaimFails(r) \/ Replay(r)
  \/ Validate(r) \/ Checkpoint(r) \/ Write(r) \/ Note(r)
  \/ Release(r) \/ Cancel(r) \/ Settle(r) \/ SettleFails(r)

Next ==
  \/ \E r \in Requests : Refuse(r) \/ Arrive(r) \/ Unreached(r) \/ Step(r)
  \/ Age \/ Lapse \/ Tombstone \/ Evict
  \/ Others

\* A call inside the object keeps running: an await resolves or rejects.
Fairness == \A r \in Requests : WF_vars(Step(r))

Spec == Init /\ [][Next]_vars /\ Fairness

-----------------------------------------------------------------------------
(* Properties.                                                             *)

\* However often a checkout is retried, and whatever fails, the key creates at
\* most one order: runCheckoutOnce never runs its execution a second time, not
\* even after an eviction or when the first run is long overdue.
AtMostOneOrder == placed <= 1

\* A customer told to start over with a new key has bought nothing under this
\* one.  When the row says so ("new_attempt_allowed" of runCheckoutOnce), nothing
\* was written for the key, nor will be.  The front of the object says so without
\* looking at the row: then what was written, if anything, was another body's,
\* which a client sent under the same key.  The shop's own pages resend the body
\* they saved with a key, so for them neither answer hides an order.
NewAttemptIsSafe ==
  \A r \in Requests :
    /\ call[r].reply = "new_attempt" => written = {}
    /\ call[r].reply = "refused" => written = {} \/ row.cart # CartOf[r]

\* The stored stage is ahead of the writes: whoever reviews the row of a
\* checkout that died learns of every record it may have left behind.
StageAheadOfWrites == row # NoRow => written \subseteq Covered[row.stage]

\* All the calls that are told how the checkout ended sent its cart, and are told
\* the same: nobody is shown the receipt of another cart.
OneOutcome ==
  \A r, s \in Requests :
    call[r].reply \in Outcomes /\ call[s].reply \in Outcomes
      => /\ call[r].reply = call[s].reply
         /\ CartOf[r] = row.cart

\* A checkout that ends without success, and with no fault on the way, leaves
\* neither an order nor stock that is still held for it or sold.
FailureUndone ==
  /\ faults = 0
  /\ \E r \in Requests : call[r].reply \in {"failed", "new_attempt"}
  => order \in {"none", "cancelled"} /\ stock \in {"none", "freed"}

\* A call is told "ok", first time or replayed, only while the order it buys
\* stands: its payment intent created, and the order open with its stock held or
\* already paid and sold.  The receipt does not outlive the reservation.  The one
\* exception is an order that an admin has begun to cancel: runCheckoutOnce looks
\* only at the expiry of the receipt, and goes on saying "ok" of it until then.
OkWhileOrderStands ==
  [][\A r \in Requests :
       call'[r].reply = "ok" /\ call[r].reply # "ok"
         => /\ "payment" \in written'
            /\ \/ order' = "draft" /\ stock' = "held"
               \/ order' = "confirmed" /\ stock' = "sold"
               \/ admin' # "none"
    ]_vars

\* Every call that arrives is answered.  A call arrives once, so it is enough that
\* there is always a later moment when none is waiting.
EveryCallAnswered ==
  []<>(\A r \in Requests : call[r].pc \in {"away", "done"})

-----------------------------------------------------------------------------
(* What the key promises.                                                  *)

Told(c) ==
  IF c.reply = "none" THEN "nothing"
  ELSE IF c.reply \in StartOver THEN "new_attempt"
  ELSE IF c.reply = "ok" THEN "ok"
  ELSE "other"

Key == INSTANCE OnceOnly WITH
  Unreadable <- {r \in Requests : ~Normalises(r)},
  phase <- IF row = NoRow THEN "free"
           ELSE IF \E r \in Requests : Executing(r) THEN "open" ELSE "shut",
  wrote <- written # {},
  told  <- [r \in Requests |-> Told(call[r])]

\* The row and its checkpoints implement the promise of OnceOnly.
KeepsPromise == Key!Spec
=============================================================================

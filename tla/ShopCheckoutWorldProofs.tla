----------------------- MODULE ShopCheckoutWorldProofs -----------------------
(***************************************************************************)
(* Proofs about what a checkout leaves in the world, and about its answers *)
(* taken together: the stored stage covers the writes, a failure without   *)
(* faults is undone, all the answers agree, and "ok" is said only while    *)
(* the order stands or once an admin has begun to cancel it.  The          *)
(* ownership of the key comes from ShopCheckoutProofs; here the invariant  *)
(* adds where exactly the owner is.                                        *)
(***************************************************************************)
EXTENDS ShopCheckoutProofs

\* The owner is on course until something throws.
CoursePcs == {"validate", "note"} \cup CheckpointPcs \cup WritePcs

\* What is stored, and what is written, at each point of the course.
StageAt == [validate   |-> "claimed",
            cp_customer |-> "claimed",            customer |-> "before_customer_write",
            cp_order   |-> "before_customer_write", order   |-> "before_order_write",
            cp_reserve |-> "before_order_write",  reserve  |-> "order_created",
            cp_items   |-> "order_created",       items    |-> "stock_reserved",
            payment    |-> "stock_reserved",      cp_note  |-> "stock_reserved",
            note       |-> "payment_created",     settle   |-> "payment_created"]

DoneAt == [validate   |-> {}, cp_customer |-> {}, customer |-> {},
           cp_order   |-> {"customer"},           order   |-> {"customer"},
           cp_reserve |-> {"customer", "order"},  reserve |-> {"customer", "order"},
           cp_items   |-> {"customer", "order", "reserve"},
           items      |-> {"customer", "order", "reserve"},
           payment    |-> {"customer", "order", "reserve", "items"},
           cp_note    |-> WritePcs, note |-> WritePcs, settle |-> WritePcs]

\* On course, row, memory and world are where the programme says they are, except
\* for what an admin has undone.
OnCourse(c, stage, writes, ord, hold, adm) ==
  /\ stage = StageAt[c.pc] /\ c.stage = stage
  /\ writes = DoneAt[c.pc]
  /\ c.made <=> "order" \in writes
  /\ c.held <=> "reserve" \in writes
  /\ ord = "draft" => c.made
  /\ hold = "held" => c.held
  /\ adm = "none" => /\ c.made => ord = "draft"
                     /\ c.held => hold = "held"

\* After a throw, the row and the owner's memory still cover the writes, and
\* unless there were faults, the owner knows what is left to undo.
OffCourse(c, stage, writes, ord, hold, fs) ==
  /\ writes \subseteq Covered[stage] \cap Covered[c.stage]
  /\ fs = 0 /\ ord = "draft" => c.made /\ c.pc \in UndoPcs
  /\ fs = 0 /\ hold = "held" => c.held /\ c.pc = "release"

WorkOK(c, stage, writes, ord, hold, adm, fs) ==
  /\ c.pc \in CoursePcs => c.status = "2xx"
  /\ IF c.status = "2xx" THEN OnCourse(c, stage, writes, ord, hold, adm)
     ELSE OffCourse(c, stage, writes, ord, hold, fs)

OwnerAtWork ==
  \A r \in Requests :
    Executing(r) => WorkOK(call[r], row.stage, written, order, stock, admin, faults)

\* A call that has not claimed the key has no status yet.
NoStatusYet == \A r \in Requests : call[r].pc \in {"away", "claim"} => call[r].status = "2xx"

\* The receipt expires, and the order is paid, only after the execution; nothing
\* exists before it.
NotDueAtWork ==
  \/ due
  \/ order = "confirmed"
  \/ stock = "sold"
  => row # NoRow /\ \A r \in Requests : ~Executing(r)

NoWorldBeforeClaim == row = NoRow => order = "none" /\ stock = "none" /\ admin = "none"

OwnCart == \A r \in Requests : Executing(r) => row.cart = CartOf[r]

\* An outcome told is the one stored, until the alarm drops it, and it was told
\* after the execution.
ToldIsStored ==
  \A r \in Requests : call[r].reply \in Outcomes =>
    /\ row # NoRow
    /\ \A s \in Requests : ~Executing(s)
    /\ row.cart = CartOf[r]
    /\ row.reply \in {call[r].reply, "none"}

Stands(ord, hold, writes, adm) ==
  /\ "payment" \in writes
  /\ \/ ord = "draft" /\ hold = "held"
     \/ ord = "confirmed" /\ hold = "sold"
     \/ adm # "none"

Undone(ord, hold) == ord \in {"none", "cancelled"} /\ hold \in {"none", "freed"}

\* The answer the row holds is still true of the world.
StoredIsTrue ==
  row # NoRow =>
    /\ row.reply = "ok" /\ ~due => Stands(order, stock, written, admin)
    /\ row.reply \in {"failed", "new_attempt"} /\ faults = 0 => Undone(order, stock)

WorldInv ==
  /\ StageAheadOfWrites
  /\ OwnerAtWork
  /\ NoStatusYet
  /\ NotDueAtWork
  /\ NoWorldBeforeClaim
  /\ OwnCart
  /\ ToldIsStored
  /\ StoredIsTrue
  /\ OneOutcome
  /\ FailureUndone

-----------------------------------------------------------------------------
(* The programme.                                                          *)

LEMMA CourseSteps ==
  /\ \A p \in CheckpointPcs :
       /\ After[p] \in CoursePcs
       /\ StageAt[After[p]] = StageOf[p]
       /\ DoneAt[After[p]] = DoneAt[p]
       /\ DoneAt[p] \subseteq Covered[StageAt[p]]
       /\ DoneAt[p] \subseteq Covered[StageOf[p]]
  /\ \A p \in WritePcs :
       /\ After[p] \in CoursePcs
       /\ StageAt[After[p]] = StageAt[p]
       /\ DoneAt[After[p]] = DoneAt[p] \cup {p}
       /\ DoneAt[p] \cup {p} \subseteq Covered[StageAt[p]]
<1>1. \A p \in CheckpointPcs :
       /\ After[p] \in CoursePcs
       /\ StageAt[After[p]] = StageOf[p]
       /\ DoneAt[After[p]] = DoneAt[p]
       /\ DoneAt[p] \subseteq Covered[StageAt[p]]
       /\ DoneAt[p] \subseteq Covered[StageOf[p]]
  <2> SUFFICES ASSUME NEW p \in CheckpointPcs
               PROVE  /\ After[p] \in CoursePcs
                      /\ StageAt[After[p]] = StageOf[p]
                      /\ DoneAt[After[p]] = DoneAt[p]
                      /\ DoneAt[p] \subseteq Covered[StageAt[p]]
                      /\ DoneAt[p] \subseteq Covered[StageOf[p]]
    OBVIOUS
  <2>1. After[p] \in WritePcs \cup {"note"}
    BY DEF CheckpointPcs, WritePcs, After
  <2>2. StageAt[After[p]] = StageOf[p] /\ DoneAt[After[p]] = DoneAt[p]
    BY DEF CheckpointPcs, WritePcs, After, StageAt, StageOf, DoneAt
  <2>3. /\ DoneAt[p] \subseteq Covered[StageAt[p]]
        /\ DoneAt[p] \subseteq Covered[StageOf[p]]
    BY DEF CheckpointPcs, WritePcs, StageAt, StageOf, DoneAt, Covered
  <2> QED BY <2>1, <2>2, <2>3 DEF CoursePcs
<1>2. \A p \in WritePcs :
       /\ After[p] \in CoursePcs
       /\ StageAt[After[p]] = StageAt[p]
       /\ DoneAt[After[p]] = DoneAt[p] \cup {p}
       /\ DoneAt[p] \cup {p} \subseteq Covered[StageAt[p]]
  BY DEF CheckpointPcs, WritePcs, CoursePcs, After, StageAt, DoneAt, Covered
<1> QED BY <1>1, <1>2

LEMMA CourseEnds ==
  /\ After.validate = "cp_customer" /\ After.note = "settle"
  /\ \A p \in {"validate", "cp_customer"} :
       StageAt[p] = "claimed" /\ DoneAt[p] = {}
  /\ \A p \in {"note", "settle"} :
       StageAt[p] = "payment_created" /\ DoneAt[p] = WritePcs
  /\ Covered.payment_created = WritePcs /\ Covered.claimed = {}
BY DEF After, StageAt, DoneAt, Covered

LEMMA CourseIsExecution ==
  /\ CoursePcs \cup UndoPcs \cup {"settle"} = ExecutingPcs
  /\ "settle" \notin CoursePcs /\ CoursePcs \cap UndoPcs = {}
  /\ "settle" \notin UndoPcs
BY DEF CoursePcs, ExecutingPcs, UndoPcs, CheckpointPcs, WritePcs

\* Where a throw on course leaves the owner: it knows all there is to undo.
LEMMA ThrownOnCourse ==
  ASSUME NEW c, c.made \in BOOLEAN, c.held \in BOOLEAN, NEW stage, NEW w, NEW o, NEW k,
         NEW adm, OnCourse(c, stage, w, o, k, adm), "reserve" \in w => "order" \in w
  PROVE  /\ o = "draft" => c.made /\ Recover(c) \in UndoPcs
         /\ k = "held" => c.held /\ Recover(c) = "release"
BY DEF OnCourse, Recover, UndoPcs

LEMMA ReserveAfterOrder ==
  \A p \in CoursePcs : "reserve" \in DoneAt[p] => "order" \in DoneAt[p]
BY DEF CoursePcs, CheckpointPcs, WritePcs, DoneAt

-----------------------------------------------------------------------------
(* The classes of steps.                                                   *)

LEMMA WorldInit == Init => WorldInv
<1> SUFFICES ASSUME Init PROVE WorldInv
  OBVIOUS
<1>1. \A r \in Requests : ~Executing(r) /\ call[r].reply = "none"
                          /\ call[r].status = "2xx"
  BY PcSets DEF Init, Executing
<1>2. "none" \notin Outcomes
  BY DEF Outcomes
<1> QED
  BY <1>1, <1>2 DEF Init, WorldInv, StageAheadOfWrites, OwnerAtWork, NoStatusYet,
     NotDueAtWork, NoWorldBeforeClaim, OwnCart, ToldIsStored, StoredIsTrue, OneOutcome,
     FailureUndone, Outcomes

\* Nothing was told while the owner works, and it is the only one that works.
LEMMA OwnerAlone ==
  ASSUME IInv, WorldInv, NEW r \in Requests, Executing(r)
  PROVE  /\ \A s \in Requests : s # r => ~Executing(s)
         /\ \A s \in Requests : call[s].reply \notin Outcomes
         /\ row # NoRow /\ row \in RowType /\ row.reply = "none" /\ row.cart = CartOf[r]
         /\ row.state = "processing" /\ ~due /\ call[r].reply = "none"
         /\ order # "confirmed" /\ stock # "sold"
         /\ WorkOK(call[r], row.stage, written, order, stock, admin, faults)
         /\ written \subseteq Covered[row.stage]
<1>1. call[r].pc # "done"
  BY PcSets DEF Executing
<1> QED
BY <1>1 DEF IInv, TypeOK, Programme, CallOK, OneOwner, OwnerHasRow, ProcessingHasNoReply,
   WorldInv, ToldIsStored, OwnCart, OwnerAtWork, NotDueAtWork, StageAheadOfWrites

\* The owner takes a step of its programme.
LEMMA OwnerWorksWorld ==
  ASSUME IInv, WorldInv, NEW r \in Requests, Executing(r), Executing(r)',
         \A s \in Requests : s # r => call'[s] = call[s],
         call'[r].reply = "none",
         WorkOK(call'[r], row'.stage, written', order', stock', admin', faults'),
         row' # NoRow, row'.reply = row.reply, row'.cart = row.cart,
         written' \subseteq Covered[row'.stage], UNCHANGED <<due, admin>>,
         order' \in {order, "draft", "cancelled"}, stock' \in {stock, "held", "freed"}
  PROVE  WorldInv'
<1>1. /\ \A s \in Requests : s # r => ~Executing(s)
      /\ \A s \in Requests : call[s].reply \notin Outcomes
      /\ row.reply = "none" /\ row.cart = CartOf[r]
      /\ ~due /\ order # "confirmed" /\ stock # "sold"
  BY OwnerAlone
<1>2. \A s \in Requests : s # r => ~Executing(s)'
  BY <1>1 DEF Executing
<1>3. \A s \in Requests : call'[s].reply \notin Outcomes
  BY <1>1 DEF Outcomes
<1>4. OwnerAtWork' /\ OwnCart'
  BY <1>1, <1>2 DEF OwnerAtWork, OwnCart
<1>5. NoStatusYet'
  BY PcSets DEF NoStatusYet, WorldInv, Executing
<1> QED
  BY <1>1, <1>3, <1>4, <1>5 DEF WorldInv, StageAheadOfWrites, NotDueAtWork,
     NoWorldBeforeClaim, ToldIsStored, StoredIsTrue, OneOutcome, FailureUndone, Outcomes

\* The owner is answered with the outcome, or without one.
LEMMA OwnerAnsweredWorld ==
  ASSUME IInv, WorldInv, NEW r \in Requests, Executing(r), call'[r].pc = "done",
         \A s \in Requests : s # r => call'[s] = call[s],
         row' # NoRow, row'.cart = row.cart,
         written \subseteq Covered[row'.stage],
         call'[r].reply \in Outcomes => row'.reply = call'[r].reply,
         row'.reply = "ok" => Stands(order, stock, written, admin),
         row'.reply \in {"failed", "new_attempt"} /\ faults' = 0 => Undone(order, stock),
         UNCHANGED <<due, written, order, stock, admin>>
  PROVE  WorldInv'
<1>1. /\ \A s \in Requests : s # r => ~Executing(s)
      /\ \A s \in Requests : call[s].reply \notin Outcomes
      /\ row.cart = CartOf[r]
      /\ ~due /\ order # "confirmed" /\ stock # "sold"
  BY OwnerAlone
<1>2. \A s \in Requests : ~Executing(s)'
  BY <1>1, PcSets DEF Executing
<1>3. \A s \in Requests : call'[s].reply \in Outcomes => s = r
  BY <1>1
<1>4. ToldIsStored' /\ OneOutcome'
  BY <1>1, <1>2, <1>3 DEF ToldIsStored, OneOutcome
<1>5. StoredIsTrue'
  BY DEF StoredIsTrue
<1>6. FailureUndone'
  BY <1>3, <1>5 DEF FailureUndone, StoredIsTrue, Outcomes, Undone
<1>7. OwnerAtWork' /\ OwnCart' /\ NotDueAtWork' /\ NoStatusYet'
  BY <1>1, <1>2 DEF OwnerAtWork, OwnCart, NotDueAtWork, NoStatusYet, WorldInv
<1> QED
  BY <1>4, <1>5, <1>6, <1>7 DEF WorldInv, StageAheadOfWrites, NoWorldBeforeClaim

\* A call that does not own the key moves on, or is answered.
LEMMA OtherMovesWorld ==
  ASSUME IInv, WorldInv, NEW r \in Requests, ~Executing(r), ~Executing(r)',
         \A s \in Requests : s # r => call'[s] = call[s],
         call'[r].pc \in {"away", "claim"} => call'[r].status = "2xx",
         call'[r].reply \in Outcomes =>
           /\ row # NoRow /\ row.cart = CartOf[r]
           /\ \A s \in Requests : ~Executing(s)
           /\ row.reply = call'[r].reply,
         \/ UNCHANGED <<row, faults>>
         \/ /\ row = NoRow /\ row' # NoRow /\ row'.reply = "none"
            /\ row'.stage = "claimed"
         \/ UNCHANGED row /\ faults' # 0 /\ call'[r].reply \notin Outcomes,
         faults' = 0 => faults = 0,
         UNCHANGED <<due, written, order, stock, admin>>
  PROVE  WorldInv'
<1>1. \A s \in Requests : Executing(s)' = Executing(s)
  BY DEF Executing
<1>2. row = NoRow =>
        /\ \A s \in Requests : ~Executing(s) /\ call[s].reply \notin Outcomes
        /\ ~due /\ order # "confirmed" /\ stock # "sold"
  BY DEF IInv, OwnerHasRow, WorldInv, ToldIsStored, NotDueAtWork
<1>3. OwnerAtWork' /\ OwnCart' /\ NotDueAtWork'
  BY <1>1, <1>2 DEF OwnerAtWork, OwnCart, NotDueAtWork, WorldInv, WorkOK, OffCourse
<1>4. ToldIsStored' /\ OneOutcome'
  BY <1>1, <1>2 DEF ToldIsStored, OneOutcome, WorldInv, Outcomes
<1>5. StoredIsTrue'
  BY DEF StoredIsTrue, WorldInv
<1>6. FailureUndone'
  BY <1>2, <1>5 DEF FailureUndone, StoredIsTrue, WorldInv, Outcomes, Undone
<1>7. StageAheadOfWrites' /\ NoWorldBeforeClaim' /\ NoStatusYet'
  BY CourseEnds DEF StageAheadOfWrites, NoWorldBeforeClaim, NoStatusYet, WorldInv, IInv,
     NothingBeforeClaim
<1> QED
  BY <1>3, <1>4, <1>5, <1>6, <1>7 DEF WorldInv

-----------------------------------------------------------------------------
(* The steps.                                                              *)

\* One call steps, the others do not.
LEMMA OthersStay ==
  ASSUME TypeOK, NEW r \in Requests,
         Arrive(r) \/ Refuse(r) \/ Unreached(r) \/ Step(r)
  PROVE  \A s \in Requests : s # r => call'[s] = call[s]
BY DEF TypeOK, Step, Arrive, Refuse,
       Unreached, Claim, ClaimFails, Replay, Validate, Checkpoint, Write, Note,
   Release, Cancel, Settle, SettleFails, Goto, Reply, Throw

LEMMA FaultCounts ==
  ASSUME TypeOK, Fault
  PROVE  faults' # 0
BY MaxFaultsAssumption DEF TypeOK, Fault, MaxFaultsAssumption

LEMMA ClaimWorld ==
  ASSUME IInv, WorldInv, NEW r \in Requests, Claim(r)
  PROVE  WorldInv'
<1> USE DEF world, outside
<1>0. TypeOK
  BY DEF IInv
<1>1. /\ \A s \in Requests : ~Executing(s) /\ call[s].reply \notin Outcomes
      /\ ~due /\ written = {} /\ order = "none" /\ stock = "none" /\ admin = "none"
  BY DEF Claim, IInv, OwnerHasRow, WorldInv, ToldIsStored, NotDueAtWork,
     NothingBeforeClaim, NoWorldBeforeClaim
<1>2. /\ \A s \in Requests : s # r => call'[s] = call[s]
      /\ call'[r].pc = "validate"
      /\ call'[r].status = "2xx" /\ call'[r].stage = "claimed"
      /\ ~call'[r].made /\ ~call'[r].held /\ call'[r].reply = "none"
      /\ call'[r].made \in BOOLEAN /\ call'[r].held \in BOOLEAN
  <2>1. call[r].pc = "claim" /\ call[r] \in CallType
        /\ call' = [call EXCEPT ![r].pc = "validate"]
    BY <1>0 DEF Claim, Goto, TypeOK
  <2>2. /\ call[r].status = "2xx" /\ call[r].stage = "claimed"
        /\ ~call[r].made /\ ~call[r].held /\ call[r].reply = "none"
    BY <2>1 DEF WorldInv, NoStatusYet, IInv, Programme, CallOK
  <2> QED BY <1>0, <2>1, <2>2 DEF CallType, TypeOK
<1>3. /\ row' # NoRow /\ row'.state = "processing" /\ row'.reply = "none"
      /\ row'.stage = "claimed" /\ row'.cart = CartOf[r]
      /\ UNCHANGED <<due, written, order, stock, admin, faults>>
  BY DEF Claim, NewRow, NoRow
<1>4. OnCourse(call'[r], "claimed", {}, "none", "none", "none")
  BY <1>2, CourseEnds DEF OnCourse
<1>5. WorkOK(call'[r], row'.stage, written', order', stock', admin', faults')
  BY <1>1, <1>2, <1>3, <1>4 DEF WorkOK
<1>6. \A s \in Requests : s # r => ~Executing(s)'
  BY <1>1, <1>2 DEF Executing
<1>7. \A s \in Requests : call'[s].reply \notin Outcomes
  BY <1>1, <1>2 DEF Outcomes
<1>8. OwnerAtWork' /\ OwnCart' /\ NoStatusYet'
  BY <1>2, <1>3, <1>5, <1>6 DEF OwnerAtWork, OwnCart, NoStatusYet, WorldInv
<1> QED
  BY <1>1, <1>3, <1>7, <1>8 DEF WorldInv, StageAheadOfWrites, NotDueAtWork,
     NoWorldBeforeClaim, ToldIsStored, StoredIsTrue, OneOutcome, FailureUndone, Outcomes

LEMMA OtherWorld ==
  ASSUME IInv, IInv', WorldInv, NEW r \in Requests,
         Arrive(r) \/ Refuse(r) \/ Unreached(r) \/ ClaimFails(r) \/ Replay(r)
  PROVE  WorldInv'
<1> USE DEF world, outside
<1>0. TypeOK /\ call[r] \in CallType /\ \A s \in Requests : s # r => call'[s] = call[s]
  BY OthersStay DEF IInv, TypeOK, Step
<1>1. call[r].pc \in {"away", "claim"} /\ ~Executing(r) /\ call[r].reply = "none"
      /\ call[r].status = "2xx"
  BY PcSets DEF Arrive, Refuse, Unreached, ClaimFails, Replay, Executing, IInv,
     Programme, CallOK, WorldInv, NoStatusYet
<1>2. CASE Arrive(r)
  <2>1. call'[r].pc = "claim" /\ call'[r].status = "2xx" /\ call'[r].reply = "none"
    BY <1>0, <1>1, <1>2 DEF Arrive, Goto, CallType, TypeOK
  <2>2. ~Executing(r)' /\ call'[r].reply \notin Outcomes
    BY <2>1, PcSets DEF Executing, Outcomes
  <2> QED BY <1>0, <1>1, <1>2, <2>1, <2>2, OtherMovesWorld DEF Arrive
<1>5. CASE Refuse(r) \/ Unreached(r)
  <2>1. call'[r].pc = "done" /\ call'[r].reply \in {"refused", "unknown"}
    BY <1>0, <1>5 DEF Refuse, Unreached, Reply, CallType, TypeOK
  <2>2. ~Executing(r)' /\ call'[r].reply \notin Outcomes
    BY <2>1, PcSets DEF Executing, Outcomes
  <2>3. UNCHANGED <<row, due, written, order, stock, admin>>
    BY <1>5 DEF Refuse, Unreached
  <2>4. UNCHANGED faults \/ faults' # 0
    BY <1>0, <1>5, FaultCounts DEF Refuse, Unreached
  <2> QED BY <1>0, <1>1, <2>1, <2>2, <2>3, <2>4, OtherMovesWorld
<1>3. CASE ClaimFails(r)
  <2>1. call'[r].pc = "done" /\ call'[r].reply = "unavailable"
    BY <1>0, <1>3 DEF ClaimFails, Reply, CallType, TypeOK
  <2>2. ~Executing(r)' /\ call'[r].reply \notin Outcomes
    BY <2>1, PcSets DEF Executing, Outcomes
  <2>3. faults' # 0
    BY <1>0, <1>3, FaultCounts DEF ClaimFails
  <2>4. \/ UNCHANGED row
        \/ row = NoRow /\ row' # NoRow /\ row'.reply = "none" /\ row'.stage = "claimed"
    BY <1>3 DEF ClaimFails, NewRow, NoRow
  <2> QED BY <1>0, <1>1, <1>3, <2>1, <2>2, <2>3, <2>4, OtherMovesWorld DEF ClaimFails
<1>4. CASE Replay(r)
  <2>1. call'[r].pc = "done" /\ call'[r].reply = Existing(r)
    BY <1>0, <1>4 DEF Replay, Reply, CallType, TypeOK
  <2>2. Existing(r) \in Outcomes =>
          row.cart = CartOf[r] /\ row.reply = Existing(r) /\ row.reply # "none"
    BY DEF Existing, Outcomes
  <2>3. row.reply # "none" => \A s \in Requests : ~Executing(s)
    BY <1>4 DEF Replay, IInv, ProcessingHasNoReply, OwnerHasRow
  <2>4. ~Executing(r)'
    BY <2>1, PcSets DEF Executing
  <2> QED BY <1>0, <1>1, <1>4, <2>1, <2>2, <2>3, <2>4, OtherMovesWorld DEF Replay
<1> QED BY <1>2, <1>3, <1>4, <1>5

\* What a throw leaves the owner with, when the stage it has set is c.stage.
LEMMA ThrowWorld ==
  ASSUME NEW c \in CallType, c.pc \in CoursePcs,
         NEW stage, NEW w, NEW o, NEW k, NEW adm, NEW fs,
         NEW d \in CallType, d.pc = Recover(c), d.status # "2xx", d.made = c.made,
         d.held = c.held,
         w \subseteq Covered[stage], w \subseteq Covered[d.stage],
         fs = 0 => OnCourse(c, StageAt[c.pc], w, o, k, adm)
  PROVE  WorkOK(d, stage, w, o, k, adm, fs)
<1>1. d.pc \notin CoursePcs
  BY RecoverType, CourseIsExecution DEF UndoPcs, CoursePcs, CheckpointPcs, WritePcs
<1>2. c.made \in BOOLEAN /\ c.held \in BOOLEAN
  BY DEF CallType
<1>3. fs = 0 => /\ o = "draft" => c.made /\ Recover(c) \in UndoPcs
                /\ k = "held" => c.held /\ Recover(c) = "release"
  <2>1. fs = 0 => ("reserve" \in w => "order" \in w)
    BY ReserveAfterOrder DEF OnCourse
  <2> QED BY <1>2, <2>1, ThrownOnCourse
<1>4. OffCourse(d, stage, w, o, k, fs)
  BY <1>3 DEF OffCourse
<1> QED BY <1>1, <1>4 DEF WorkOK

LEMMA ValidateWorld ==
  ASSUME IInv, IInv', WorldInv, NEW r \in Requests, Validate(r)
  PROVE  WorldInv'
<1> USE DEF world, outside
<1>1. /\ TypeOK /\ call[r] \in CallType /\ call'[r] \in CallType
      /\ call[r].pc = "validate" /\ Executing(r)
      /\ Executing(r)' /\ call'[r].reply = "none"
      /\ \A s \in Requests : s # r => call'[s] = call[s]
  <2>1. TypeOK /\ call[r] \in CallType /\ call'[r] \in CallType
    BY DEF IInv, TypeOK
  <2>2. Executing(r) /\ Executing(r)' /\ call[r].pc = "validate"
    BY <2>1, RunsOn, CourseIsExecution DEF Validate, Executing, CoursePcs
  <2>3. call'[r].reply = "none"
    BY <2>2, PcSets DEF IInv, Programme, CallOK, Executing
  <2> QED BY <2>1, <2>2, <2>3, OthersStay DEF Step
<1>2. /\ WorkOK(call[r], row.stage, written, order, stock, admin, faults)
      /\ row # NoRow /\ written \subseteq Covered[row.stage]
  BY <1>1, OwnerAlone
<1>3. /\ call[r].status = "2xx" /\ call[r].pc \in CoursePcs
      /\ OnCourse(call[r], StageAt[call[r].pc], written, order, stock, admin)
      /\ row.stage = StageAt[call[r].pc] /\ call[r].stage = row.stage
  BY <1>1, <1>2 DEF WorkOK, CoursePcs, OnCourse
<1>4. WorkOK(call'[r], row.stage, written, order, stock, admin, faults)
  <2>1. CASE Goto(r, After.validate)
    <3>1. /\ call'[r].pc = "cp_customer" /\ call'[r].status = "2xx"
          /\ call'[r].made = call[r].made /\ call'[r].held = call[r].held
          /\ call'[r].stage = call[r].stage
      BY <1>1, <1>3, <2>1, CourseEnds DEF Goto, CallType, TypeOK
    <3> QED BY <1>1, <1>3, <3>1, CourseEnds DEF WorkOK, OnCourse
  <2>2. CASE \E status \in {"4xx", "5xx"} : Throw(r, status)
    <3>1. /\ call'[r].pc = Recover(call[r]) /\ call'[r].status # "2xx"
          /\ call'[r].made = call[r].made /\ call'[r].held = call[r].held
          /\ call'[r].stage = call[r].stage
      BY <1>1, <2>2 DEF Throw, CallType, TypeOK
    <3> QED BY <1>1, <1>2, <1>3, <3>1, ThrowWorld
  <2> QED BY <2>1, <2>2 DEF Validate
<1> QED BY <1>1, <1>2, <1>4, OwnerWorksWorld DEF Validate

\* What every step of the owner starts from.
LEMMA OwnerBefore ==
  ASSUME IInv, IInv', WorldInv, NEW r \in Requests,
         Checkpoint(r) \/ Write(r) \/ Note(r) \/ Release(r) \/ Cancel(r)
  PROVE  /\ TypeOK /\ call[r] \in CallType /\ call'[r] \in CallType
         /\ Executing(r) /\ Executing(r)' /\ call'[r].reply = "none"
         /\ \A s \in Requests : s # r => call'[s] = call[s]
         /\ WorkOK(call[r], row.stage, written, order, stock, admin, faults)
         /\ row # NoRow /\ row \in RowType /\ written \subseteq Covered[row.stage]
<1>1. TypeOK /\ call[r] \in CallType /\ call'[r] \in CallType
  BY DEF IInv, TypeOK
<1>2. Executing(r)
  BY PcSets, CourseIsExecution DEF Checkpoint, Write, Note, Release, Cancel, Executing,
     CoursePcs, UndoPcs
<1>3. Executing(r)' /\ \A s \in Requests : s # r => call'[s] = call[s]
  BY <1>1, RunsOn, OthersStay DEF Step
<1>4. call'[r].reply = "none"
  BY <1>3, PcSets DEF IInv, Programme, CallOK, Executing
<1> QED BY <1>1, <1>2, <1>3, <1>4, OwnerAlone

LEMMA CheckpointWorld ==
  ASSUME IInv, IInv', WorldInv, NEW r \in Requests, Checkpoint(r)
  PROVE  WorldInv'
<1> USE DEF world, outside
<1> DEFINE p == call[r].pc
           c == [call[r] EXCEPT !.stage = StageOf[p]]
<1>1. /\ TypeOK /\ call[r] \in CallType /\ call'[r] \in CallType
      /\ Executing(r) /\ Executing(r)' /\ call'[r].reply = "none"
      /\ \A s \in Requests : s # r => call'[s] = call[s]
      /\ WorkOK(call[r], row.stage, written, order, stock, admin, faults)
      /\ row # NoRow /\ row \in RowType
  BY OwnerBefore
<1>2. p \in CheckpointPcs /\ p \in CoursePcs
  BY DEF Checkpoint, CoursePcs
<1>3. /\ call[r].status = "2xx" /\ row.stage = StageAt[p] /\ written = DoneAt[p]
      /\ OnCourse(call[r], StageAt[p], written, order, stock, admin)
  BY <1>1, <1>2 DEF WorkOK, OnCourse
<1>4. written \subseteq Covered[StageAt[p]] /\ written \subseteq Covered[StageOf[p]]
  BY <1>2, <1>3, CourseSteps
<1>5. /\ c \in CallType /\ c.pc = p /\ c.stage = StageOf[p] /\ c.status = "2xx"
      /\ c.made = call[r].made /\ c.held = call[r].held
  BY <1>1, <1>2, <1>3, ProgrammeTypes DEF CallType
<1>6. PICK stored \in BOOLEAN, thrown \in BOOLEAN :
        /\ stored \/ thrown
        /\ MayFail(thrown)
        /\ row' = IF stored THEN [row EXCEPT !.stage = StageOf[p]] ELSE row
        /\ call'[r] = IF thrown THEN [c EXCEPT !.pc = Recover(c), !.status = "5xx"]
                      ELSE [c EXCEPT !.pc = After[p]]
  <2>1. \E stored \in BOOLEAN, thrown \in BOOLEAN :
        /\ stored \/ thrown
        /\ MayFail(thrown)
        /\ row' = IF stored THEN [row EXCEPT !.stage = c.stage] ELSE row
        /\ call' = [call EXCEPT ![r] =
                        IF thrown
                        THEN [c EXCEPT !.pc = Recover(c), !.status = "5xx"]
                        ELSE [c EXCEPT !.pc = After[c.pc]]]
    BY DEF Checkpoint
  <2> QED BY <1>1, <1>5, <2>1 DEF TypeOK
<1>7. UNCHANGED <<due, written, order, stock, admin>>
  BY DEF Checkpoint
<1>8. /\ row' # NoRow /\ row'.reply = row.reply /\ row'.cart = row.cart
      /\ stored => row'.stage = StageOf[p]
      /\ ~stored => row'.stage = StageAt[p]
  BY <1>1, <1>2, <1>3, <1>6, ProgrammeTypes DEF RowType, NoRow
<1>9. WorkOK(call'[r], row'.stage, written, order, stock, admin, faults')
  <2>1. CASE thrown
    <3>1. /\ call'[r].pc = Recover(c) /\ call'[r].status # "2xx"
          /\ call'[r].made = call[r].made /\ call'[r].held = call[r].held
          /\ call'[r].stage = StageOf[p] /\ Recover(c) = Recover(call[r])
      <4> HIDE DEF c
      <4> QED BY <1>5, <1>6, <2>1 DEF CallType, Recover
    <3>2. faults' # 0
      BY <1>1, <1>6, <2>1, FaultCounts DEF MayFail
    <3>3. written \subseteq Covered[row'.stage] /\ written \subseteq Covered[call'[r].stage]
      BY <1>4, <1>8, <3>1
    <3> QED BY <1>1, <1>2, <3>1, <3>2, <3>3, ThrowWorld
  <2>2. CASE ~thrown
    <3>1. /\ call'[r].pc = After[p] /\ call'[r].status = "2xx"
          /\ call'[r].made = call[r].made /\ call'[r].held = call[r].held
          /\ call'[r].stage = StageOf[p] /\ row'.stage = StageOf[p]
      <4> HIDE DEF c
      <4> QED BY <1>5, <1>6, <1>8, <2>2 DEF CallType
    <3> QED BY <1>2, <1>3, <3>1, CourseSteps DEF WorkOK, OnCourse
  <2> QED BY <2>1, <2>2
<1>10. written' \subseteq Covered[row'.stage]
  BY <1>4, <1>7, <1>8
<1> QED BY <1>1, <1>7, <1>8, <1>9, <1>10, OwnerWorksWorld

LEMMA WriteWorld ==
  ASSUME IInv, IInv', WorldInv, NEW r \in Requests, Write(r)
  PROVE  WorldInv'
<1> USE DEF world, outside
<1> DEFINE p == call[r].pc
<1>1. /\ TypeOK /\ call[r] \in CallType /\ call'[r] \in CallType
      /\ Executing(r) /\ Executing(r)' /\ call'[r].reply = "none"
      /\ \A s \in Requests : s # r => call'[s] = call[s]
      /\ WorkOK(call[r], row.stage, written, order, stock, admin, faults)
      /\ row # NoRow /\ row \in RowType
  BY OwnerBefore
<1>2. p \in WritePcs /\ p \in CoursePcs
  BY DEF Write, CoursePcs
<1>3. /\ call[r].status = "2xx" /\ row.stage = StageAt[p] /\ written = DoneAt[p]
      /\ call[r].stage = row.stage
      /\ OnCourse(call[r], StageAt[p], written, order, stock, admin)
  BY <1>1, <1>2 DEF WorkOK, OnCourse
<1>4. written \cup {p} \subseteq Covered[StageAt[p]]
  BY <1>2, <1>3, CourseSteps
<1>5. UNCHANGED <<row, due, admin>>
  BY DEF Write
<1>6. CASE Effect(p) /\ call' = [call EXCEPT ![r] = Learn(@, p)] /\ UNCHANGED faults
  <2>1. /\ call'[r].pc = After[p] /\ call'[r].status = "2xx"
        /\ call'[r].stage = StageAt[p]
        /\ call'[r].made <=> call[r].made \/ p = "order"
        /\ call'[r].held <=> call[r].held \/ p = "reserve"
    <3> DEFINE c == Learn(call[r], p)
    <3>1. call'[r] = c
      BY <1>1, <1>6 DEF TypeOK
    <3>2. /\ c.pc = After[p] /\ c.status = call[r].status /\ c.stage = call[r].stage
          /\ c.made = (call[r].made \/ p = "order")
          /\ c.held = (call[r].held \/ p = "reserve")
      BY <1>1 DEF Learn, CallType
    <3> HIDE DEF c
    <3> QED BY <1>3, <3>1, <3>2
  <2>2. /\ written' = DoneAt[After[p]] /\ row'.stage = StageAt[After[p]]
    BY <1>2, <1>3, <1>5, <1>6, CourseSteps DEF Effect
  <2>3. OnCourse(call'[r], row'.stage, written', order', stock', admin')
    BY <1>2, <1>3, <1>5, <1>6, <2>1, <2>2 DEF OnCourse, Effect
  <2>4. WorkOK(call'[r], row'.stage, written', order', stock', admin', faults')
    BY <2>1, <2>3 DEF WorkOK
  <2>5. written' \subseteq Covered[row'.stage]
    BY <1>3, <1>4, <1>5, <1>6 DEF Effect
  <2>6. order' \in {order, "draft"} /\ stock' \in {stock, "held"}
    BY <1>6 DEF Effect
  <2> QED BY <1>1, <1>5, <2>4, <2>5, <2>6, OwnerWorksWorld
<1>7. ASSUME NEW status \in {"4xx", "5xx"}, Throw(r, status),
             \/ UNCHANGED <<written, order, stock, faults>>
             \/ Fault /\ Effect(p)
      PROVE  WorldInv'
  <2>1. /\ call'[r].pc = Recover(call[r]) /\ call'[r].status # "2xx"
        /\ call'[r].made = call[r].made /\ call'[r].held = call[r].held
        /\ call'[r].stage = call[r].stage
    BY <1>1, <1>7 DEF Throw, CallType, TypeOK
  <2>2. written' \subseteq Covered[row'.stage] /\ written' \subseteq Covered[call'[r].stage]
    BY <1>3, <1>4, <1>5, <1>7, <2>1 DEF Effect
  <2>3. faults' = 0 => OnCourse(call[r], StageAt[p], written', order', stock', admin')
    <3>1. faults' = 0 => UNCHANGED <<written, order, stock, admin>>
      BY <1>1, <1>5, <1>7, FaultCounts
    <3> QED BY <1>3, <3>1
  <2>4. WorkOK(call'[r], row'.stage, written', order', stock', admin', faults')
    BY <1>1, <1>2, <2>1, <2>2, <2>3, ThrowWorld
  <2>5. order' \in {order, "draft"} /\ stock' \in {stock, "held"}
    BY <1>7 DEF Effect
  <2> QED BY <1>1, <1>5, <2>2, <2>4, <2>5, OwnerWorksWorld
<1> QED BY <1>6, <1>7 DEF Write

LEMMA NoteWorld ==
  ASSUME IInv, IInv', WorldInv, NEW r \in Requests, Note(r)
  PROVE  WorldInv'
<1> USE DEF world, outside
<1>1. /\ TypeOK /\ call[r] \in CallType /\ call'[r] \in CallType
      /\ Executing(r) /\ Executing(r)' /\ call'[r].reply = "none"
      /\ \A s \in Requests : s # r => call'[s] = call[s]
      /\ WorkOK(call[r], row.stage, written, order, stock, admin, faults)
      /\ row # NoRow /\ written \subseteq Covered[row.stage]
  BY OwnerBefore
<1>2. /\ call[r].pc = "note" /\ call[r].status = "2xx"
      /\ OnCourse(call[r], row.stage, written, order, stock, admin)
  BY <1>1 DEF Note, WorkOK, CoursePcs
<1>3. /\ call'[r].pc = "settle" /\ call'[r].status = "2xx"
      /\ call'[r].made = call[r].made /\ call'[r].held = call[r].held
      /\ call'[r].stage = call[r].stage
  BY <1>1, <1>2, CourseEnds DEF Note, Goto, CallType, TypeOK
<1>4. WorkOK(call'[r], row.stage, written, order, stock, admin, faults)
  BY <1>2, <1>3, CourseEnds DEF WorkOK, OnCourse
<1> QED BY <1>1, <1>4, OwnerWorksWorld DEF Note

LEMMA UndoWorld ==
  ASSUME IInv, IInv', WorldInv, NEW r \in Requests, Release(r) \/ Cancel(r)
  PROVE  WorldInv'
<1> USE DEF world, outside
<1>1. /\ TypeOK /\ call[r] \in CallType /\ call'[r] \in CallType
      /\ Executing(r) /\ Executing(r)' /\ call'[r].reply = "none"
      /\ \A s \in Requests : s # r => call'[s] = call[s]
      /\ WorkOK(call[r], row.stage, written, order, stock, admin, faults)
      /\ row # NoRow /\ written \subseteq Covered[row.stage]
  BY OwnerBefore
<1>2. /\ call[r].pc \in UndoPcs /\ call[r].status # "2xx"
      /\ OffCourse(call[r], row.stage, written, order, stock, faults)
  BY <1>1 DEF Release, Cancel, UndoPcs, WorkOK, IInv, Programme, CallOK
<1>3. /\ UNCHANGED <<row, due, written, admin>>
      /\ order' \in {order, "cancelled"} /\ stock' \in {stock, "freed"}
      /\ call'[r].stage = call[r].stage /\ call'[r].status = call[r].status
      /\ call'[r].made = call[r].made
      /\ call'[r].pc \in {"cancel", "settle"}
      /\ faults' # 0 \/ faults' = faults
  BY <1>1, FaultCounts DEF Release, Cancel, Goto, CallType, TypeOK, MayFail
<1>4. faults' = 0 => /\ order' = "draft" => call'[r].made /\ call'[r].pc = "cancel"
                     /\ stock' # "held"
  <2>1. CASE Release(r)
    <3>1. PICK done \in BOOLEAN, thrown \in BOOLEAN :
            /\ done \/ thrown
            /\ MayFail(thrown)
            /\ stock' = IF done THEN "freed" ELSE stock
            /\ call' = [call EXCEPT ![r].pc = "cancel", ![r].held = thrown]
            /\ order' = order
      BY <2>1 DEF Release
    <3>2. faults' = 0 => ~thrown /\ faults = 0
      BY <1>1, <3>1, FaultCounts DEF MayFail
    <3>3. call'[r].pc = "cancel"
      BY <1>1, <3>1 DEF TypeOK, CallType
    <3> QED BY <1>2, <1>3, <3>1, <3>2, <3>3 DEF OffCourse
  <2>2. CASE Cancel(r)
    <3>1. PICK done \in BOOLEAN, thrown \in BOOLEAN :
            /\ done \/ thrown
            /\ MayFail(thrown)
            /\ order' = IF done THEN "cancelled" ELSE order
            /\ stock' = stock
      BY <2>2 DEF Cancel
    <3>2. faults' = 0 => ~thrown /\ faults = 0
      BY <1>1, <3>1, FaultCounts DEF MayFail
    <3> QED BY <1>2, <2>2, <3>1, <3>2 DEF OffCourse, Cancel
  <2> QED BY <2>1, <2>2
<1>5. WorkOK(call'[r], row'.stage, written', order', stock', admin', faults')
  <2>1. call'[r].pc \notin CoursePcs
    BY <1>3, CourseIsExecution DEF UndoPcs
  <2>2. OffCourse(call'[r], row'.stage, written', order', stock', faults')
    BY <1>2, <1>3, <1>4 DEF OffCourse, UndoPcs
  <2> QED BY <1>2, <1>3, <2>1, <2>2 DEF WorkOK
<1> QED BY <1>1, <1>3, <1>5, OwnerWorksWorld

LEMMA SettleWorld ==
  ASSUME IInv, IInv', WorldInv, NEW r \in Requests, Settle(r) \/ SettleFails(r)
  PROVE  WorldInv'
<1> USE DEF world, outside
<1>1. /\ TypeOK /\ call[r] \in CallType /\ call[r].pc = "settle" /\ Executing(r)
      /\ \A s \in Requests : s # r => call'[s] = call[s]
  BY CourseIsExecution, OthersStay
     DEF Settle, SettleFails, Executing, IInv, TypeOK, Step
<1>2. /\ WorkOK(call[r], row.stage, written, order, stock, admin, faults)
      /\ row # NoRow /\ row \in RowType /\ row.reply = "none"
      /\ written \subseteq Covered[row.stage]
      /\ order # "confirmed" /\ stock # "sold"
  BY <1>1, OwnerAlone
<1>3. /\ call'[r].pc = "done"
      /\ \/ call'[r].reply = Outcome(call[r]) /\ row' = Settled(call[r])
         \/ call'[r].reply = "recovery" /\ row' \in {row, Settled(call[r])}
      /\ UNCHANGED <<due, written, order, stock, admin>>
      /\ faults' = 0 => faults = 0
  BY <1>1, FaultCounts DEF Settle, SettleFails, Reply, TypeOK, CallType
<1>4. /\ Settled(call[r]) # NoRow /\ Settled(call[r]).cart = row.cart
      /\ Settled(call[r]).stage = call[r].stage
      /\ Settled(call[r]).reply = Outcome(call[r])
  BY <1>2 DEF Settled, RowType, NoRow
<1>5. written \subseteq Covered[call[r].stage]
  BY <1>2 DEF WorkOK, OnCourse, OffCourse
<1>6. Outcome(call[r]) = "ok" => Stands(order, stock, written, admin)
  <2>1. SUFFICES ASSUME call[r].status = "2xx" PROVE Stands(order, stock, written, admin)
    BY DEF Outcome
  <2>2. OnCourse(call[r], row.stage, written, order, stock, admin) /\ written = WritePcs
    BY <1>1, <1>2, <2>1, CourseEnds DEF WorkOK, OnCourse
  <2> QED BY <2>2 DEF OnCourse, Stands, WritePcs
<1>7. Outcome(call[r]) \in {"failed", "new_attempt"} /\ faults = 0 => Undone(order, stock)
  <2>1. SUFFICES ASSUME call[r].status # "2xx", faults = 0 PROVE Undone(order, stock)
    BY DEF Outcome
  <2> QED BY <1>1, <1>2, <2>1 DEF TypeOK, WorkOK, OffCourse, Undone, UndoPcs
<1>8. /\ row' # NoRow /\ row'.cart = row.cart
      /\ written \subseteq Covered[row'.stage]
      /\ call'[r].reply \in Outcomes => row'.reply = call'[r].reply
      /\ row'.reply = "ok" => Stands(order, stock, written, admin)
      /\ row'.reply \in {"failed", "new_attempt"} /\ faults' = 0 => Undone(order, stock)
  <2>1. "recovery" \notin Outcomes
    BY DEF Outcomes
  <2> QED BY <1>2, <1>3, <1>4, <1>5, <1>6, <1>7, <2>1
<1> QED BY <1>1, <1>3, <1>8, OwnerAnsweredWorld

LEMMA TimeWorld ==
  ASSUME IInv, WorldInv, Age \/ Lapse \/ Sweep
  PROVE  WorldInv'
<1> USE DEF world, outside
<1>1. /\ UNCHANGED <<row, call, written, admin, faults>>
      /\ due => due'
  BY DEF Age, Lapse, Sweep
<1>2. \/ UNCHANGED <<due, order, stock>>
      \/ /\ row # NoRow /\ \A r \in Requests : ~Executing(r)
         /\ due'
         /\ \/ UNCHANGED <<order, stock>>
            \/ order' = "cancelled" /\ stock' = "freed"
  BY DEF Age, Lapse, Sweep, WorldInv, NotDueAtWork
<1>3. \A r \in Requests : Executing(r)' = Executing(r)
  BY <1>1 DEF Executing
<1>4. OwnerAtWork' /\ NotDueAtWork' /\ OwnCart'
  BY <1>1, <1>2, <1>3 DEF WorldInv, OwnerAtWork, NotDueAtWork, OwnCart
<1>5. StageAheadOfWrites' /\ NoStatusYet' /\ NoWorldBeforeClaim'
  BY <1>1, <1>2 DEF WorldInv, StageAheadOfWrites, NoStatusYet, NoWorldBeforeClaim
<1>6. ToldIsStored' /\ OneOutcome'
  BY <1>1, <1>3 DEF WorldInv, ToldIsStored, OneOutcome
<1>7. StoredIsTrue' /\ FailureUndone'
  BY <1>1, <1>2 DEF WorldInv, StoredIsTrue, FailureUndone, Undone
<1> QED BY <1>4, <1>5, <1>6, <1>7 DEF WorldInv

\* A payment is confirmed only after the execution, and the order still stands.
LEMMA ConfirmWorld ==
  ASSUME IInv, WorldInv, Confirm
  PROVE  WorldInv'
<1>1. /\ UNCHANGED <<row, due, call, written, admin, faults>>
      /\ order = "draft" /\ stock = "held" /\ "payment" \in written
      /\ order' = "confirmed" /\ stock' = "sold"
      /\ \A r \in Requests : ~Executing(r) /\ ~Executing(r)'
  BY DEF Confirm, outside, Executing
<1>2. row # NoRow
  BY <1>1 DEF WorldInv, NoWorldBeforeClaim
<1>3. OwnerAtWork' /\ NotDueAtWork' /\ OwnCart' /\ NoStatusYet'
  BY <1>1, <1>2 DEF WorldInv, OwnerAtWork, NotDueAtWork, OwnCart, NoStatusYet
<1>4. StageAheadOfWrites' /\ NoWorldBeforeClaim'
  BY <1>1, <1>2 DEF WorldInv, StageAheadOfWrites, NoWorldBeforeClaim
<1>5. ToldIsStored' /\ OneOutcome'
  BY <1>1 DEF WorldInv, ToldIsStored, OneOutcome
<1>6. StoredIsTrue' /\ FailureUndone'
  BY <1>1 DEF WorldInv, StoredIsTrue, FailureUndone, Stands, Undone
<1> QED BY <1>3, <1>4, <1>5, <1>6 DEF WorldInv

\* An admin only undoes, also while the owner works.
LEMMA AdminWorld ==
  ASSUME IInv, WorldInv, AdminReads \/ AdminReleases \/ AdminCancels
  PROVE  WorldInv'
<1>1. /\ UNCHANGED <<row, due, call, written>>
      /\ order' \in {order, "cancelled"} /\ stock' \in {stock, "freed"}
      /\ admin' # "none"
  BY DEF AdminReads, AdminReleases, AdminCancels, world
<1>2. faults' = 0 => faults = 0
  BY FaultCounts DEF AdminReads, AdminReleases, AdminCancels, MayFail, IInv
<1>3. row # NoRow
  BY DEF AdminReads, AdminReleases, AdminCancels, WorldInv, NoWorldBeforeClaim
<1>4. \A r \in Requests : Executing(r)' = Executing(r)
  BY <1>1 DEF Executing
<1>5. OwnerAtWork'
  <2> SUFFICES ASSUME NEW r \in Requests, Executing(r)
               PROVE  WorkOK(call[r], row.stage, written, order', stock', admin', faults')
    BY <1>1, <1>4 DEF OwnerAtWork
  <2>1. WorkOK(call[r], row.stage, written, order, stock, admin, faults)
    BY DEF WorldInv, OwnerAtWork
  <2> QED BY <1>1, <1>2, <2>1 DEF WorkOK, OnCourse, OffCourse
<1>6. NotDueAtWork' /\ OwnCart' /\ NoStatusYet'
  BY <1>1, <1>4 DEF WorldInv, NotDueAtWork, OwnCart, NoStatusYet
<1>7. StageAheadOfWrites' /\ NoWorldBeforeClaim'
  BY <1>1, <1>3 DEF WorldInv, StageAheadOfWrites, NoWorldBeforeClaim
<1>8. ToldIsStored' /\ OneOutcome'
  BY <1>1, <1>4 DEF WorldInv, ToldIsStored, OneOutcome
<1>9. StoredIsTrue' /\ FailureUndone'
  BY <1>1, <1>2 DEF WorldInv, StoredIsTrue, FailureUndone, Stands, Undone
<1> QED BY <1>5, <1>6, <1>7, <1>8, <1>9 DEF WorldInv

LEMMA TombstoneWorld ==
  ASSUME IInv, WorldInv, Tombstone
  PROVE  WorldInv'
<1> USE DEF world, outside
<1>1. /\ row # NoRow /\ row' # NoRow /\ row'.stage = row.stage /\ row'.cart = row.cart
      /\ row'.reply = "none" /\ UNCHANGED <<due, call, written, order, stock, admin, faults>>
  BY DEF Tombstone, IInv, TypeOK, RowType, NoRow
<1>2. \A r \in Requests : ~Executing(r) /\ ~Executing(r)'
  BY DEF Tombstone, IInv, OwnerHasRow, Executing
<1>3. OwnerAtWork' /\ NotDueAtWork' /\ OwnCart' /\ NoStatusYet'
  BY <1>1, <1>2 DEF WorldInv, OwnerAtWork, NotDueAtWork, OwnCart, NoStatusYet
<1>4. StageAheadOfWrites' /\ NoWorldBeforeClaim'
  BY <1>1 DEF WorldInv, StageAheadOfWrites, NoWorldBeforeClaim
<1>5. ToldIsStored' /\ OneOutcome'
  BY <1>1, <1>2 DEF WorldInv, ToldIsStored, OneOutcome
<1>6. StoredIsTrue' /\ FailureUndone'
  BY <1>1 DEF WorldInv, StoredIsTrue, FailureUndone
<1> QED BY <1>3, <1>4, <1>5, <1>6 DEF WorldInv

LEMMA EvictWorld ==
  ASSUME IInv, WorldInv, Evict
  PROVE  WorldInv'
<1> USE DEF world, outside
<1>1. /\ TypeOK /\ UNCHANGED <<row, due, written, order, stock, admin>> /\ faults' # 0
  BY FaultCounts DEF Evict, IInv
<1>2. \A r \in Requests :
        \/ call'[r] = call[r] /\ ~Executing(r)
        \/ call'[r].pc = "done" /\ call'[r].reply = "unknown"
  BY <1>1 DEF Evict, TypeOK, CallType
<1>3. \A r \in Requests : ~Executing(r)'
  BY <1>2, PcSets DEF Executing
<1>4. \A r \in Requests : call'[r].reply \in Outcomes => call'[r].reply = call[r].reply
  BY <1>2 DEF Outcomes
<1>5. OwnerAtWork' /\ NotDueAtWork' /\ OwnCart' /\ NoStatusYet'
  BY <1>1, <1>2, <1>3 DEF WorldInv, OwnerAtWork, NotDueAtWork, OwnCart, NoStatusYet
<1>6. StageAheadOfWrites' /\ NoWorldBeforeClaim'
  BY <1>1 DEF WorldInv, StageAheadOfWrites, NoWorldBeforeClaim
<1>7. ToldIsStored' /\ OneOutcome'
  BY <1>1, <1>3, <1>4 DEF WorldInv, ToldIsStored, OneOutcome
<1>8. StoredIsTrue' /\ FailureUndone'
  BY <1>1 DEF WorldInv, StoredIsTrue, FailureUndone
<1> QED BY <1>5, <1>6, <1>7, <1>8 DEF WorldInv

LEMMA WorldStep == IInv /\ WorldInv /\ [Next]_vars => WorldInv'
<1> SUFFICES ASSUME IInv, WorldInv, [Next]_vars PROVE WorldInv'
  OBVIOUS
<1>0. IInv'
  BY InvStep
<1>1. CASE UNCHANGED vars
  BY <1>1 DEF vars, WorldInv, StageAheadOfWrites, OwnerAtWork, NoStatusYet, NotDueAtWork,
     NoWorldBeforeClaim, OwnCart, ToldIsStored, StoredIsTrue, OneOutcome, FailureUndone,
     Executing
<1>2. ASSUME NEW r \in Requests, Arrive(r) \/ Refuse(r) \/ Unreached(r) \/ Step(r)
      PROVE  WorldInv'
  BY <1>0, <1>2, OtherWorld, ClaimWorld, ValidateWorld, CheckpointWorld, WriteWorld,
     NoteWorld, UndoWorld, SettleWorld DEF Step
<1> QED
  BY <1>1, <1>2, TimeWorld, ConfirmWorld, AdminWorld, TombstoneWorld, EvictWorld
     DEF Next, Others

LEMMA WorldInvariance == Spec => [](IInv /\ WorldInv)
<1>1. Init => IInv /\ WorldInv
  BY InvInit, WorldInit
<1>2. IInv /\ WorldInv /\ [Next]_vars => IInv' /\ WorldInv'
  BY InvStep, WorldStep
<1> QED BY <1>1, <1>2, PTL DEF Spec

-----------------------------------------------------------------------------
(* The theorems.                                                           *)

\* Wherever a checkout stops, the stage its row stores accounts for every record
\* it may have written (the checkpoints of handleShopCheckout).
THEOREM StageCoversWrites == Spec => []StageAheadOfWrites
BY WorldInvariance, PTL DEF WorldInv

\* Every call that is told how the checkout ended is told the same, and only if it
\* sent the cart that was checked out.
THEOREM AnswersAgree == Spec => []OneOutcome
BY WorldInvariance, PTL DEF WorldInv

\* A checkout that fails, with no fault on the way, gives back its stock and
\* cancels its order before any call is told.
THEOREM FailureIsUndone == Spec => []FailureUndone
BY WorldInvariance, PTL DEF WorldInv

\* No step tells a call "ok" unless the payment intent was created, and the order
\* stands or an admin has begun to cancel it.
THEOREM OkIsTrueWhenSaid == Spec => OkWhileOrderStands
<1>1. ASSUME IInv, WorldInv, [Next]_vars, NEW r \in Requests,
             call'[r].reply = "ok", call[r].reply # "ok"
      PROVE  /\ "payment" \in written'
             /\ \/ order' = "draft" /\ stock' = "held"
                \/ order' = "confirmed" /\ stock' = "sold"
                \/ admin' # "none"
  <2> USE DEF world, outside
  <2>0. TypeOK /\ IInv' /\ WorldInv'
    BY <1>1, InvStep, WorldStep DEF IInv
  <2>1. call'[r] # call[r]
    BY <1>1
  <2>2. CASE Evict
    <3>1. call'[r] = [call[r] EXCEPT !.pc = "done", !.reply = "unknown"]
      BY <2>0, <2>1, <2>2 DEF Evict, TypeOK
    <3> QED BY <1>1, <2>0, <3>1 DEF TypeOK, CallType
  <2>3. Evict \/ Arrive(r) \/ Refuse(r) \/ Unreached(r) \/ Step(r)
    <3>1. Others => UNCHANGED call
      BY DEF Others, Sweep, Confirm, AdminReads, AdminReleases, AdminCancels
    <3> QED BY <1>1, <2>0, <2>1, <3>1, OthersStay DEF Next, vars, Age, Lapse, Tombstone
  <2>4. CASE Executing(r)'
    <3>1. call'[r].reply = "none"
      BY <2>0, <2>4, PcSets DEF IInv, Programme, CallOK, Executing
    <3> QED BY <1>1, <3>1
  <2>5. CASE Arrive(r) \/ Claim(r)
    BY <1>1, <2>0, <2>5 DEF Arrive, Claim, Goto, TypeOK, CallType
  <2>6. CASE Refuse(r) \/ Unreached(r) \/ ClaimFails(r) \/ SettleFails(r)
    BY <1>1, <2>0, <2>6 DEF Refuse, Unreached, ClaimFails, SettleFails, Reply, TypeOK,
       CallType
  <2>7. CASE Replay(r)
    <3>1. Existing(r) = "ok" /\ row # NoRow
      BY <1>1, <2>0, <2>7 DEF Replay, Reply, TypeOK, CallType
    <3>2. row.reply = "ok" /\ ~due
      BY <3>1 DEF Existing
    <3> QED BY <1>1, <2>7, <3>1, <3>2 DEF Replay, WorldInv, StoredIsTrue, Stands
  <2>8. CASE Settle(r)
    <3>1. row' # NoRow /\ row'.reply = "ok" /\ ~due'
      <4>1. Executing(r) /\ call'[r].reply = Outcome(call[r]) /\ row' = Settled(call[r])
            /\ UNCHANGED due
        BY <2>0, <2>8, CourseIsExecution
           DEF Settle, Reply, TypeOK, CallType, Executing
      <4>2. row # NoRow /\ row \in RowType /\ ~due
        BY <1>1, <4>1, OwnerAlone
      <4> QED BY <1>1, <4>1, <4>2 DEF Settled, RowType, NoRow
    <3> QED BY <2>0, <3>1 DEF WorldInv, StoredIsTrue, Stands
  <2>9. CASE Validate(r) \/ Checkpoint(r) \/ Write(r) \/ Note(r) \/ Release(r) \/ Cancel(r)
    BY <2>0, <2>4, <2>9, RunsOn
  <2> QED BY <2>2, <2>3, <2>5, <2>6, <2>7, <2>8, <2>9 DEF Step
<1>2. IInv /\ WorldInv /\ [Next]_vars =>
        [\A r \in Requests :
           call'[r].reply = "ok" /\ call[r].reply # "ok"
             => /\ "payment" \in written'
                /\ \/ order' = "draft" /\ stock' = "held"
                   \/ order' = "confirmed" /\ stock' = "sold"
                   \/ admin' # "none"]_vars
  BY <1>1
<1> QED BY <1>2, WorldInvariance, PTL DEF Spec, OkWhileOrderStands
==============================================================================

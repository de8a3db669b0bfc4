-------------------------- MODULE ShopCheckoutProofs --------------------------
(***************************************************************************)
(* Proofs about ShopCheckout, for any number of calls, any carts and any   *)
(* number of faults.  The inductive invariant says who owns the key (one   *)
(* call at most, and the row says so), what the owner has not done yet at  *)
(* each point of its programme, and what an answer tells of the world; and *)
(* only a body that normalises gets to the row.                            *)
(***************************************************************************)
EXTENDS ShopCheckout, TLAPS

\* One owner at a time, and its row is still being processed.
OneOwner == \A r, s \in Requests : Executing(r) /\ Executing(s) => r = s

OwnerHasRow ==
  \A r \in Requests : Executing(r) => row # NoRow /\ row.state = "processing"

\* A row is answered from only once it is no longer being processed.
ProcessingHasNoReply ==
  row # NoRow /\ row.state = "processing" => row.reply = "none"

\* Nothing is written before the key is claimed.
NothingBeforeClaim == row = NoRow => written = {} /\ placed = 0

\* What a call has not written yet, and must have written, at each point of its
\* programme; until it claims the key it is as it arrived.
CallOK(c, writes, orders) ==
  /\ c.pc \in {"away", "claim"} => c.stage = "claimed"
  /\ c.stage = "claimed" => ~c.made /\ ~c.held
  /\ c.pc # "done" => c.reply = "none"
  /\ c.pc \in {"validate", "cp_customer"} => c.stage = "claimed"
  /\ c.pc \in ExecutingPcs /\ c.stage = "claimed" =>
       /\ c.pc \in {"validate", "cp_customer", "settle"}
       /\ writes = {}
       /\ orders = 0
  /\ c.pc \in {"customer", "cp_order", "order"} => orders = 0
  /\ c.pc \in CheckpointPcs \cup WritePcs \cup {"note"} =>
       c.pc \in {"cp_customer", "customer"} \/ writes # {}
  /\ c.pc = "settle" /\ c.status = "2xx" => writes # {}
  /\ c.pc \in UndoPcs => c.status # "2xx"

Programme == \A r \in Requests : CallOK(call[r], written, placed)

\* What an answer, given or stored, tells of the world.
Honest(reply) ==
  /\ reply = "new_attempt" => written = {}
  /\ reply = "ok" => written # {}

HonestAnswers ==
  /\ \A r \in Requests : Honest(call[r].reply)
  /\ \A r \in Requests : call[r].reply = "new_attempt" => row # NoRow
  /\ \A r, s \in Requests : call[r].reply = "new_attempt" => ~Executing(s)
  /\ row # NoRow => Honest(row.reply)

\* What reaches the row was read first, and only what could not be is refused.
ReadFirst ==
  /\ \A r \in Requests : call[r].pc \in {"claim"} \cup ExecutingPcs => Normalises(r)
  /\ \A r \in Requests : call[r].reply = "refused" => ~Normalises(r)
  /\ row # NoRow => \E r \in Requests : Normalises(r) /\ row.cart = CartOf[r]

IInv ==
  /\ TypeOK
  /\ AtMostOneOrder
  /\ OneOwner
  /\ OwnerHasRow
  /\ ProcessingHasNoReply
  /\ NothingBeforeClaim
  /\ Programme
  /\ HonestAnswers

-----------------------------------------------------------------------------
(* Type correctness.                                                       *)

LEMMA PcSets ==
  /\ CheckpointPcs \subseteq ExecutingPcs
  /\ WritePcs \subseteq ExecutingPcs
  /\ UndoPcs \subseteq ExecutingPcs
  /\ "claim" \notin ExecutingPcs /\ "away" \notin ExecutingPcs
  /\ "done" \notin ExecutingPcs
BY DEF ExecutingPcs, CheckpointPcs, WritePcs, UndoPcs

LEMMA ProgrammeTypes ==
  /\ \A p \in CheckpointPcs : StageOf[p] \in Stages /\ After[p] \in ExecutingPcs
  /\ \A p \in WritePcs : After[p] \in ExecutingPcs
  /\ After.validate \in ExecutingPcs
  /\ After.note \in ExecutingPcs
BY DEF After, StageOf, Stages, ExecutingPcs, CheckpointPcs, WritePcs, UndoPcs

LEMMA RecoverType == \A c : Recover(c) \in {"release", "cancel", "settle"}
BY DEF Recover

LEMMA OutcomeType == \A c : Outcome(c) \in Outcomes
BY DEF Outcome, Outcomes

LEMMA FaultType ==
  ASSUME TypeOK, NEW bad, MayFail(bad) \/ Fault
  PROVE  faults' \in 0..MaxFaults
BY MaxFaultsAssumption DEF TypeOK, MayFail, Fault, MaxFaultsAssumption

LEMMA ReplyType ==
  ASSUME TypeOK, NEW r \in Requests, NEW what \in Replies, Reply(r, what)
  PROVE  call' \in [Requests -> CallType]
<1>1. call[r] \in CallType
  BY DEF TypeOK
<1>2. [call[r] EXCEPT !.pc = "done", !.reply = what] \in CallType
  BY <1>1 DEF CallType
<1> QED BY <1>2 DEF TypeOK, Reply

LEMMA ThrowType ==
  ASSUME TypeOK, NEW r \in Requests, NEW status \in {"4xx", "5xx"},
         Throw(r, status)
  PROVE  call' \in [Requests -> CallType]
<1>1. call[r] \in CallType
  BY DEF TypeOK
<1>2. Recover(call[r]) \in ExecutingPcs
  BY RecoverType DEF ExecutingPcs, UndoPcs
<1>3. [call[r] EXCEPT !.pc = Recover(call[r]), !.status = status] \in CallType
  BY <1>1, <1>2 DEF CallType
<1> QED BY <1>3 DEF TypeOK, Throw

LEMMA TypeInit == Init => TypeOK
<1> SUFFICES ASSUME Init PROVE TypeOK
  OBVIOUS
<1>1. row \in RowType
  BY DEF Init, RowType
<1>2. call \in [Requests -> CallType]
  BY DEF Init, CallType, Stages
<1>3. faults \in 0..MaxFaults
  BY MaxFaultsAssumption DEF Init, MaxFaultsAssumption
<1> QED BY <1>1, <1>2, <1>3 DEF Init, TypeOK

\* Every step keeps the types, as long as an owner has its row.
LEMMA TypeStep == TypeOK /\ OwnerHasRow /\ [Next]_vars => TypeOK'
<1> SUFFICES ASSUME TypeOK, OwnerHasRow, [Next]_vars PROVE TypeOK'
  OBVIOUS
<1> USE CartAssumption, MaxFaultsAssumption
    DEF TypeOK, world, outside, CartAssumption, MaxFaultsAssumption
<1>1. CASE UNCHANGED vars
  BY <1>1 DEF vars
<1>2. ASSUME NEW r \in Requests, Arrive(r) PROVE TypeOK'
  BY <1>2 DEF Arrive, Goto, CallType
<1>13. ASSUME NEW r \in Requests, Refuse(r) \/ Unreached(r) PROVE TypeOK'
  <2>1. call' \in [Requests -> CallType]
    BY <1>13, ReplyType DEF Refuse, Unreached, Replies, StartOver
  <2> QED BY <2>1, <1>13, FaultType DEF Refuse, Unreached
<1>3. ASSUME NEW r \in Requests, Claim(r) PROVE TypeOK'
  BY <1>3 DEF Claim, Goto, CallType, NewRow, RowType, Stages, ExecutingPcs
<1>4. ASSUME NEW r \in Requests, ClaimFails(r) PROVE TypeOK'
  <2>1. NewRow(r) \in RowType
    BY DEF NewRow, RowType, Stages
  <2>2. row' \in RowType
    BY <1>4, <2>1 DEF ClaimFails
  <2>3. call' \in [Requests -> CallType]
    BY <1>4, ReplyType DEF ClaimFails, Replies
  <2> QED BY <2>2, <2>3, <1>4, FaultType DEF ClaimFails
<1>5. ASSUME NEW r \in Requests, Replay(r) PROVE TypeOK'
  <2>1. Existing(r) \in Replies
    BY <1>5 DEF Replay, Existing, RowType, NoRow, Replies, Outcomes
  <2> QED BY <2>1, <1>5, ReplyType DEF Replay
<1>6. ASSUME NEW r \in Requests, Validate(r) PROVE TypeOK'
  BY <1>6, RecoverType, ProgrammeTypes
     DEF Validate, Goto, Throw, CallType, ExecutingPcs, UndoPcs
<1>7. ASSUME NEW r \in Requests, Checkpoint(r) PROVE TypeOK'
  <2> DEFINE c == [call[r] EXCEPT !.stage = StageOf[call[r].pc]]
  <2>1. row \in RowType \ {NoRow} /\ StageOf[call[r].pc] \in Stages
    BY <1>7, PcSets, ProgrammeTypes DEF Checkpoint, OwnerHasRow, Executing
  <2>4. c \in CallType /\ c.pc = call[r].pc /\ c.pc \in CheckpointPcs
    BY <1>7, <2>1 DEF Checkpoint, CallType
  <2>5. /\ [c EXCEPT !.pc = Recover(c), !.status = "5xx"] \in CallType
        /\ [c EXCEPT !.pc = After[c.pc]] \in CallType
    <3> HIDE DEF c
    <3>1. Recover(c) \in ExecutingPcs /\ After[c.pc] \in ExecutingPcs
      BY <2>4, RecoverType, ProgrammeTypes DEF ExecutingPcs, UndoPcs
    <3> QED BY <2>4, <3>1 DEF CallType
  <2>2. row' \in RowType
    BY <1>7, <2>1 DEF Checkpoint, RowType
  <2>3. call' \in [Requests -> CallType]
    BY <1>7, <2>5 DEF Checkpoint
  <2> QED BY <2>2, <2>3, <1>7, FaultType DEF Checkpoint
<1>8. ASSUME NEW r \in Requests, Write(r) PROVE TypeOK'
  <2>1. call' \in [Requests -> CallType]
    <3>1. Learn(call[r], call[r].pc) \in CallType
      BY <1>8, ProgrammeTypes DEF Write, Learn, CallType
    <3> QED BY <1>8, <3>1, ThrowType DEF Write
  <2>2. faults' \in 0..MaxFaults
    BY <1>8, FaultType DEF Write
  <2> QED BY <2>1, <2>2, <1>8 DEF Write, Effect
<1>9. ASSUME NEW r \in Requests, Note(r) PROVE TypeOK'
  BY <1>9, ProgrammeTypes DEF Note, Goto, CallType
<1>10. ASSUME NEW r \in Requests, Release(r) PROVE TypeOK'
  <2>1. call' \in [Requests -> CallType]
    <3>1. PICK thrown \in BOOLEAN :
            call' = [call EXCEPT ![r].pc = "cancel", ![r].held = thrown]
      BY <1>10 DEF Release
    <3>2. "cancel" \in ExecutingPcs
      BY DEF ExecutingPcs, UndoPcs
    <3> DEFINE c == [call[r] EXCEPT !.pc = "cancel", !.held = thrown]
    <3>3. call' = [call EXCEPT ![r] = c]
      BY <3>1
    <3>4. c \in CallType
      BY <3>2, call[r] \in CallType DEF CallType
    <3> QED BY <3>3, <3>4
  <2> QED BY <2>1, <1>10, FaultType DEF Release
<1>11. ASSUME NEW r \in Requests, Cancel(r) PROVE TypeOK'
  <2>1. call' \in [Requests -> CallType]
    BY <1>11 DEF Cancel, Goto, CallType, ExecutingPcs
  <2> QED BY <2>1, <1>11, FaultType DEF Cancel
<1>12. ASSUME NEW r \in Requests, Settle(r) \/ SettleFails(r) PROVE TypeOK'
  <2>1. row \in RowType \ {NoRow}
    BY <1>12, PcSets DEF Settle, SettleFails, OwnerHasRow, Executing, ExecutingPcs
  <2>2. Settled(call[r]) \in RowType
    BY <2>1, OutcomeType DEF Settled, RowType, CallType
  <2>3. row' \in RowType
    BY <1>12, <2>2 DEF Settle, SettleFails
  <2>4. call' \in [Requests -> CallType]
    BY <1>12, OutcomeType DEF Settle, SettleFails, Reply, CallType, Replies
  <2>5. faults' \in 0..MaxFaults
    BY <1>12, FaultType DEF Settle, SettleFails
  <2> QED BY <2>3, <2>4, <2>5, <1>12 DEF Settle, SettleFails
<1>14. CASE Age
  BY <1>14 DEF Age
<1>15. CASE Lapse
  BY <1>15 DEF Lapse
<1>16. CASE Tombstone
  BY <1>16 DEF Tombstone, RowType, NoRow
<1>17. CASE Sweep
  BY <1>17 DEF Sweep
<1>19. CASE Confirm \/ AdminReads
  BY <1>19 DEF Confirm, AdminReads
<1>20. CASE AdminReleases \/ AdminCancels
  BY <1>20, FaultType DEF AdminReleases, AdminCancels
<1>18. CASE Evict
  <2>1. call' \in [Requests -> CallType]
    <3>1. \A r \in Requests :
            [call[r] EXCEPT !.pc = "done", !.reply = "unknown"] \in CallType
      BY DEF CallType, Replies
    <3> QED BY <1>18, <3>1 DEF Evict
  <2> QED BY <2>1, <1>18, FaultType DEF Evict
<1> QED
  BY <1>1, <1>2, <1>3, <1>4, <1>5, <1>6, <1>7, <1>8, <1>9, <1>10, <1>11, <1>12,
     <1>13, <1>14, <1>15, <1>16, <1>17, <1>18, <1>19, <1>20 DEF Next, Step, Others

-----------------------------------------------------------------------------
(* The invariant.                                                          *)

LEMMA InvInit == Init => IInv
<1> SUFFICES ASSUME Init PROVE IInv
  OBVIOUS
<1>1. TypeOK
  BY TypeInit
<1>2. \A r \in Requests : ~Executing(r)
  BY PcSets DEF Init, Executing
<1> QED
  BY <1>1, <1>2 DEF Init, IInv, AtMostOneOrder, OneOwner, OwnerHasRow,
     ProcessingHasNoReply, NothingBeforeClaim, Programme, CallOK, HonestAnswers,
     Honest, Executing, NoRow, CheckpointPcs, WritePcs, UndoPcs

\* Only the owner's part of the invariant depends on what was written.
LEMMA IdleOK ==
  ASSUME NEW c \in CallType, c.pc \notin ExecutingPcs,
         NEW w, NEW p, NEW w2, NEW p2, CallOK(c, w, p)
  PROVE  CallOK(c, w2, p2)
BY DEF CallOK, ExecutingPcs, CallType

\* The owner takes a step of its programme.
LEMMA OwnerWorks ==
  ASSUME IInv, TypeOK', NEW r \in Requests, Executing(r),
         \A s \in Requests : s # r => call'[s] = call[s],
         call'[r].pc \in ExecutingPcs,
         CallOK(call'[r], written', placed'),
         row' # NoRow, row'.state = "processing", row'.reply = row.reply,
         written \subseteq written', placed' <= 1
  PROVE  IInv'
<1> USE DEF IInv
<1>1. \A s \in Requests : s # r => ~Executing(s) /\ ~Executing(s)'
  BY DEF OneOwner, Executing
<1>2. OneOwner' /\ OwnerHasRow'
  BY <1>1 DEF OneOwner, OwnerHasRow
<1>3. row.reply = "none" /\ row # NoRow
  BY DEF ProcessingHasNoReply, OwnerHasRow
<1>4. Programme'
  BY <1>1, IdleOK DEF Programme, TypeOK, Executing
<1>5. call'[r].reply = "none"
  BY PcSets DEF CallOK
<1>6. \A s \in Requests : call[s].reply # "new_attempt"
  BY DEF HonestAnswers
<1>7. HonestAnswers'
  BY <1>3, <1>5, <1>6 DEF HonestAnswers, Honest
<1> QED
  BY <1>2, <1>3, <1>4, <1>7 DEF AtMostOneOrder, ProcessingHasNoReply,
     NothingBeforeClaim

\* The owner is answered, and the row is settled or left as it is.
LEMMA OwnerAnswered ==
  ASSUME IInv, TypeOK', NEW r \in Requests, Executing(r),
         \A s \in Requests : s # r => call'[s] = call[s],
         call'[r].pc = "done", Honest(call'[r].reply),
         CallOK(call'[r], written, placed),
         row' # NoRow, Honest(row'.reply), ProcessingHasNoReply',
         UNCHANGED <<written, placed>>
  PROVE  IInv'
<1> USE DEF IInv
<1>1. \A s \in Requests : ~Executing(s)'
  BY PcSets DEF OneOwner, Executing
<1>2. OneOwner' /\ OwnerHasRow'
  BY <1>1 DEF OneOwner, OwnerHasRow
<1>3. Programme'
  BY DEF Programme
<1>4. HonestAnswers'
  BY <1>1 DEF HonestAnswers, Honest
<1> QED
  BY <1>2, <1>3, <1>4 DEF AtMostOneOrder, NothingBeforeClaim

\* A call that does not own the key moves on, or is answered with something true.
LEMMA OtherMoves ==
  ASSUME IInv, TypeOK', NEW r \in Requests, ~Executing(r),
         \A s \in Requests : s # r => call'[s] = call[s],
         ~Executing(r)', CallOK(call'[r], written, placed),
         Honest(call'[r].reply),
         call'[r].reply = "new_attempt" =>
           row # NoRow /\ \A s \in Requests : ~Executing(s),
         \/ UNCHANGED row
         \/ row = NoRow /\ row' # NoRow /\ row'.reply = "none",
         UNCHANGED <<written, placed>>
  PROVE  IInv'
<1> USE DEF IInv
<1>1. \A s \in Requests : Executing(s)' = Executing(s)
  BY DEF Executing
<1>2. OneOwner' /\ OwnerHasRow'
  BY <1>1 DEF OneOwner, OwnerHasRow
<1>3. Programme'
  BY DEF Programme
<1>4. HonestAnswers'
  BY <1>1 DEF HonestAnswers, Honest
<1> QED
  BY <1>2, <1>3, <1>4 DEF AtMostOneOrder, NothingBeforeClaim, ProcessingHasNoReply

LEMMA InvStep == IInv /\ [Next]_vars => IInv'
<1> SUFFICES ASSUME IInv, [Next]_vars PROVE IInv'
  OBVIOUS
<1>0. TypeOK /\ TypeOK' /\ OwnerHasRow
  BY TypeStep DEF IInv
<1> USE DEF world, outside
<1>1. CASE UNCHANGED vars
  BY <1>1 DEF vars, IInv, TypeOK, AtMostOneOrder, OneOwner, OwnerHasRow, Executing,
     ProcessingHasNoReply, NothingBeforeClaim, Programme, HonestAnswers, Honest
<1>2. ASSUME NEW r \in Requests, Arrive(r) PROVE IInv'
  <2>1. CallOK(call'[r], written, placed) /\ call'[r].pc = "claim"
        /\ call'[r].reply = call[r].reply
    BY <1>0, <1>2 DEF Arrive, Goto, TypeOK, CallType, IInv, Programme, CallOK,
       ExecutingPcs, CheckpointPcs, WritePcs, UndoPcs
  <2>2. Honest(call'[r].reply) /\ call'[r].reply = "none"
    BY <1>2, <2>1 DEF Arrive, IInv, Programme, CallOK, Honest
  <2> QED
    BY <1>0, <1>2, <2>1, <2>2, PcSets, OtherMoves
       DEF Arrive, Goto, TypeOK, CallType, Executing
<1>15. ASSUME NEW r \in Requests, Refuse(r) \/ Unreached(r) PROVE IInv'
  <2>1. /\ call[r].pc = "away" /\ call'[r].pc = "done"
        /\ call'[r].reply \in {"refused", "unknown"}
        /\ \A s \in Requests : s # r => call'[s] = call[s]
    BY <1>0, <1>15 DEF Refuse, Unreached, Reply, TypeOK, CallType
  <2>2. CallOK(call'[r], written, placed) /\ Honest(call'[r].reply)
    <3>1. /\ call'[r].stage = call[r].stage
          /\ call'[r].made = call[r].made /\ call'[r].held = call[r].held
      BY <1>0, <1>15 DEF Refuse, Unreached, Reply, TypeOK, CallType
    <3> QED
      BY <2>1, <3>1, PcSets DEF IInv, Programme, CallOK, Honest, CheckpointPcs,
         WritePcs, UndoPcs
  <2> QED
    BY <1>0, <1>15, <2>1, <2>2, PcSets, OtherMoves DEF Refuse, Unreached, Executing
<1>3. ASSUME NEW r \in Requests, Claim(r) PROVE IInv'
  <2>1. \A s \in Requests : ~Executing(s) /\ (s # r => call'[s] = call[s])
    BY <1>0, <1>3 DEF Claim, Goto, OwnerHasRow, TypeOK
  <2>2. /\ call'[r] = [call[r] EXCEPT !.pc = "validate"]
        /\ call[r].stage = "claimed"
        /\ call[r].reply = "none"
    BY <1>0, <1>3 DEF Claim, Goto, TypeOK, IInv, Programme, CallOK
  <2>3. /\ call'[r].pc = "validate"
        /\ call'[r].stage = "claimed"
        /\ call'[r].reply = "none"
        /\ ~call'[r].made /\ ~call'[r].held
    BY <1>0, <2>2 DEF TypeOK, CallType, IInv, Programme, CallOK
  <2>4. /\ row' # NoRow /\ row'.state = "processing" /\ row'.reply = "none"
        /\ written = {} /\ placed = 0 /\ written' = {} /\ placed' = 0
    BY <1>3 DEF Claim, NewRow, NoRow, IInv, NothingBeforeClaim
  <2>5. Programme'
    BY <2>1, <2>3, <2>4
       DEF IInv, Programme, CallOK, CheckpointPcs, WritePcs, UndoPcs
  <2>6. OneOwner' /\ OwnerHasRow'
    BY <2>1, <2>4 DEF OneOwner, OwnerHasRow, Executing
  <2>7. HonestAnswers'
    BY <1>3, <2>1, <2>3, <2>4 DEF IInv, HonestAnswers, Honest, Claim
  <2> QED
    BY <1>0, <2>4, <2>5, <2>6, <2>7
       DEF IInv, AtMostOneOrder, ProcessingHasNoReply, NothingBeforeClaim
<1>4. ASSUME NEW r \in Requests, ClaimFails(r) PROVE IInv'
  <2>1. /\ call'[r].pc = "done" /\ call'[r].reply = "unavailable"
        /\ \A s \in Requests : s # r => call'[s] = call[s]
    BY <1>0, <1>4 DEF ClaimFails, Reply, TypeOK, CallType
  <2>2. CallOK(call'[r], written, placed) /\ Honest(call'[r].reply)
    <3>1. /\ call'[r].stage = call[r].stage
          /\ call'[r].made = call[r].made /\ call'[r].held = call[r].held
      BY <1>0, <1>4 DEF ClaimFails, Reply, TypeOK, CallType
    <3> QED
      BY <2>1, <3>1, PcSets DEF IInv, Programme, CallOK, Honest, CheckpointPcs,
         WritePcs, UndoPcs
  <2>3. \/ UNCHANGED row
        \/ row = NoRow /\ row' # NoRow /\ row'.reply = "none"
    BY <1>4 DEF ClaimFails, NewRow, NoRow
  <2> QED
    BY <1>0, <1>4, <2>1, <2>2, <2>3, PcSets, OtherMoves DEF ClaimFails, Executing
<1>5. ASSUME NEW r \in Requests, Replay(r) PROVE IInv'
  <2>1. /\ call'[r].pc = "done" /\ call'[r].reply = Existing(r)
        /\ \A s \in Requests : s # r => call'[s] = call[s]
    BY <1>0, <1>5 DEF Replay, Reply, TypeOK, CallType
  <2>2. Existing(r) \in {"new_attempt", "ok"} => Existing(r) = row.reply
    BY DEF Existing
  <2>3. CallOK(call'[r], written, placed) /\ Honest(call'[r].reply)
    <3>1. /\ call'[r].stage = call[r].stage
          /\ call'[r].made = call[r].made /\ call'[r].held = call[r].held
      BY <1>0, <1>5 DEF Replay, Reply, TypeOK, CallType
    <3>2. CallOK(call'[r], written, placed)
      BY <2>1, <3>1, PcSets DEF IInv, Programme, CallOK, CheckpointPcs, WritePcs,
         UndoPcs
    <3>3. Honest(call'[r].reply)
      BY <1>5, <2>1, <2>2 DEF Replay, Honest, IInv, HonestAnswers
    <3> QED BY <3>2, <3>3
  <2>4. row.reply # "none" => \A s \in Requests : ~Executing(s)
    BY <1>0, <1>5 DEF IInv, ProcessingHasNoReply, OwnerHasRow
  <2> QED
    BY <1>0, <1>5, <2>1, <2>2, <2>3, <2>4, PcSets, OtherMoves DEF Replay, Executing
<1>6. ASSUME NEW r \in Requests, Validate(r) PROVE IInv'
  <2>1. /\ Executing(r) /\ call[r].stage = "claimed" /\ call[r].reply = "none"
        /\ ~call[r].made /\ ~call[r].held
    BY <1>6 DEF Validate, Executing, ExecutingPcs, IInv, Programme, CallOK
  <2>2. Recover(call[r]) = "settle"
    BY <2>1 DEF Recover
  <2>3. /\ call'[r].pc \in {"cp_customer", "settle"}
        /\ call'[r].pc = "settle" => call'[r].status # "2xx"
        /\ call'[r].stage = "claimed" /\ call'[r].reply = "none"
        /\ ~call'[r].made /\ ~call'[r].held
        /\ \A s \in Requests : s # r => call'[s] = call[s]
    BY <1>0, <1>6, <2>1, <2>2 DEF Validate, Goto, Throw, After, TypeOK, CallType
  <2>4. CallOK(call'[r], written', placed')
    BY <1>6, <2>1, <2>3 DEF Validate, IInv, Programme, CallOK, ExecutingPcs,
       CheckpointPcs, WritePcs, UndoPcs, Executing
  <2>5. /\ row' # NoRow /\ row'.state = "processing" /\ row'.reply = row.reply
        /\ written \subseteq written' /\ placed' <= 1
        /\ call'[r].pc \in ExecutingPcs
    BY <1>0, <1>6, <2>1, <2>3
       DEF Validate, OwnerHasRow, IInv, AtMostOneOrder, ExecutingPcs, CheckpointPcs
  <2> QED BY <1>0, <2>1, <2>3, <2>4, <2>5, OwnerWorks
<1>7. ASSUME NEW r \in Requests, Checkpoint(r) PROVE IInv'
  <2> DEFINE p == call[r].pc
             c == [call[r] EXCEPT !.stage = StageOf[p]]
  <2>1. Executing(r) /\ p \in CheckpointPcs /\ call[r].reply = "none"
    BY <1>7, PcSets DEF Checkpoint, Executing, IInv, Programme, CallOK
  <2>2. StageOf[p] # "claimed" /\ After[p] \in WritePcs \cup {"note"}
    BY <2>1 DEF StageOf, After, CheckpointPcs, WritePcs
  <2>3. /\ call'[r].pc \in {After[p], "release", "cancel", "settle"}
        /\ call'[r].pc \in {"release", "cancel", "settle"} => call'[r].status # "2xx"
        /\ call'[r].stage # "claimed" /\ call'[r].reply = "none"
        /\ \A s \in Requests : s # r => call'[s] = call[s]
    <3>1. c \in [pc : {p}, stage : {StageOf[p]}, made : BOOLEAN, held : BOOLEAN,
                 status : {"2xx", "4xx", "5xx"}, reply : {"none"}]
      BY <1>0, <2>1 DEF TypeOK, CallType
    <3>2. Recover(c) \in {"release", "cancel", "settle"}
      BY RecoverType
    <3>3. /\ After[p] \notin {"release", "cancel", "settle"}
          /\ c.pc = p
      BY <2>2, <3>1 DEF WritePcs
    <3>4. /\ call'[r] \in {[c EXCEPT !.pc = Recover(c), !.status = "5xx"],
                          [c EXCEPT !.pc = After[p]]}
          /\ \A s \in Requests : s # r => call'[s] = call[s]
      BY <1>0, <1>7, <3>3 DEF Checkpoint, TypeOK
    <3> HIDE DEF c, p
    <3> QED BY <3>1, <3>2, <3>3, <3>4, <2>2
  <2>4. CallOK(call'[r], written', placed')
    <3>1. /\ p = "cp_customer" \/ written # {}
          /\ p \in {"cp_customer", "cp_order"} => placed = 0
          /\ written' = written /\ placed' = placed
      BY <1>7, <2>1 DEF Checkpoint, IInv, Programme, CallOK, CheckpointPcs, Executing
    <3>2. /\ After[p] \in {"customer", "order", "reserve", "items", "note"}
          /\ After[p] = "order" => p = "cp_order"
          /\ p = "cp_customer" <=> After[p] = "customer"
      BY <2>1 DEF After, CheckpointPcs
    <3> QED
      BY <2>3, <3>1, <3>2 DEF CallOK, CheckpointPcs, WritePcs, UndoPcs
  <2>5. /\ row' # NoRow /\ row'.state = "processing" /\ row'.reply = row.reply
    BY <1>0, <1>7, <2>1 DEF Checkpoint, OwnerHasRow, TypeOK, RowType, NoRow
  <2>6. /\ written \subseteq written' /\ placed' <= 1
        /\ call'[r].pc \in ExecutingPcs
    BY <1>7, <2>2, <2>3 DEF Checkpoint, IInv, AtMostOneOrder, ExecutingPcs, UndoPcs
  <2> QED BY <1>0, <2>1, <2>3, <2>4, <2>5, <2>6, OwnerWorks
<1>8. ASSUME NEW r \in Requests, Write(r) PROVE IInv'
  <2> DEFINE p == call[r].pc
  <2>1. /\ Executing(r) /\ p \in WritePcs /\ call[r].reply = "none"
        /\ call[r].stage # "claimed"
    BY <1>8, PcSets
       DEF Write, Executing, IInv, Programme, CallOK, WritePcs
  <2>2. /\ p = "customer" \/ written # {}
        /\ p \in {"customer", "order"} => placed = 0
    BY <2>1 DEF IInv, Programme, CallOK, WritePcs
  <2>3. /\ \/ call'[r] = Learn(call[r], p)
           \/ \E status \in {"4xx", "5xx"} :
                call'[r] = [call[r] EXCEPT !.pc = Recover(call[r]), !.status = status]
        /\ \A s \in Requests : s # r => call'[s] = call[s]
    BY <1>0, <1>8 DEF Write, Throw, TypeOK
  <2>4. CASE call'[r] = Learn(call[r], p)
    <3>1. /\ call'[r].pc = After[p] /\ call'[r].stage # "claimed"
          /\ call'[r].reply = "none"
      BY <1>0, <2>1, <2>4 DEF Learn, TypeOK, CallType
    <3>2. /\ After[p] \in {"cp_order", "cp_reserve", "cp_items", "payment", "cp_note"}
          /\ After[p] = "cp_order" => p = "customer"
      BY <2>1 DEF After, WritePcs
    <3>3. /\ written' # {} /\ written \subseteq written' /\ placed' <= 1
          /\ p # "order" => placed' = placed
      <4>1. ASSUME NEW status, Throw(r, status) PROVE FALSE
        <5>1. call'[r].pc = Recover(call[r])
          BY <1>0, <4>1 DEF Throw, TypeOK, CallType
        <5> QED BY <3>1, <3>2, <5>1, RecoverType
      <4>2. Effect(p)
        BY <1>8, <4>1 DEF Write
      <4> QED BY <1>0, <2>1, <2>2, <4>2 DEF Effect, IInv, AtMostOneOrder, TypeOK
    <3>4. CallOK(call'[r], written', placed')
      BY <2>2, <3>1, <3>2, <3>3 DEF CallOK, CheckpointPcs, WritePcs, UndoPcs
    <3>5. row' # NoRow /\ row'.state = "processing" /\ row'.reply = row.reply
      BY <1>0, <1>8, <2>1 DEF Write, OwnerHasRow
    <3>6. call'[r].pc \in ExecutingPcs
      BY <3>1, <3>2 DEF ExecutingPcs, CheckpointPcs, WritePcs
    <3> QED BY <1>0, <2>1, <2>3, <3>3, <3>4, <3>5, <3>6, OwnerWorks
  <2>5. CASE \E status \in {"4xx", "5xx"} :
               call'[r] = [call[r] EXCEPT !.pc = Recover(call[r]), !.status = status]
    <3>1. /\ call'[r].pc \in {"release", "cancel", "settle"}
          /\ call'[r].stage # "claimed" /\ call'[r].reply = "none"
          /\ call'[r].status # "2xx"
      BY <1>0, <2>1, <2>5, RecoverType DEF TypeOK, CallType
    <3>2. written \subseteq written' /\ placed' <= 1
      BY <1>0, <1>8, <2>2 DEF Write, Effect, IInv, AtMostOneOrder, TypeOK
    <3>3. CallOK(call'[r], written', placed') /\ call'[r].pc \in ExecutingPcs
      BY <3>1 DEF CallOK, CheckpointPcs, WritePcs, UndoPcs, ExecutingPcs
    <3>4. row' # NoRow /\ row'.state = "processing" /\ row'.reply = row.reply
      BY <1>0, <1>8, <2>1 DEF Write, OwnerHasRow
    <3> QED BY <1>0, <2>1, <2>3, <3>1, <3>2, <3>3, <3>4, OwnerWorks
  <2> QED BY <2>3, <2>4, <2>5
<1>9. ASSUME NEW r \in Requests, Note(r) PROVE IInv'
  <2>1. /\ Executing(r) /\ call[r].stage # "claimed" /\ written # {}
        /\ call[r].reply = "none"
    BY <1>9 DEF Note, Executing, ExecutingPcs, IInv, Programme, CallOK
  <2>2. /\ call'[r].pc = "settle" /\ call'[r].stage # "claimed"
        /\ call'[r].reply = "none"
        /\ \A s \in Requests : s # r => call'[s] = call[s]
    BY <1>0, <1>9, <2>1 DEF Note, Goto, After, TypeOK, CallType
  <2>3. CallOK(call'[r], written', placed') /\ call'[r].pc \in ExecutingPcs
    BY <1>9, <2>1, <2>2
       DEF Note, CallOK, CheckpointPcs, WritePcs, UndoPcs, ExecutingPcs
  <2>4. row' # NoRow /\ row'.state = "processing" /\ row'.reply = row.reply
        /\ written \subseteq written' /\ placed' <= 1
    BY <1>0, <1>9, <2>1 DEF Note, OwnerHasRow, IInv, AtMostOneOrder
  <2> QED BY <1>0, <2>1, <2>2, <2>3, <2>4, OwnerWorks
<1>10. ASSUME NEW r \in Requests, Release(r) \/ Cancel(r) PROVE IInv'
  <2>1. /\ Executing(r) /\ call[r].stage # "claimed" /\ call[r].status # "2xx"
        /\ call[r].reply = "none"
    BY <1>10 DEF Release, Cancel, Executing, ExecutingPcs, UndoPcs, IInv, Programme,
       CallOK
  <2>2. /\ call'[r].pc \in {"cancel", "settle"} /\ call'[r].stage # "claimed"
        /\ call'[r].status # "2xx" /\ call'[r].reply = "none"
        /\ \A s \in Requests : s # r => call'[s] = call[s]
    BY <1>0, <1>10, <2>1 DEF Release, Cancel, Goto, TypeOK, CallType
  <2>3. CallOK(call'[r], written', placed') /\ call'[r].pc \in ExecutingPcs
    BY <2>2 DEF CallOK, CheckpointPcs, WritePcs, UndoPcs, ExecutingPcs
  <2>4. row' # NoRow /\ row'.state = "processing" /\ row'.reply = row.reply
        /\ written \subseteq written' /\ placed' <= 1
    BY <1>0, <1>10, <2>1 DEF Release, Cancel, OwnerHasRow, IInv, AtMostOneOrder
  <2> QED BY <1>0, <2>1, <2>2, <2>3, <2>4, OwnerWorks
<1>11. ASSUME NEW r \in Requests, Settle(r) \/ SettleFails(r) PROVE IInv'
  <2>1. Executing(r) /\ call[r].pc = "settle" /\ CallOK(call[r], written, placed)
    BY <1>11 DEF Settle, SettleFails, Executing, ExecutingPcs, IInv, Programme
  <2>2. Honest(Outcome(call[r]))
    BY <2>1 DEF Honest, Outcome, CallOK, Executing
  <2>3. /\ call'[r].pc = "done" /\ call'[r].reply \in {Outcome(call[r]), "recovery"}
        /\ call'[r].stage = call[r].stage
        /\ call'[r].made = call[r].made /\ call'[r].held = call[r].held
        /\ \A s \in Requests : s # r => call'[s] = call[s]
    BY <1>0, <1>11 DEF Settle, SettleFails, Reply, TypeOK, CallType
  <2>4. Honest(call'[r].reply) /\ CallOK(call'[r], written, placed)
    BY <2>1, <2>2, <2>3, PcSets
       DEF Honest, CallOK, CheckpointPcs, WritePcs, UndoPcs
  <2>5. row \in RowType \ {NoRow} /\ row.state = "processing"
    BY <1>0, <2>1 DEF OwnerHasRow, TypeOK
  <2>6. /\ Settled(call[r]).state \in {"complete", "failed"}
        /\ Settled(call[r]).reply = Outcome(call[r])
    BY <2>5 DEF Settled, RowType
  <2>7. row' \in {row, Settled(call[r])}
    BY <1>11 DEF Settle, SettleFails
  <2>8. row' # NoRow /\ Honest(row'.reply) /\ ProcessingHasNoReply'
    BY <2>2, <2>5, <2>6, <2>7 DEF NoRow, IInv, HonestAnswers, ProcessingHasNoReply
  <2> QED
    BY <1>0, <1>11, <2>1, <2>3, <2>4, <2>8, OwnerAnswered DEF Settle, SettleFails
<1>12. CASE Age \/ Lapse \/ Others
  <2>1. UNCHANGED <<row, call, written, placed>>
    BY <1>12 DEF Age, Lapse, Others, Sweep, Confirm, AdminReads, AdminReleases,
       AdminCancels
  <2> QED
    BY <1>0, <2>1 DEF IInv, AtMostOneOrder, OneOwner, OwnerHasRow, Executing,
       ProcessingHasNoReply, NothingBeforeClaim, Programme, HonestAnswers, Honest
<1>13. CASE Tombstone
  <2>1. row' # NoRow /\ row'.state = "expired" /\ row'.reply = "none"
    BY <1>0, <1>13 DEF Tombstone, TypeOK, RowType, NoRow
  <2>2. \A r \in Requests : ~Executing(r)
    BY <1>0, <1>13 DEF Tombstone, OwnerHasRow
  <2> QED
    BY <1>0, <1>13, <2>1, <2>2 DEF Tombstone, IInv, AtMostOneOrder, OneOwner,
       OwnerHasRow, Executing, ProcessingHasNoReply, NothingBeforeClaim, Programme,
       HonestAnswers, Honest
<1>14. CASE Evict
  <2>1. \A r \in Requests :
          \/ call'[r] = call[r] /\ ~Executing(r)
          \/ /\ call'[r].pc = "done" /\ call'[r].reply = "unknown"
             /\ call'[r].stage = call[r].stage
             /\ call'[r].made = call[r].made /\ call'[r].held = call[r].held
    BY <1>0, <1>14 DEF Evict, TypeOK, CallType
  <2>2. \A r \in Requests : ~Executing(r)'
    BY <2>1, PcSets DEF Executing
  <2>5. UNCHANGED <<row, written, placed>>
    BY <1>14 DEF Evict
  <2>3. Programme'
    <3> SUFFICES ASSUME NEW r \in Requests PROVE CallOK(call'[r], written, placed)
      BY <2>5 DEF Programme
    <3>1. CallOK(call[r], written, placed)
      BY DEF IInv, Programme
    <3>2. ASSUME call'[r].pc = "done", call'[r].stage = call[r].stage,
                 call'[r].made = call[r].made, call'[r].held = call[r].held
          PROVE  CallOK(call'[r], written, placed)
      BY <3>1, <3>2, PcSets DEF CallOK, CheckpointPcs, WritePcs, UndoPcs
    <3> QED BY <2>1, <3>1, <3>2
  <2>4. HonestAnswers'
    BY <2>1, <2>2, <2>5 DEF IInv, HonestAnswers, Honest
  <2> QED
    BY <1>0, <1>14, <2>2, <2>3, <2>4 DEF Evict, IInv, AtMostOneOrder, OneOwner,
       OwnerHasRow, ProcessingHasNoReply, NothingBeforeClaim
<1> QED
  BY <1>1, <1>2, <1>3, <1>4, <1>5, <1>6, <1>7, <1>8, <1>9, <1>10, <1>11, <1>12,
     <1>13, <1>14, <1>15 DEF Next, Step, Others

LEMMA Invariance == Spec => []IInv
BY InvInit, InvStep, PTL DEF Spec

LEMMA ReadFirstInit == Init => ReadFirst
BY PcSets DEF Init, ReadFirst, ExecutingPcs, CheckpointPcs, WritePcs, UndoPcs

\* Whoever is behind the front was there before, or has just been passed on.
LEMMA BehindTheFront ==
  ASSUME IInv, [Next]_vars, NEW r \in Requests
  PROVE  /\ call'[r].pc \in {"claim"} \cup ExecutingPcs =>
              call[r].pc \in {"claim"} \cup ExecutingPcs \/ Arrive(r)
         /\ call'[r].reply = "refused" => call[r].reply = "refused" \/ Refuse(r)
<1>0. TypeOK
  BY DEF IInv
<1>1. CASE call'[r] = call[r]
  BY <1>1
<1>2. CASE Arrive(r) \/ Refuse(r) \/ Unreached(r)
  BY <1>0, <1>2, PcSets DEF Arrive, Refuse, Unreached, Goto, Reply, TypeOK, CallType
<1>3. CASE Step(r)
  <2>1. call[r].pc \in {"claim"} \cup ExecutingPcs
    BY <1>3, PcSets DEF Step, Claim, ClaimFails, Replay, Validate, Checkpoint, Write, Note,
       Release, Cancel, Settle, SettleFails, ExecutingPcs, UndoPcs
  <2>2. CASE Claim(r) \/ Validate(r) \/ Checkpoint(r) \/ Write(r) \/ Note(r)
             \/ Release(r) \/ Cancel(r)
    <3>1. CASE Claim(r) \/ Note(r) \/ Release(r) \/ Cancel(r)
      BY <1>0, <2>1, <3>1 DEF Claim, Note, Release, Cancel, Goto, TypeOK, CallType
    <3>2. CASE Validate(r) \/ Write(r)
      <4>1. \/ \E pc : Goto(r, pc)
            \/ \E status : Throw(r, status)
            \/ call' = [call EXCEPT ![r] = Learn(@, call[r].pc)]
        BY <3>2 DEF Validate, Write
      <4>2. ASSUME NEW pc, Goto(r, pc) PROVE call'[r].reply = call[r].reply
        BY <1>0, <4>2 DEF Goto, TypeOK, CallType
      <4>3. ASSUME NEW status, Throw(r, status) PROVE call'[r].reply = call[r].reply
        BY <1>0, <4>3 DEF Throw, TypeOK, CallType
      <4>4. Learn(call[r], call[r].pc).reply = call[r].reply
        BY <1>0 DEF Learn, TypeOK, CallType
      <4> QED BY <1>0, <2>1, <4>1, <4>2, <4>3, <4>4 DEF TypeOK
    <3>3. CASE Checkpoint(r)
      BY <1>0, <2>1, <3>3 DEF Checkpoint, TypeOK, CallType
    <3> QED BY <2>1, <2>2, <3>1, <3>2, <3>3
  <2>3. CASE ClaimFails(r) \/ Replay(r) \/ Settle(r) \/ SettleFails(r)
    <3>1. \E what : Reply(r, what) /\ what # "refused"
      <4>1. CASE Replay(r)
        <5>1. row.reply # "refused"
          BY <1>0, <4>1 DEF Replay, TypeOK, RowType, Outcomes
        <5> QED BY <4>1, <5>1 DEF Replay, Existing
      <4> QED BY <2>3, <4>1 DEF ClaimFails, Settle, SettleFails, Outcome
    <3>2. call'[r].reply # "refused"
      BY <1>0, <3>1 DEF Reply, TypeOK, CallType
    <3> QED BY <2>1, <3>2
  <2> QED BY <1>3, <2>2, <2>3 DEF Step
<1>4. CASE Evict
  <2>1. call'[r] = call[r] \/ (call'[r].pc = "done" /\ call'[r].reply = "unknown")
    BY <1>0, <1>4 DEF Evict, TypeOK, CallType
  <2> QED BY <1>1, <2>1, PcSets
<1>5. ASSUME NEW s \in Requests, s # r,
             Arrive(s) \/ Refuse(s) \/ Unreached(s) \/ Step(s)
      PROVE  call'[r] = call[r]
  BY <1>0, <1>5 DEF TypeOK, Step, Arrive, Refuse, Unreached, Claim, ClaimFails, Replay,
     Validate, Checkpoint, Write, Note, Release, Cancel, Settle, SettleFails, Goto,
     Reply, Throw
<1>6. CASE Age \/ Lapse \/ Tombstone \/ Others \/ UNCHANGED vars
  <2>1. UNCHANGED call
    BY <1>6 DEF Age, Lapse, Tombstone, Others, Sweep, Confirm, AdminReads, AdminReleases,
       AdminCancels, vars
  <2> QED BY <1>1, <2>1
<1> QED BY <1>1, <1>2, <1>3, <1>4, <1>5, <1>6 DEF Next, Others

LEMMA RowKeepsCart ==
  ASSUME IInv, [Next]_vars, row' # NoRow
  PROVE  \/ row # NoRow /\ row'.cart = row.cart
         \/ \E r \in Requests : call[r].pc = "claim" /\ row'.cart = CartOf[r]
<1>0. TypeOK /\ OwnerHasRow
  BY DEF IInv
<1>1. CASE UNCHANGED row
  BY <1>1
<1>2. ASSUME NEW r \in Requests, Claim(r) \/ ClaimFails(r)
      PROVE  \/ row # NoRow /\ row'.cart = row.cart
             \/ call[r].pc = "claim" /\ row'.cart = CartOf[r]
  BY <1>2 DEF Claim, ClaimFails, NewRow
<1>3. ASSUME NEW r \in Requests, Checkpoint(r) \/ Settle(r) \/ SettleFails(r)
      PROVE  row # NoRow /\ row'.cart = row.cart
  <2>1. row \in RowType \ {NoRow}
    BY <1>0, <1>3, PcSets DEF Checkpoint, Settle, SettleFails, OwnerHasRow, Executing,
       ExecutingPcs, TypeOK
  <2> QED BY <1>3, <2>1 DEF Checkpoint, Settle, SettleFails, Settled, RowType
<1>4. CASE Tombstone
  BY <1>0, <1>4 DEF Tombstone, TypeOK, RowType
<1>5. CASE Age \/ Lapse \/ Others \/ Evict \/ UNCHANGED vars
  BY <1>1, <1>5 DEF Age, Lapse, Others, Sweep, Confirm, AdminReads, AdminReleases,
     AdminCancels, Evict, vars
<1>6. ASSUME NEW r \in Requests,
             \/ Arrive(r) \/ Refuse(r) \/ Unreached(r) \/ Replay(r) \/ Validate(r)
             \/ Write(r) \/ Note(r) \/ Release(r) \/ Cancel(r)
      PROVE  UNCHANGED row
  BY <1>6 DEF Arrive, Refuse, Unreached, Replay, Validate, Write, Note, Release, Cancel
<1> QED BY <1>1, <1>2, <1>3, <1>4, <1>5, <1>6 DEF Next, Step, Others

LEMMA ReadFirstStep == IInv /\ ReadFirst /\ [Next]_vars => ReadFirst'
<1> SUFFICES ASSUME IInv, ReadFirst, [Next]_vars PROVE ReadFirst'
  OBVIOUS
<1>1. ASSUME NEW r \in Requests
      PROVE  /\ call'[r].pc \in {"claim"} \cup ExecutingPcs => Normalises(r)
             /\ call'[r].reply = "refused" => ~Normalises(r)
  BY BehindTheFront DEF ReadFirst, Arrive, Refuse
<1>2. ASSUME row' # NoRow
      PROVE  \E r \in Requests : Normalises(r) /\ row'.cart = CartOf[r]
  BY <1>2, RowKeepsCart DEF ReadFirst
<1> QED BY <1>1, <1>2 DEF ReadFirst, Normalises

LEMMA ReadInvariance == Spec => []ReadFirst
BY ReadFirstInit, ReadFirstStep, Invariance, PTL DEF Spec

\* The records of the checkout, the row and the calls always have their types,
\* and no more faults are taken than the bound allows.
THEOREM TypeCorrect == Spec => []TypeOK
BY Invariance, PTL DEF IInv

\* runCheckoutOnce creates at most one order for a key, whatever is retried,
\* refused, lost or evicted.
THEOREM NeverTwice == Spec => []AtMostOneOrder
BY Invariance, PTL DEF IInv

\* A customer told by the row to take a new key has left nothing behind under the
\* old one; one who is told so in front of it has left nothing of the body sent.
THEOREM NewAttemptLeavesNothing == Spec => []NewAttemptIsSafe
<1>1. IInv /\ ReadFirst => NewAttemptIsSafe
  BY DEF IInv, HonestAnswers, Honest, NothingBeforeClaim, ReadFirst, Normalises,
     NewAttemptIsSafe
<1> QED BY <1>1, Invariance, ReadInvariance, PTL

\* Where the calls of a key send one body, as those of the shop's pages do, so that
\* all normalise or none does, nothing was written for the key when a customer is
\* told to take a new one, whoever says so.
THEOREM OneBodyStartsOverSafely ==
  ASSUME \A r, s \in Requests : Normalises(r) <=> Normalises(s)
  PROVE  Spec => [](\A r \in Requests : call[r].reply \in StartOver => written = {})
<1>1. IInv /\ ReadFirst =>
        \A r \in Requests : call[r].reply \in StartOver => written = {}
  <2> SUFFICES ASSUME IInv, ReadFirst, NEW r \in Requests, call[r].reply \in StartOver
               PROVE  written = {}
    OBVIOUS
  <2>1. CASE call[r].reply = "new_attempt"
    BY <2>1 DEF IInv, HonestAnswers, Honest
  <2>2. CASE call[r].reply = "refused"
    BY <2>2 DEF IInv, NothingBeforeClaim, ReadFirst, Normalises
  <2> QED BY <2>1, <2>2 DEF StartOver
<1> QED BY <1>1, Invariance, ReadInvariance, PTL

-----------------------------------------------------------------------------
(* Refinement: the key keeps its promise.                                  *)

Phase ==
  IF row = NoRow THEN "free"
  ELSE IF \E r \in Requests : Executing(r) THEN "open" ELSE "shut"

ToldTo == [r \in Requests |-> Told(call[r])]

LEMMA PromiseInit == Init => Key!Init
<1> SUFFICES ASSUME Init PROVE Key!Init
  OBVIOUS
<1>1. ToldTo = [r \in Requests |-> "nothing"]
  BY DEF ToldTo, Told, Init
<1> QED BY <1>1 DEF Init, Key!Init, ToldTo

\* A step in which the calls other than r are not answered.
LEMMA ToldOne ==
  ASSUME TypeOK, NEW r \in Requests,
         \A s \in Requests : s # r => call'[s] = call[s]
  PROVE  ToldTo' = [ToldTo EXCEPT ![r] = Told(call'[r])]
BY DEF ToldTo

\* What the abstract actions ask of the mapped state.
LEMMA KeyStutters ==
  ASSUME UNCHANGED <<Phase, written, ToldTo>> PROVE UNCHANGED Key!vars
BY DEF Key!vars, Phase, ToldTo

LEMMA KeyTakes ==
  ASSUME NEW r \in Requests, Normalises(r), ToldTo[r] = "nothing",
         Phase = "free", UNCHANGED written,
         \/ Phase' = "open" /\ UNCHANGED ToldTo
         \/ Phase' = "shut" /\ ToldTo' = [ToldTo EXCEPT ![r] = "other"]
  PROVE  Key!Next
<1>1. Key!Take
  BY DEF Key!Take, Key!Tell, Phase, ToldTo
<1> QED BY <1>1 DEF Key!Next

LEMMA KeyWrites ==
  ASSUME Phase = "open", Phase' = "open", written' # {}, UNCHANGED ToldTo
  PROVE  Key!Next
<1>1. Key!Write
  BY DEF Key!Write, Phase, ToldTo
<1> QED BY <1>1 DEF Key!Next

\* What may be told of the key.
TrueOfKey(what) ==
  \/ what = "other"
  \/ what = "ok" /\ written # {}
  \/ what = "new_attempt" /\ written = {}

LEMMA KeyFinishes ==
  ASSUME NEW r \in Requests, NEW what, TrueOfKey(what), ToldTo[r] = "nothing",
         Phase = "open", Phase' = "shut", UNCHANGED written,
         ToldTo' = [ToldTo EXCEPT ![r] = what]
  PROVE  Key!Next
<1>1. Key!Finish(r, what)
  BY DEF Key!Finish, Key!Sayable, Key!Tell, TrueOfKey, Phase, ToldTo
<1> QED BY <1>1 DEF Key!Next, TrueOfKey

LEMMA KeyAnswers ==
  ASSUME NEW r \in Requests, NEW what, ToldTo[r] = "nothing",
         \/ what = "other"
         \/ Phase = "shut" /\ TrueOfKey(what)
         \/ what = "new_attempt" /\ ~Normalises(r),
         UNCHANGED <<Phase, written>>,
         ToldTo' = [ToldTo EXCEPT ![r] = what]
  PROVE  Key!Next
<1>1. Key!Answer(r, what)
  BY DEF Key!Answer, Key!Sayable, Key!Tell, TrueOfKey, Phase, ToldTo
<1> QED BY <1>1 DEF Key!Next, TrueOfKey

LEMMA KeyAbandons ==
  ASSUME Phase = "open", Phase' = "shut", UNCHANGED written,
         \A r \in Requests : \/ ToldTo'[r] = ToldTo[r]
                             \/ ToldTo[r] = "nothing" /\ ToldTo'[r] = "other"
  PROVE  Key!Next
<1> DEFINE lost == {r \in Requests : ToldTo[r] = "nothing" /\ ToldTo'[r] = "other"}
<1>1. lost \in SUBSET {r \in Requests : ToldTo[r] = "nothing"}
  OBVIOUS
<1>2. ToldTo' = [r \in Requests |-> IF r \in lost THEN "other" ELSE ToldTo[r]]
  BY DEF ToldTo
<1>3. Key!Abandon
  BY <1>1, <1>2 DEF Key!Abandon, Phase, ToldTo
<1> QED BY <1>3 DEF Key!Next

LEMMA OwnerIsOpen ==
  ASSUME OwnerHasRow, NEW r \in Requests, Executing(r) PROVE Phase = "open"
BY DEF OwnerHasRow, Phase

\* The owner works on: nobody is answered and the phase stays "open".
LEMMA OwnerStepKeepsPromise ==
  ASSUME IInv, IInv', NEW r \in Requests, Executing(r), Executing(r)',
         \A s \in Requests : s # r => call'[s] = call[s],
         written' # {} \/ UNCHANGED written
  PROVE  Key!Next \/ UNCHANGED Key!vars
<1>1. Phase = "open" /\ Phase' = "open"
  <2>1. Phase = "open"
    BY OwnerIsOpen DEF IInv
  <2>2. row' # NoRow
    BY DEF IInv, OwnerHasRow
  <2> QED BY <2>1, <2>2 DEF Phase
<1>2. call[r].reply = "none" /\ call'[r].reply = "none"
  BY PcSets DEF IInv, Programme, CallOK, Executing
<1>3. ToldTo' = ToldTo
  BY <1>2 DEF ToldTo, Told
<1> QED BY <1>1, <1>3, KeyWrites, KeyStutters

\* The owner keeps executing until it is answered.
LEMMA RunsOn ==
  ASSUME TypeOK, NEW r \in Requests,
         \/ Validate(r) \/ Checkpoint(r) \/ Write(r) \/ Note(r)
         \/ Release(r) \/ Cancel(r)
  PROVE  Executing(r)'
<1>0. \A c : Recover(c) \in ExecutingPcs
  BY RecoverType DEF ExecutingPcs, UndoPcs
<1>1. CASE Validate(r)
  BY <1>0, <1>1, ProgrammeTypes DEF Validate, Goto, Throw, TypeOK, CallType, Executing
<1>2. CASE Checkpoint(r)
  <2>1. call'[r].pc \in {Recover([call[r] EXCEPT !.stage = StageOf[call[r].pc]]),
                        After[call[r].pc]}
    BY <1>2 DEF Checkpoint, TypeOK, CallType
  <2> QED BY <1>0, <1>2, <2>1, ProgrammeTypes DEF Checkpoint, Executing
<1>3. CASE Write(r)
  <2>1. call'[r].pc \in {Recover(call[r]), After[call[r].pc]}
    <3> DEFINE c == Learn(call[r], call[r].pc)
    <3>1. c.pc = After[call[r].pc]
      BY DEF Learn, TypeOK, CallType
    <3>2. \/ call' = [call EXCEPT ![r] = c]
          \/ \E status \in {"4xx", "5xx"} : Throw(r, status)
      BY <1>3 DEF Write
    <3> HIDE DEF c
    <3> QED BY <3>1, <3>2 DEF Throw, TypeOK, CallType
  <2> QED BY <1>0, <1>3, <2>1, ProgrammeTypes DEF Write, Executing
<1>4. CASE Note(r)
  BY <1>4, ProgrammeTypes DEF Note, Goto, TypeOK, CallType, Executing
<1>5. CASE Release(r) \/ Cancel(r)
  <2>1. {"cancel", "settle"} \subseteq ExecutingPcs
    BY DEF ExecutingPcs, UndoPcs
  <2> QED BY <1>5, <2>1 DEF Release, Cancel, Goto, TypeOK, CallType, Executing
<1> QED BY <1>1, <1>2, <1>3, <1>4, <1>5

LEMMA PromiseStep == IInv /\ ReadFirst /\ [Next]_vars => [Key!Next]_(Key!vars)
<1> SUFFICES ASSUME IInv, ReadFirst, [Next]_vars PROVE Key!Next \/ UNCHANGED Key!vars
  OBVIOUS
<1>0. TypeOK /\ TypeOK' /\ IInv' /\ OwnerHasRow /\ OwnerHasRow'
  BY InvStep DEF IInv
<1> USE DEF world, outside
<1>1. CASE UNCHANGED vars
  BY <1>1, KeyStutters DEF vars, Phase, ToldTo, Executing, Told
<1>2. ASSUME NEW r \in Requests, Arrive(r) PROVE UNCHANGED Key!vars
  <2>1. \A s \in Requests :
          call'[s].reply = call[s].reply /\ Executing(s)' = Executing(s)
    BY <1>0, <1>2, PcSets DEF Arrive, Goto, Executing, TypeOK, CallType
  <2> QED BY <1>2, <2>1, KeyStutters DEF Arrive, Phase, ToldTo, Told
<1>12. ASSUME NEW r \in Requests, Refuse(r) \/ Unreached(r) PROVE Key!Next
  <2> DEFINE what == Told(call'[r])
  <2>1. /\ call[r].reply = "none"
        /\ \/ call'[r].reply = "unknown"
           \/ call'[r].reply = "refused" /\ ~Normalises(r)
        /\ \A s \in Requests : s # r => call'[s] = call[s]
        /\ \A s \in Requests : Executing(s)' = Executing(s)
    BY <1>0, <1>12, PcSets
       DEF Refuse, Unreached, Reply, TypeOK, CallType, Executing, IInv, Programme, CallOK
  <2>2. ToldTo' = [ToldTo EXCEPT ![r] = what] /\ ToldTo[r] = "nothing"
    BY <2>1 DEF ToldTo, Told
  <2>3. \/ what = "other"
        \/ what = "new_attempt" /\ ~Normalises(r)
    BY <2>1 DEF Told, StartOver
  <2>4. UNCHANGED <<Phase, written>>
    BY <1>12, <2>1 DEF Refuse, Unreached, Phase
  <2> HIDE DEF what
  <2> QED BY <2>2, <2>3, <2>4, KeyAnswers
<1>3. ASSUME NEW r \in Requests, Claim(r) PROVE Key!Next
  <2>1. /\ \A s \in Requests : call'[s].reply = call[s].reply
        /\ Executing(r)' /\ Normalises(r) /\ call[r].reply = "none"
    BY <1>0, <1>3 DEF Claim, Goto, Executing, ExecutingPcs, TypeOK, CallType, ReadFirst,
       IInv, Programme, CallOK
  <2>2. Phase = "free" /\ Phase' = "open"
    BY <1>0, <1>3, <2>1 DEF Claim, Phase, OwnerHasRow
  <2> QED BY <1>3, <2>1, <2>2, KeyTakes DEF Claim, ToldTo, Told
<1>4. ASSUME NEW r \in Requests, ClaimFails(r) PROVE Key!Next
  <2>1. /\ call[r].reply = "none" /\ call'[r].reply = "unavailable"
        /\ \A s \in Requests : s # r => call'[s] = call[s]
        /\ \A s \in Requests : Executing(s)' = Executing(s)
        /\ Normalises(r)
    BY <1>0, <1>4, PcSets
       DEF ClaimFails, Reply, TypeOK, CallType, Executing, IInv, Programme, CallOK,
       ReadFirst
  <2>2. ToldTo' = [ToldTo EXCEPT ![r] = "other"] /\ ToldTo[r] = "nothing"
    BY <2>1 DEF ToldTo, Told, StartOver
  <2>3. CASE UNCHANGED row
    BY <1>4, <2>1, <2>2, <2>3, KeyAnswers DEF ClaimFails, Phase
  <2>4. CASE row = NoRow /\ row' = NewRow(r)
    <3>1. Phase = "free" /\ Phase' = "shut"
      BY <1>0, <2>1, <2>4 DEF Phase, NewRow, NoRow, OwnerHasRow
    <3> QED BY <1>4, <2>1, <2>2, <3>1, KeyTakes DEF ClaimFails
  <2> QED BY <1>4, <2>3, <2>4 DEF ClaimFails
<1>5. ASSUME NEW r \in Requests, Replay(r) PROVE Key!Next
  <2> DEFINE what == Told(call'[r])
  <2>1. /\ call[r].reply = "none" /\ call'[r].reply = Existing(r)
        /\ \A s \in Requests : s # r => call'[s] = call[s]
        /\ \A s \in Requests : Executing(s)' = Executing(s)
    BY <1>0, <1>5, PcSets
       DEF Replay, Reply, TypeOK, CallType, Executing, IInv, Programme, CallOK
  <2>2. ToldTo' = [ToldTo EXCEPT ![r] = what] /\ ToldTo[r] = "nothing"
    BY <2>1 DEF ToldTo, Told
  <2>3. Existing(r) # "none"
    BY DEF Existing
  <2>4. /\ what \in {"ok", "new_attempt", "other"}
        /\ what # "other" => what = Existing(r) /\ Existing(r) = row.reply
    BY <1>0, <1>5, <2>1, <2>3
       DEF Replay, Told, StartOver, Existing, TypeOK, RowType, Outcomes
  <2>5. what # "other" => Phase = "shut"
    BY <1>0, <1>5, <2>3, <2>4
       DEF Replay, Phase, IInv, ProcessingHasNoReply, OwnerHasRow
  <2>6. TrueOfKey(what)
    BY <1>5, <2>4 DEF Replay, TrueOfKey, IInv, HonestAnswers, Honest
  <2>7. UNCHANGED <<Phase, written>>
    BY <1>5, <2>1 DEF Replay, Phase
  <2> HIDE DEF what
  <2> QED BY <2>2, <2>4, <2>5, <2>6, <2>7, KeyAnswers
<1>6. ASSUME NEW r \in Requests,
             Validate(r) \/ Checkpoint(r) \/ Note(r) \/ Release(r) \/ Cancel(r)
      PROVE  Key!Next \/ UNCHANGED Key!vars
  <2>1. Executing(r) /\ UNCHANGED written
    BY <1>6, PcSets DEF Validate, Checkpoint, Note, Release, Cancel, Executing,
       ExecutingPcs, UndoPcs
  <2>2. \A s \in Requests : s # r => call'[s] = call[s]
    BY <1>0, <1>6 DEF Validate, Checkpoint, Note, Release, Cancel, Goto, Throw, TypeOK
  <2>3. Executing(r)'
    BY <1>0, <1>6, <2>1, RunsOn
  <2> QED BY <1>0, <2>1, <2>2, <2>3, OwnerStepKeepsPromise
<1>7. ASSUME NEW r \in Requests, Write(r) PROVE Key!Next \/ UNCHANGED Key!vars
  <2>1. Executing(r) /\ (written' # {} \/ UNCHANGED written)
    BY <1>7, PcSets DEF Write, Effect, Executing
  <2>2. \A s \in Requests : s # r => call'[s] = call[s]
    BY <1>0, <1>7 DEF Write, Throw, TypeOK
  <2>3. Executing(r)'
    BY <1>0, <1>7, RunsOn
  <2> QED BY <1>0, <2>1, <2>2, <2>3, OwnerStepKeepsPromise
<1>8. ASSUME NEW r \in Requests, Settle(r) \/ SettleFails(r) PROVE Key!Next
  <2> DEFINE what == Told(call'[r])
  <2>1. /\ Executing(r) /\ call[r].pc = "settle" /\ call[r].reply = "none"
        /\ \A s \in Requests : s # r => call'[s] = call[s]
        /\ call'[r].pc = "done"
        /\ call'[r].reply \in {Outcome(call[r]), "recovery"}
        /\ UNCHANGED written
    BY <1>0, <1>8 DEF Settle, SettleFails, Reply, TypeOK, CallType, Executing,
       ExecutingPcs, IInv, Programme, CallOK
  <2>2. Phase = "open"
    BY <1>0, <2>1, OwnerIsOpen
  <2>3. \A s \in Requests : ~Executing(s)'
    BY <2>1, PcSets DEF IInv, OneOwner, Executing
  <2>4. row' # NoRow
    BY <1>0, <1>8, <2>1 DEF Settle, SettleFails, Settled, OwnerHasRow, NoRow, TypeOK,
       RowType
  <2>5. Phase' = "shut"
    BY <2>3, <2>4 DEF Phase
  <2>6. TrueOfKey(what)
    <3>1. Honest(call'[r].reply)
      BY <1>0, <2>1 DEF IInv, HonestAnswers, Honest
    <3>2. call'[r].reply \notin {"none", "refused"}
      BY <2>1, OutcomeType DEF Outcomes
    <3> QED BY <2>1, <3>1, <3>2 DEF TrueOfKey, Told, StartOver, Honest
  <2>7. ToldTo' = [ToldTo EXCEPT ![r] = what] /\ ToldTo[r] = "nothing"
    BY <2>1 DEF ToldTo, Told
  <2> HIDE DEF what
  <2> QED BY <2>1, <2>2, <2>5, <2>6, <2>7, KeyFinishes
<1>9. CASE Age \/ Lapse \/ Others
  <2>1. UNCHANGED <<row, call, written>>
    BY <1>9 DEF Age, Lapse, Others, Sweep, Confirm, AdminReads, AdminReleases, AdminCancels
  <2> QED BY <2>1, KeyStutters DEF Phase, ToldTo, Executing, Told
<1>10. CASE Tombstone
  <2>1. row # NoRow /\ row' # NoRow /\ UNCHANGED <<call, written>>
    BY <1>0, <1>10 DEF Tombstone, TypeOK, RowType, NoRow
  <2> QED BY <2>1, KeyStutters DEF Phase, ToldTo, Executing, Told
<1>11. CASE Evict
  <2>1. PICK r \in Requests : Executing(r)
    BY <1>11 DEF Evict
  <2>2. Phase = "open"
    BY <1>0, <2>1, OwnerIsOpen
  <2>3. ASSUME NEW s \in Requests
        PROVE  /\ ~Executing(s)'
               /\ \/ call'[s] = call[s]
                  \/ call[s].reply = "none" /\ call'[s].reply = "unknown"
    <3>1. \/ call'[s] = call[s] /\ ~Executing(s)
          \/ /\ call'[s].pc = "done" /\ call'[s].reply = "unknown"
             /\ (Executing(s) \/ call[s].pc = "claim")
      BY <1>0, <1>11 DEF Evict, TypeOK, CallType
    <3>2. Executing(s) \/ call[s].pc = "claim" => call[s].reply = "none"
      BY PcSets DEF Executing, IInv, Programme, CallOK
    <3> QED BY <3>1, <3>2, PcSets DEF Executing
  <2>4. Phase' = "shut"
    BY <1>0, <1>11, <2>1, <2>3 DEF Evict, Phase, OwnerHasRow
  <2>6. \A s \in Requests : \/ ToldTo'[s] = ToldTo[s]
                            \/ ToldTo[s] = "nothing" /\ ToldTo'[s] = "other"
    BY <2>3 DEF ToldTo, Told, StartOver
  <2>7. UNCHANGED written
    BY <1>11 DEF Evict
  <2> QED BY <2>2, <2>4, <2>6, <2>7, KeyAbandons
<1> QED
  BY <1>1, <1>2, <1>3, <1>4, <1>5, <1>6, <1>7, <1>8, <1>9, <1>10, <1>11, <1>12
     DEF Next, Step

\* The checkout implements OnceOnly: one call at a time works for the key, the
\* work ends once, and what a call is told agrees with what was written, except
\* for the calls that are refused before the key is looked at.
THEOREM PromiseKept == Spec => KeepsPromise
<1>1. Spec => [](IInv /\ ReadFirst)
  BY Invariance, ReadInvariance, PTL
<1> QED BY <1>1, PromiseInit, PromiseStep, PTL DEF Spec, KeepsPromise, Key!Spec

=============================================================================

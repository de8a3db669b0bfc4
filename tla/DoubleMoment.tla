---------------------------- MODULE DoubleMoment ----------------------------
(***************************************************************************)
(* The coordinator of a client's Double Moment credits                     *)
(* (payments-worker/double-moment-v2.js, double-moment-checkout.js and     *)
(* double-moment-approvals.js).  A claim is bought once and gives two      *)
(* moments, each a paid and a bonus credit row in Airtable, which pay for  *)
(* one job each.  One Durable Object per client runs one handler at a time *)
(* (its promise tail), so nothing interleaves inside a handler: what is    *)
(* hard is that a handler may stop between any two of its writes, that a   *)
(* create may land after its sender stopped, and that the requests of the  *)
(* customer, the staff and the discount pages come in any order.           *)
(* Time is counted in months since the purchase.                           *)
(***************************************************************************)
EXTENDS Naturals, Sequences, FiniteSets

CONSTANTS
    Claims, Jobs, None,
    Active,         \* the claims activated before the behaviour begins
    Redeems,        \* the pairs <<claim, job>> a customer may check out
    Direct,         \* those the redeem route may be called with
    Changing,       \* the jobs that change outside this coordinator, once,
                    \* and whose approvals lapse
    Billable,       \* the jobs whose final payment the staff ask for
    Discounts,      \* the mutations of a job's price: [job, id, kind]
    Extends,        \* the extension requests: [claim, from, to]
    Term, Longest,  \* months of validity at purchase, and after all extensions
    Start, MaxMonth,\* bounds of the clock
    MaxFaults       \* bound: handlers that stop in the middle

Kinds == {"coupon", "manual", "plain"}

ASSUME ClaimsAssumption ==
    /\ None \notin Claims
    /\ Active \subseteq Claims
    /\ Changing \subseteq Jobs /\ Billable \subseteq Jobs
    /\ Redeems \subseteq Claims \X Jobs
    /\ Direct \subseteq Claims \X Jobs
    /\ \A d \in Discounts : d.job \in Jobs /\ d.kind \in Kinds
    /\ \A q \in Extends : q.claim \in Claims /\ q.from \in Nat /\ q.to \in Nat

ASSUME BoundsAssumption ==
    /\ {Term, Longest, Start, MaxMonth, MaxFaults} \subseteq Nat
    /\ Start < Term /\ Term <= Longest /\ Start <= MaxMonth

VARIABLES
    (* the coordinator's storage *)
    journal,        \* activation: of each claim
    extension,      \* extension: of each claim
    receipts,       \* extension-receipt: the requests answered
    allocations,    \* redemption: the jobs each claim was used for, in order
    jobClaim,       \* job: the claim a job was used with
    discount,       \* discount: of each job
    approval,       \* approval:job: the snapshot approved, or None
    intent,         \* final-intent: of each job's session
    (* Airtable *)
    claimRow,       \* the claim: applied or not, and its expiry
    credit,         \* the four credit rows of each claim
    final,          \* the final payment of each job
    price,          \* the price of each job: full or discounted
    status,         \* what else the job's rows say: 0, or 1 once they change
    late,           \* creates sent by a handler that stopped
    (* the rest *)
    run,            \* the handler that runs
    now, faults

actor == <<journal, extension, receipts, allocations, jobClaim, discount, approval, intent>>
airtable == <<claimRow, credit, final, price, status, late>>
vars == <<actor, airtable, run, now, faults>>

-----------------------------------------------------------------------------
(* Credits and records *)

CreditOrder == << <<"paid", 1>>, <<"paid", 2>>, <<"bonus", 1>>, <<"bonus", 2>> >>
Credits == {CreditOrder[i] : i \in 1..4}
Moments == 2

First(S) == CreditOrder[CHOOSE i \in 1..4 :
                CreditOrder[i] \in S /\ \A k \in 1..(i - 1) : CreditOrder[k] \notin S]

Idle == [pc |-> "idle", claim |-> None, job |-> None, by |-> None, credit |-> FALSE, left |-> {}]
NoDiscount == [status |-> "none", id |-> None, snapshot |-> <<0, "full">>]

Init ==
    /\ journal = [c \in Claims |-> [status |-> IF c \in Active THEN "complete" ELSE "none",
                                    attempted |-> IF c \in Active THEN Credits ELSE {},
                                    expires |-> Term]]
    /\ extension = [c \in Claims |-> [status |-> "none", from |-> Term, to |-> Term]]
    /\ receipts = {}
    /\ allocations = [c \in Claims |-> <<>>]
    /\ jobClaim = [j \in Jobs |-> None]
    /\ discount = [j \in Jobs |-> NoDiscount]
    /\ approval = [j \in Jobs |-> None]
    /\ intent = [j \in Jobs |-> "none"]
    /\ claimRow = [c \in Claims |-> [applied |-> c \in Active, expires |-> Term]]
    /\ credit = [c \in Claims |-> [k \in Credits |->
                    [rows |-> IF c \in Active THEN 1 ELSE 0, used |-> FALSE, expires |-> Term]]]
    /\ final = [j \in Jobs |-> [rows |-> 0, credit |-> FALSE]]
    /\ price = [j \in Jobs |-> "full"]
    /\ status = [j \in Jobs |-> 0]
    /\ late = {}
    /\ run = Idle
    /\ now = Start
    /\ faults = 0

Goes(pc) == run' = [run EXCEPT !.pc = pc]
Ends == run' = Idle
Runs(pc, c, j) == run' = [Idle EXCEPT !.pc = pc, !.claim = c, !.job = j]

(* the expiry the journals give a claim *)
Expiry(c) == IF extension[c].status = "complete" THEN extension[c].to ELSE Term

-----------------------------------------------------------------------------
(* activate: the credit rows one by one, each journalled before its create *)

Activate(c) ==
    /\ run = Idle
    /\ extension[c].status # "pending"
    /\ claimRow[c].applied => journal[c].status # "none"
    /\ journal[c].expires = Expiry(c)
    /\ \A k \in Credits : credit[c][k].rows <= 1
    /\ \A k \in Credits : credit[c][k].rows = 1 => credit[c][k].expires = journal[c].expires
    /\ journal' = [journal EXCEPT ![c].status = IF @ = "none" THEN "begun" ELSE @]
    /\ run' = [Idle EXCEPT !.pc = "credits", !.claim = c,
                           !.left = {k \in Credits : credit[c][k].rows = 0}]
    /\ UNCHANGED <<extension, receipts, allocations, jobClaim, discount, approval, intent,
                   airtable, now, faults>>

(* mutant: a credit attempted before is created again *)
AttemptAgain ==
    /\ run.pc = "credits"
    /\ run.left # {}
    /\ journal' = [journal EXCEPT ![run.claim].attempted = @ \union {First(run.left)}]
    /\ Goes("create")
    /\ UNCHANGED <<extension, receipts, allocations, jobClaim, discount, approval, intent,
                   airtable, now, faults>>

(* a credit attempted before and without a row is left to a review *)
AttemptCredit ==
    LET c == run.claim
        k == First(run.left)
    IN
    /\ run.pc = "credits"
    /\ run.left # {}
    /\ IF k \in journal[c].attempted THEN Ends /\ UNCHANGED journal
       ELSE /\ journal' = [journal EXCEPT ![c].attempted = @ \union {k}]
            /\ Goes("create")
    /\ UNCHANGED <<extension, receipts, allocations, jobClaim, discount, approval, intent,
                   airtable, now, faults>>

Created(c, k) ==
    [credit EXCEPT ![c][k].rows = @ + 1, ![c][k].expires = journal[c].expires]

CreateCredit ==
    /\ run.pc = "create"
    /\ credit' = Created(run.claim, First(run.left))
    /\ run' = [run EXCEPT !.pc = "credits", !.left = @ \ {First(run.left)}]
    /\ UNCHANGED <<actor, claimRow, final, price, status, late, now, faults>>

ApplyClaim ==
    LET c == run.claim IN
    /\ run.pc = "credits"
    /\ run.left = {}
    /\ claimRow' = [claimRow EXCEPT ![c] = [applied |-> TRUE, expires |-> journal[c].expires]]
    /\ Goes("applied")
    /\ UNCHANGED <<actor, credit, final, price, status, late, now, faults>>

ActivateDone ==
    /\ run.pc = "applied"
    /\ journal' = [journal EXCEPT ![run.claim].status = "complete"]
    /\ Ends
    /\ UNCHANGED <<extension, receipts, allocations, jobClaim, discount, approval, intent,
                   airtable, now, faults>>

-----------------------------------------------------------------------------
(* extend: a request that did not finish must be sent again before another *)

(* mutant: no limit of the extensions *)
ExtendUnlimited(q) ==
    LET c == q.claim IN
    /\ run = Idle
    /\ claimRow[c].applied /\ journal[c].status = "complete"
    /\ q.to > now
    /\ q \notin receipts
    /\ extension[c].status = "pending" => extension[c].from = q.from /\ extension[c].to = q.to
    /\ claimRow[c].expires \in {q.from, q.to}
    /\ extension' = [extension EXCEPT ![c] = [status |-> "pending", from |-> q.from, to |-> q.to]]
    /\ run' = [Idle EXCEPT !.pc = "extend", !.claim = c, !.by = q]
    /\ UNCHANGED <<journal, receipts, allocations, jobClaim, discount, approval, intent,
                   airtable, now, faults>>

(* mutant: the bonus credits keep their expiry *)
UnextendedPaid(c) == {k \in Credits : k[1] = "paid" /\ credit[c][k].expires # extension[c].to}

MayExtend(q) ==
    LET c == q.claim
        held == extension[c].status = "pending"
    IN
    /\ claimRow[c].applied /\ journal[c].status = "complete"
    /\ q.to <= Longest /\ q.to > now
    /\ q \notin receipts
    /\ IF held THEN extension[c].from = q.from /\ extension[c].to = q.to
       ELSE claimRow[c].expires = Expiry(c) /\ q.from = Expiry(c) /\ q.to > q.from
    /\ {claimRow[c].expires, journal[c].expires} \subseteq {q.from, q.to}
    /\ \A k \in Credits : credit[c][k].rows = 1 /\ credit[c][k].expires \in {q.from, q.to}
    /\ \E k \in Credits : ~credit[c][k].used

Extend(q) ==
    /\ run = Idle
    /\ MayExtend(q)
    /\ extension' = [extension EXCEPT ![q.claim] = [status |-> "pending", from |-> q.from, to |-> q.to]]
    /\ run' = [Idle EXCEPT !.pc = "extend", !.claim = q.claim, !.by = q]
    /\ UNCHANGED <<journal, receipts, allocations, jobClaim, discount, approval, intent,
                   airtable, now, faults>>

Unextended(c) == {k \in Credits : credit[c][k].expires # extension[c].to}

ExtendCredit ==
    LET c == run.claim IN
    /\ run.pc = "extend"
    /\ Unextended(c) # {}
    /\ credit' = [credit EXCEPT ![c][First(Unextended(c))].expires = extension[c].to]
    /\ UNCHANGED <<actor, claimRow, final, price, status, late, run, now, faults>>

ExtendClaim ==
    LET c == run.claim IN
    /\ run.pc = "extend"
    /\ Unextended(c) = {}
    /\ claimRow' = [claimRow EXCEPT ![c].expires = extension[c].to]
    /\ Goes("extended")
    /\ UNCHANGED <<actor, credit, final, price, status, late, now, faults>>

ExtendDone ==
    LET c == run.claim IN
    /\ run.pc = "extended"
    /\ journal' = [journal EXCEPT ![c].expires = extension[c].to]
    /\ extension' = [extension EXCEPT ![c].status = "complete"]
    /\ receipts' = receipts \union {run.by}
    /\ Ends
    /\ UNCHANGED <<allocations, jobClaim, discount, approval, intent, airtable, now, faults>>

-----------------------------------------------------------------------------
(* redeem: the allocation and the job's claim are stored together, before  *)
(* the two credits are debited one by one                                  *)

Allocated(c, j) == {i \in 1..Len(allocations[c]) : allocations[c][i].job = j}

(* canonicalJobEvidence: the hash of what the job's rows say *)
snapshot(j) == <<status[j], price[j]>>

(* canonicalJob: the approval is of the job as it is now, without discount *)
Approved(j) == price[j] = "full" /\ approval[j] = snapshot(j)

(* mutant: the job may be used with another claim *)
RedeemableTwice(c, j) ==
    /\ discount[j].status \in {"none", "cancelled"}
    /\ claimRow[c].applied /\ journal[c].status = "complete"
    /\ extension[c].status # "pending"
    /\ claimRow[c].expires = journal[c].expires /\ journal[c].expires = Expiry(c)
    /\ claimRow[c].expires > now
    /\ Approved(j)

(* mutant: an allocation is never taken up again *)
RedeemableOnce(c, j) == RedeemableTwice(c, j) /\ jobClaim[j] = None

Redeemable(c, j) ==
    /\ discount[j].status \in {"none", "cancelled"}
    /\ claimRow[c].applied /\ journal[c].status = "complete"
    /\ extension[c].status # "pending"
    /\ claimRow[c].expires = journal[c].expires /\ journal[c].expires = Expiry(c)
    /\ claimRow[c].expires > now
    /\ Approved(j)
    /\ jobClaim[j] \in {None, c}

(* what the journal says of a job: nothing, or an allocation, which counts *)
(* only once it is complete                                                *)
Confirmed(c, j) ==
    /\ journal[c].status = "complete" /\ claimRow[c].applied
    /\ claimRow[c].expires = journal[c].expires
    /\ extension[c].status # "pending"
    /\ \A k \in Credits : credit[c][k].rows = 1 /\ credit[c][k].expires = claimRow[c].expires
    /\ \E i \in Allocated(c, j) :
        /\ allocations[c][i].complete
        /\ \A k \in Credits : k[2] = i => credit[c][k].used

(* mutant: nothing is compared *)
ComparableAlways(c, j) == \A k \in Credits : credit[c][k].rows = 1

(* checkout, before the first write: no final payment of another amount    *)
Comparable(c, j) ==
    /\ \A k \in Credits : credit[c][k].rows = 1 /\ credit[c][k].expires = credit[c][<<"paid", 1>>].expires
    /\ final[j].rows <= 1
    /\ final[j].rows = 1 => final[j].credit
    /\ intent[j] # "none" => final[j].rows = 1

MayRedeem(c, j, checkout) ==
    /\ IF checkout THEN <<c, j>> \in Redeems /\ (jobClaim[j] = None => Comparable(c, j))
       ELSE <<c, j>> \in Direct
    /\ Redeemable(c, j)
    /\ Allocated(c, j) = {} => Len(allocations[c]) < Moments

Redeem(c, j, checkout) ==
    LET done == \E i \in Allocated(c, j) : allocations[c][i].complete IN
    /\ run = Idle
    /\ MayRedeem(c, j, checkout)
    /\ IF Allocated(c, j) # {} THEN UNCHANGED <<allocations, jobClaim>>
       ELSE /\ allocations' = [allocations EXCEPT ![c] = Append(@, [job |-> j, complete |-> FALSE])]
            /\ jobClaim' = [jobClaim EXCEPT ![j] = c]
    /\ run' = [Idle EXCEPT !.pc = IF ~done THEN "debit" ELSE IF checkout THEN "final" ELSE "idle",
                           !.claim = IF done /\ ~checkout THEN None ELSE c,
                           !.job = IF done /\ ~checkout THEN None ELSE j,
                           !.by = IF checkout THEN "checkout" ELSE None]
    /\ UNCHANGED <<journal, extension, receipts, discount, approval, intent, airtable, now, faults>>

Checkout(c, j) == Redeem(c, j, TRUE)
RedeemDirect(c, j) == Redeem(c, j, FALSE)

(* mutant: the bonus credit is forgotten *)
UndebitedPaid(c, j) ==
    {k \in Credits : k[1] = "paid" /\ k[2] \in Allocated(c, j) /\ ~credit[c][k].used}

(* the credits of the job's moment that are still available *)
Undebited(c, j) == {k \in Credits : k[2] \in Allocated(c, j) /\ ~credit[c][k].used}

Debit ==
    LET c == run.claim
        left == Undebited(c, run.job)
    IN
    /\ run.pc = "debit"
    /\ left # {}
    /\ credit' = [credit EXCEPT ![c][First(left)].used = TRUE]
    /\ UNCHANGED <<actor, claimRow, final, price, status, late, run, now, faults>>

DebitDone ==
    LET c == run.claim
        j == run.job
    IN
    /\ run.pc = "debit"
    /\ Undebited(c, j) = {}
    /\ allocations' = [allocations EXCEPT ![c] = [i \in DOMAIN @ |->
                            IF @[i].job = j THEN [@[i] EXCEPT !.complete = TRUE] ELSE @[i]]]
    /\ IF run.by = "checkout" THEN Goes("final") ELSE Ends
    /\ UNCHANGED <<journal, extension, receipts, jobClaim, discount, approval, intent,
                   airtable, now, faults>>

-----------------------------------------------------------------------------
(* finalIntent: the final payment for what the credits leave to pay        *)

FinalIntent(j) ==
    /\ run = Idle
    /\ Runs("final", None, j)
    /\ UNCHANGED <<actor, airtable, now, faults>>

ReadFinal ==
    LET j == run.job
        c == jobClaim[j]
        paid == c # None
    IN
    /\ run.pc = "final"
    /\ IF (paid /\ ~Confirmed(c, j)) \/ final[j].rows > 1 THEN Ends /\ UNCHANGED intent
       ELSE IF final[j].rows = 1
       THEN IF final[j].credit # paid THEN Ends /\ UNCHANGED intent
            ELSE Ends /\ intent' = [intent EXCEPT ![j] = "complete"]
       ELSE IF intent[j] # "none" THEN Ends /\ UNCHANGED intent
       ELSE /\ intent' = [intent EXCEPT ![j] = "pending"]
            /\ run' = [run EXCEPT !.pc = "create final", !.credit = paid]
    /\ UNCHANGED <<journal, extension, receipts, allocations, jobClaim, discount, approval,
                   airtable, now, faults>>

Billed(j, paid) == [final EXCEPT ![j] = [rows |-> @.rows + 1, credit |-> paid]]

CreateFinal ==
    /\ run.pc = "create final"
    /\ final' = Billed(run.job, run.credit)
    /\ Goes("billed")
    /\ UNCHANGED <<actor, claimRow, credit, price, status, late, now, faults>>

FinalDone ==
    /\ run.pc = "billed"
    /\ intent' = [intent EXCEPT ![run.job] = "complete"]
    /\ Ends
    /\ UNCHANGED <<journal, extension, receipts, allocations, jobClaim, discount, approval,
                   airtable, now, faults>>

-----------------------------------------------------------------------------
(* Approvals, and the mutations of a price, which run inside the actor     *)

Approve(j) ==
    /\ run = Idle
    /\ approval[j] = None
    /\ discount[j].status \in {"none", "cancelled"}
    /\ price[j] = "full"
    /\ approval' = [approval EXCEPT ![j] = snapshot(j)]
    /\ UNCHANGED <<journal, extension, receipts, allocations, jobClaim, discount, intent,
                   airtable, run, now, faults>>

(* the staff revoke it, or its time is over *)
Revoke(j) ==
    /\ run = Idle
    /\ approval[j] # None
    /\ approval' = [approval EXCEPT ![j] = None]
    /\ UNCHANGED <<journal, extension, receipts, allocations, jobClaim, discount, intent,
                   airtable, run, now, faults>>

Mutate(d) ==
    /\ run = Idle
    /\ jobClaim[d.job] = None
    /\ approval' = IF d.kind = "coupon" THEN approval ELSE [approval EXCEPT ![d.job] = None]
    /\ run' = [Idle EXCEPT !.pc = IF d.kind = "plain" THEN "price" ELSE "discount",
                           !.job = d.job, !.by = d]
    /\ UNCHANGED <<journal, extension, receipts, allocations, jobClaim, discount, intent,
                   airtable, now, faults>>

(* discount-begin: one operation at a time, and the approval is revoked *)
DiscountBegin ==
    LET j == run.job
        d == discount[j]
        open == d.status \in {"none", "cancelled"}
    IN
    /\ run.pc = "discount"
    /\ IF (~open /\ d.id # run.by.id) \/ jobClaim[j] # None
       THEN Ends /\ UNCHANGED <<discount, approval>>
       ELSE /\ discount' = IF ~open THEN discount
                  ELSE [discount EXCEPT ![j] = [status |-> "pending", id |-> run.by.id, snapshot |-> snapshot(j)]]
            /\ approval' = [approval EXCEPT ![j] = None]
            /\ Goes("price")
    /\ UNCHANGED <<journal, extension, receipts, allocations, jobClaim, intent, airtable, now, faults>>

(* the promotion service may refuse a coupon: the operation stays pending *)
PromoRefused ==
    /\ run.pc = "price"
    /\ run.by.kind = "coupon"
    /\ Ends
    /\ UNCHANGED <<actor, airtable, now, faults>>

SetPrice ==
    LET j == run.job
        next == IF run.by.kind = "plain" THEN "full" ELSE "discounted"
    IN
    /\ run.pc = "price"
    /\ price' = [price EXCEPT ![j] = next]
    /\ IF run.by.kind = "plain" THEN Ends ELSE Goes("priced")
    /\ UNCHANGED <<actor, claimRow, credit, final, status, late, now, faults>>

DiscountDone ==
    /\ run.pc = "priced"
    /\ discount' = [discount EXCEPT ![run.job].status = "applied"]
    /\ Ends
    /\ UNCHANGED <<journal, extension, receipts, allocations, jobClaim, approval, intent,
                   airtable, now, faults>>

(* resolve-discount: a cancellation only of a job that reads as it did     *)
Resolve(j, resolution) ==
    /\ run = Idle
    /\ discount[j].status # "none"
    /\ resolution = "cancelled" => snapshot(j) = discount[j].snapshot
    /\ discount' = [discount EXCEPT ![j].status = resolution]
    /\ UNCHANGED <<journal, extension, receipts, allocations, jobClaim, approval, intent,
                   airtable, run, now, faults>>

-----------------------------------------------------------------------------
(* The rest of the world *)

(* another worker changes the job's status: its approval no longer fits it *)
JobMoves(j) ==
    /\ run = Idle
    /\ status[j] = 0
    /\ status' = [status EXCEPT ![j] = 1]
    /\ UNCHANGED <<actor, claimRow, credit, final, price, late, run, now, faults>>

(* the time is read only when a handler begins *)
Month ==
    /\ run = Idle
    /\ now < MaxMonth
    /\ now' = now + 1
    /\ UNCHANGED <<actor, airtable, run, faults>>

Sent == IF run.pc = "create" THEN {<<"credit", run.claim, First(run.left)>>}
        ELSE IF run.pc = "create final" THEN {<<"final", run.job, run.credit>>}
        ELSE {}

(* the actor is evicted, or a call fails; a create may be on its way *)
Stop ==
    /\ run # Idle
    /\ faults < MaxFaults
    /\ faults' = faults + 1
    /\ late' \in {late, late \union Sent}
    /\ Ends
    /\ UNCHANGED <<actor, claimRow, credit, final, price, status, now>>

Land(w) ==
    /\ w \in late
    /\ late' = late \ {w}
    /\ IF w[1] = "credit" THEN credit' = Created(w[2], w[3]) /\ UNCHANGED final
       ELSE final' = Billed(w[2], w[3]) /\ UNCHANGED credit
    /\ UNCHANGED <<actor, claimRow, price, status, run, now, faults>>

Steps ==
    \/ AttemptCredit \/ CreateCredit \/ ApplyClaim \/ ActivateDone
    \/ ExtendCredit \/ ExtendClaim \/ ExtendDone
    \/ Debit \/ DebitDone
    \/ ReadFinal \/ CreateFinal \/ FinalDone
    \/ DiscountBegin \/ SetPrice \/ DiscountDone

Requests ==
    \/ \E c \in Claims : Activate(c)
    \/ \E q \in Extends : Extend(q)
    \/ \E c \in Claims, j \in Jobs : Checkout(c, j) \/ RedeemDirect(c, j)
    \/ \E d \in Discounts : Mutate(d)
    \/ \E j \in Billable : FinalIntent(j)
    \/ \E j \in Changing : Revoke(j)
    \/ \E j \in Jobs : \/ Approve(j)
                       \/ \E resolution \in {"applied", "cancelled"} : Resolve(j, resolution)

Next ==
    \/ Steps \/ PromoRefused \/ Requests
    \/ Stop \/ Month
    \/ \E j \in Changing : JobMoves(j)
    \/ \E w \in late : Land(w)

Spec == Init /\ [][Next]_vars

-----------------------------------------------------------------------------
(* Properties *)

CreditStates == [rows : Nat, used : BOOLEAN, expires : Nat]

(* Every variable keeps the shape the code gives it. *)
TypeOK ==
    /\ \A c \in Claims :
        /\ journal[c].status \in {"none", "begun", "complete"}
        /\ journal[c].attempted \subseteq Credits
        /\ journal[c].expires \in Term..Longest
        /\ extension[c].status \in {"none", "pending", "complete"}
        /\ \A i \in 1..Len(allocations[c]) : allocations[c][i].job \in Jobs
        /\ claimRow[c].expires \in Term..Longest
        /\ credit[c] \in [Credits -> CreditStates]
    /\ jobClaim \in [Jobs -> Claims \union {None}]
    /\ \A j \in Jobs : discount[j].status \in {"none", "pending", "applied", "cancelled"}
    /\ intent \in [Jobs -> {"none", "pending", "complete"}]
    /\ final \in [Jobs -> [rows : Nat, credit : BOOLEAN]]
    /\ price \in [Jobs -> {"full", "discounted"}]
    /\ \A j \in Jobs : approval[j] # None => approval[j] \in {0, 1} \X {"full"}
    /\ status \in [Jobs -> {0, 1}]
    /\ now \in Start..MaxMonth /\ faults \in 0..MaxFaults

(* The credits in Airtable follow the journals: a credit has one row at    *)
(* most, although a create whose answer was lost may still land after the  *)
(* activation is sent again; it is debited only for the job whose moment   *)
(* it is; and a moment that is complete has both its credits debited.      *)
CreditsFollowJournal ==
    \A c \in Claims : \A k \in Credits :
        /\ credit[c][k].rows <= 1
        /\ credit[c][k].used => k[2] <= Len(allocations[c])
        /\ k[2] <= Len(allocations[c]) /\ allocations[c][k[2]].complete => credit[c][k].used

(* Unless an extension is under way, the claim, its four credits and its   *)
(* journals have one expiry, wherever an activation or an extension        *)
(* stopped.                                                                *)
ExpiriesAgree ==
    \A c \in Claims :
        journal[c].status = "complete" /\ extension[c].status # "pending" =>
            /\ journal[c].expires = Expiry(c)
            /\ claimRow[c].expires = Expiry(c)
            /\ \A k \in Credits : credit[c][k].expires = Expiry(c)

(* The final payment of a job is billed once, and for what its credits     *)
(* leave: never the whole balance of a job whose credits are spent, never  *)
(* the reduced balance of one that has none.                               *)
BilledOnceForTheRest ==
    \A j \in Jobs :
        /\ final[j].rows <= 1
        /\ final[j].rows = 1 => (final[j].credit <=> jobClaim[j] # None)

HalfWay(c, j) == \E i \in Allocated(c, j) : ~allocations[c][i].complete

Wanted(c, j) ==
    /\ HalfWay(c, j)
    /\ Approved(j) /\ discount[j].status \in {"none", "cancelled"}
    /\ claimRow[c].expires > now
    /\ extension[c].status # "pending"

(* Whatever stopped half way can be taken up again: a debit as long as the *)
(* job is approved, without discount, and the credits have not expired; an *)
(* extension until the expiry it asks for.  Neither is ever locked out by  *)
(* what the stopped handler wrote.                                         *)
Resumable ==
    run = Idle =>
        /\ \A r \in Redeems : Wanted(r[1], r[2]) => ENABLED Checkout(r[1], r[2])
        /\ \A c \in Claims : extension[c].status = "pending" /\ extension[c].to > now =>
                \E q \in Extends : q.claim = c /\ ENABLED Extend(q)

given == [c \in Claims |-> {allocations[c][i].job : i \in 1..Len(allocations[c])}]
settled == {j \in Jobs : \E c \in Claims : \E i \in Allocated(c, j) : allocations[c][i].complete}
discounted == {j \in Jobs : price[j] = "discounted"}

Wallet == INSTANCE MomentWallet WITH given <- given, settled <- settled, discounted <- discounted

(* The journals, the credits and the prices together keep the promise: two *)
(* jobs per claim, one claim per job, and never a discount beside credits. *)
KeepsWallet == Wallet!Spec
=============================================================================

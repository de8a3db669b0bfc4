------------------------- MODULE DoubleMomentProofs -------------------------
(***************************************************************************)
(* Proofs about DoubleMoment, for any claims, jobs, requests, mutations,   *)
(* months and any number of handlers that stop.  The inductive invariant   *)
(* has a part for each journal: the credit rows with the creates that are  *)
(* still on their way, the expiries, the allocations with the debits, and  *)
(* the bills; and each part says what the handler that runs relies on.     *)
(***************************************************************************)
EXTENDS DoubleMoment, FiniteSetTheorems, SequenceTheorems, TLAPS

-----------------------------------------------------------------------------
(* Types.                                                                  *)

Months == Term..Longest
Snapshots == {0, 1} \X {"full", "discounted"}
Ids == {None} \cup {d.id : d \in Discounts}
Allocation == [job : Jobs, complete : BOOLEAN]
JournalType ==
    [status : {"none", "begun", "complete"}, attempted : SUBSET Credits, expires : Months]
ExtensionType == [status : {"none", "pending", "complete"}, from : Nat, to : Months]
DiscountType ==
    [status : {"none", "pending", "applied", "cancelled"}, id : Ids, snapshot : Snapshots]
CreditType == [rows : Nat, used : BOOLEAN, expires : Months]

ActivationPcs == {"credits", "create", "applied"}
ExtensionPcs == {"extend", "extended"}
BillingPcs == {"final", "create final", "billed"}
PricingPcs == {"discount", "price", "priced"}
Pcs == {"idle", "debit"} \cup ActivationPcs \cup ExtensionPcs \cup BillingPcs \cup PricingPcs

RunType ==
    [pc : Pcs, claim : Claims \cup {None}, job : Jobs \cup {None},
     by : Discounts \cup Extends \cup {"checkout", None}, credit : BOOLEAN,
     left : SUBSET Credits]

LateType == ({"credit"} \X Claims \X Credits) \cup ({"final"} \X Jobs \X BOOLEAN)

ActorTypes ==
    /\ journal \in [Claims -> JournalType]
    /\ extension \in [Claims -> ExtensionType]
    /\ allocations \in [Claims -> Seq(Allocation)]
    /\ jobClaim \in [Jobs -> Claims \cup {None}]
    /\ discount \in [Jobs -> DiscountType]
    /\ approval \in [Jobs -> {None} \cup ({0, 1} \X {"full"})]
    /\ intent \in [Jobs -> {"none", "pending", "complete"}]

AirtableTypes ==
    /\ claimRow \in [Claims -> [applied : BOOLEAN, expires : Months]]
    /\ credit \in [Claims -> [Credits -> CreditType]]
    /\ final \in [Jobs -> [rows : Nat, credit : BOOLEAN]]
    /\ price \in [Jobs -> {"full", "discounted"}]
    /\ status \in [Jobs -> {0, 1}]
    /\ late \subseteq LateType

\* Which fields of the handler are set depends on where it is.
RunFields(h) ==
    /\ h \in RunType
    /\ h.pc \in ActivationPcs \cup ExtensionPcs \cup {"debit"} => h.claim \in Claims
    /\ h.pc \in BillingPcs \cup PricingPcs \cup {"debit"} => h.job \in Jobs
    /\ h.pc = "create" => h.left # {}
    /\ h.pc = "applied" => h.left = {}
    /\ h.pc \in PricingPcs => h.by \in Discounts

Types ==
    /\ ActorTypes
    /\ AirtableTypes
    /\ RunFields(run)
    /\ now \in Start..MaxMonth
    /\ faults \in 0..MaxFaults

-----------------------------------------------------------------------------
(* The credit rows: one create is ever sent for a credit.                  *)

Creating(c, k) == run.pc = "create" /\ run.claim = c /\ First(run.left) = k

RowOK(rows, attempted, sent, creating) ==
    /\ rows <= 1
    /\ rows = 1 => attempted /\ ~sent /\ ~creating
    /\ sent => attempted /\ ~creating
    /\ creating => attempted

CreatedOnce ==
    \A c \in Claims : \A k \in Credits :
        RowOK(credit[c][k].rows, k \in journal[c].attempted, <<"credit", c, k>> \in late,
              Creating(c, k))

CompleteHasRows ==
    \A c \in Claims : journal[c].status = "complete" => \A k \in Credits : credit[c][k].rows = 1

\* What an activation has created before its present point.
ActivationOK(h, ext, cr) ==
    h.pc \in ActivationPcs =>
        /\ ext[h.claim].status # "pending"
        /\ \A k \in Credits \ h.left : cr[h.claim][k].rows = 1

-----------------------------------------------------------------------------
(* The expiries.                                                           *)

ExtendedWhenComplete ==
    \A c \in Claims : journal[c].status # "complete" => extension[c].status = "none"

OneExpiry ==
    \A c \in Claims : extension[c].status # "pending" =>
        /\ journal[c].expires = Expiry(c)
        /\ claimRow[c].expires = Expiry(c)
        /\ \A k \in Credits : credit[c][k].expires = Expiry(c)

\* What an extension has extended before its present point.
ExtensionOK(h, jr, ext, row, cr) ==
    h.pc \in ExtensionPcs =>
        /\ jr[h.claim].status = "complete"
        /\ ext[h.claim].status = "pending"
        /\ h.pc = "extended" =>
            /\ row[h.claim].expires = ext[h.claim].to
            /\ \A k \in Credits : cr[h.claim][k].expires = ext[h.claim].to

-----------------------------------------------------------------------------
(* The allocations and the debits.                                         *)

JobsOf(s) == {s[i].job : i \in 1..Len(s)}

\* The allocations and the claims of the jobs are one relation.
ClaimedOnce ==
    /\ \A c \in Claims : Len(allocations[c]) <= Moments
    /\ \A c \in Claims : \A j \in JobsOf(allocations[c]) : jobClaim[j] = c
    /\ \A j \in Jobs : jobClaim[j] # None => j \in JobsOf(allocations[jobClaim[j]])

DebitsFollow ==
    \A c \in Claims : \A k \in Credits :
        /\ credit[c][k].used => k[2] <= Len(allocations[c])
        /\ k[2] <= Len(allocations[c]) /\ allocations[c][k[2]].complete => credit[c][k].used

\* A debit is of a job with the claim; a price changes only without one.
ClaimOK(h, of) ==
    /\ h.pc = "debit" => of[h.job] = h.claim
    /\ h.pc \in PricingPcs => of[h.job] = None

-----------------------------------------------------------------------------
(* The bills.                                                              *)

Billing(j, paid) == run.pc = "create final" /\ run.job = j /\ run.credit = paid
Pending(j, paid) == <<"final", j, paid>> \in late
Sending(j, paid) == Pending(j, paid) \/ Billing(j, paid)

\* One bill is ever sent for a job, and with the credits the job has.
BillOK(bill, int, whole, reduced, paid) ==
    /\ bill.rows <= 1
    /\ int = "none" \/ bill.rows = 1 => ~whole /\ ~reduced
    /\ int = "none" => bill.rows = 0
    /\ bill.rows = 1 => (bill.credit <=> paid)
    /\ whole => ~paid
    /\ reduced => paid

BilledOnce ==
    \A j \in Jobs :
        /\ BillOK(final[j], intent[j], Sending(j, FALSE), Sending(j, TRUE), jobClaim[j] # None)
        /\ ~(Pending(j, FALSE) /\ Billing(j, FALSE)) /\ ~(Pending(j, TRUE) /\ Billing(j, TRUE))

\* Only the staff bill a job that has no credits.
StaffBill ==
    \A j \in Jobs : jobClaim[j] = None /\ j \notin Billable => intent[j] = "none"

AskedFor(h, of) ==
    h.pc \in BillingPcs => h.job \in Billable \/ of[h.job] # None

-----------------------------------------------------------------------------
CreditInv ==
    /\ Types
    /\ CreatedOnce
    /\ CompleteHasRows
    /\ ActivationOK(run, extension, credit)
    /\ ExtendedWhenComplete
    /\ OneExpiry
    /\ ExtensionOK(run, journal, extension, claimRow, credit)

WalletInv ==
    /\ ClaimedOnce
    /\ DebitsFollow
    /\ ClaimOK(run, jobClaim)

BillInv ==
    /\ BilledOnce
    /\ StaffBill
    /\ AskedFor(run, jobClaim)

-----------------------------------------------------------------------------
(* Operators.                                                              *)

LEMMA CreditIndex ==
    /\ \A k \in Credits : k[2] \in 1..Moments
    /\ \A k \in Credits : \E i \in 1..4 : k = CreditOrder[i]
<1>1. \A i \in 1..4 : CreditOrder[i][2] \in 1..Moments
  BY DEF CreditOrder, Moments
<1> QED BY <1>1 DEF Credits

\* The first of some credits is one of them.
LEMMA FirstIsOne ==
    \A S \in SUBSET Credits : S # {} => First(S) \in S
<1> SUFFICES ASSUME NEW S \in SUBSET Credits, S # {} PROVE First(S) \in S
  OBVIOUS
<1> DEFINE Least(i) == /\ CreditOrder[i] \in S
                       /\ \A k \in 1..(i - 1) : CreditOrder[k] \notin S
<1>1. PICK i \in 1..4 : CreditOrder[i] \in S
  BY CreditIndex
<1>2. \E i2 \in 1..4 : Least(i2)
  <2>1. CASE CreditOrder[1] \in S
    <3>1. Least(1)
      BY <2>1
    <3> QED BY <3>1
  <2>2. CASE CreditOrder[1] \notin S /\ CreditOrder[2] \in S
    <3>1. Least(2)
      BY <2>2
    <3> QED BY <3>1
  <2>3. CASE CreditOrder[1] \notin S /\ CreditOrder[2] \notin S /\ CreditOrder[3] \in S
    <3>1. Least(3)
      BY <2>3
    <3> QED BY <3>1
  <2>4. CASE CreditOrder[1] \notin S /\ CreditOrder[2] \notin S /\ CreditOrder[3] \notin S
    <3>1. Least(4)
      BY <1>1, <2>4
    <3> QED BY <3>1
  <2> QED BY <2>1, <2>2, <2>3, <2>4
<1>3. Least(CHOOSE i2 \in 1..4 : Least(i2))
  BY <1>2
<1> QED BY <1>3 DEF First

LEMMA FirstCredit ==
    ASSUME NEW S, S \subseteq Credits, S # {}
    PROVE  First(S) \in S /\ First(S) \in Credits
BY FirstIsOne

LEMMA MonthsAreNat ==
    /\ Months \subseteq Nat /\ Term \in Months
    /\ {Term, Longest, Start, MaxMonth, MaxFaults} \subseteq Nat
    /\ Start \in Start..MaxMonth
BY BoundsAssumption DEF BoundsAssumption, Months

\* The allocations of s for job j, complete.
Completed(s, j) ==
    [i \in DOMAIN s |-> IF s[i].job = j THEN [s[i] EXCEPT !.complete = TRUE] ELSE s[i]]

LEMMA CompletedIsSequence ==
    ASSUME NEW s \in Seq(Allocation), NEW j
    PROVE  /\ Completed(s, j) \in Seq(Allocation)
           /\ Len(Completed(s, j)) = Len(s)
           /\ \A i \in 1..Len(s) :
                /\ Completed(s, j)[i].job = s[i].job
                /\ Completed(s, j)[i].complete <=> s[i].complete \/ s[i].job = j
<1> DEFINE t == Completed(s, j)
<1>1. DOMAIN s = 1..Len(s) /\ Len(s) \in Nat /\ \A i \in 1..Len(s) : s[i] \in Allocation
  BY LenProperties, ElementOfSeq
<1>2. \A i \in 1..Len(s) :
        /\ t[i] = IF s[i].job = j THEN [s[i] EXCEPT !.complete = TRUE] ELSE s[i]
        /\ t[i] \in Allocation
  BY <1>1 DEF Completed, Allocation
<1>3. t \in [1..Len(s) -> Allocation]
  BY <1>1, <1>2 DEF Completed
<1>4. t \in Seq(Allocation)
  BY <1>1, <1>3, SeqDef
<1>5. 1..Len(t) = 1..Len(s) /\ Len(t) \in Nat
  BY <1>1, <1>3, <1>4, LenProperties
<1>6. Len(t) = Len(s)
  <2> HIDE DEF t
  <2>1. \A m, n \in Nat : m < n => 1..m # 1..n
    <3> SUFFICES ASSUME NEW m \in Nat, NEW n \in Nat, m < n, 1..m = 1..n PROVE FALSE
      OBVIOUS
    <3>1. n \in 1..n /\ n \notin 1..m
      OBVIOUS
    <3> QED BY <3>1
  <2>2. ~(Len(t) < Len(s)) /\ ~(Len(s) < Len(t))
    BY <1>1, <1>5, <2>1
  <2> QED BY <1>1, <1>5, <2>2
<1>7. \A i \in 1..Len(s) : /\ t[i].job = s[i].job
                           /\ t[i].complete <=> s[i].complete \/ s[i].job = j
  BY <1>1, <1>2 DEF Allocation
<1> QED BY <1>4, <1>6, <1>7

-----------------------------------------------------------------------------
(* Type correctness.                                                       *)

LEMMA RunFieldsIdle == RunFields(Idle)
BY DEF RunFields, RunType, Idle, Pcs, ActivationPcs, ExtensionPcs, BillingPcs, PricingPcs

LEMMA TypesInit == Init => Types
<1> SUFFICES ASSUME Init PROVE Types
  OBVIOUS
<1> USE MonthsAreNat
<1>1. ActorTypes
  <2>1. allocations \in [Claims -> Seq(Allocation)]
    BY EmptySeq DEF Init
  <2>2. journal \in [Claims -> JournalType] /\ extension \in [Claims -> ExtensionType]
    BY DEF Init, JournalType, ExtensionType
  <2>3. discount \in [Jobs -> DiscountType]
    BY DEF Init, NoDiscount, DiscountType, Ids, Snapshots
  <2> QED BY <2>1, <2>2, <2>3 DEF Init, ActorTypes
<1>2. AirtableTypes
  <2>1. credit \in [Claims -> [Credits -> CreditType]]
    BY DEF Init, CreditType
  <2> QED BY <2>1 DEF Init, AirtableTypes
<1>3. RunFields(run)
  BY RunFieldsIdle DEF Init
<1>4. now \in Start..MaxMonth /\ faults \in 0..MaxFaults
  BY DEF Init
<1> QED BY <1>1, <1>2, <1>3, <1>4 DEF Types

\* Where a handler goes from here, with the fields it has.
LEMMA RunGoes ==
    ASSUME RunFields(run), NEW pc \in Pcs, Goes(pc),
           \/ run.pc \in ActivationPcs /\ pc \in ActivationPcs
           \/ run.pc \in ExtensionPcs /\ pc \in ExtensionPcs
           \/ run.pc \in BillingPcs \cup {"debit"} /\ pc \in BillingPcs
           \/ run.pc \in PricingPcs /\ pc \in PricingPcs,
           pc = "create" => run.left # {}, pc = "applied" => run.left = {}
    PROVE  /\ RunFields(run') /\ run'.pc = pc /\ run'.claim = run.claim /\ run'.job = run.job
           /\ run'.by = run.by /\ run'.credit = run.credit /\ run'.left = run.left
<1>1. run' \in RunType /\ run'.pc = pc /\ run'.claim = run.claim /\ run'.job = run.job
      /\ run'.by = run.by /\ run'.credit = run.credit /\ run'.left = run.left
  BY DEF Goes, RunFields, RunType
<1> QED
  BY <1>1 DEF RunFields, ActivationPcs, ExtensionPcs, BillingPcs, PricingPcs

LEMMA RunEnds == Ends => RunFields(run') /\ run' = Idle /\ run'.pc = "idle"
BY RunFieldsIdle DEF Ends, Idle

\* One record of a table changes, and keeps its type.
LEMMA RecordTypes ==
    ASSUME Types, NEW c \in Claims
    PROVE  /\ \A new \in JournalType : [journal EXCEPT ![c] = new] \in [Claims -> JournalType]
           /\ \A new \in ExtensionType : [extension EXCEPT ![c] = new] \in [Claims -> ExtensionType]
           /\ \A k \in Credits : \A new \in CreditType :
                [credit EXCEPT ![c][k] = new] \in [Claims -> [Credits -> CreditType]]
           /\ journal[c] \in JournalType /\ extension[c] \in ExtensionType
           /\ \A k \in Credits : credit[c][k] \in CreditType
<1>1. \A k \in Credits : \A new \in CreditType :
        [credit[c] EXCEPT ![k] = new] \in [Credits -> CreditType]
  BY DEF Types, AirtableTypes
<1>2. \A k \in Credits : \A new \in CreditType :
        [credit EXCEPT ![c][k] = new] \in [Claims -> [Credits -> CreditType]]
  BY <1>1 DEF Types, AirtableTypes
<1> QED BY <1>2 DEF Types, ActorTypes, AirtableTypes

LEMMA CreditUpdates ==
    \A old \in CreditType : \A month \in Months :
        /\ [old EXCEPT !.expires = month] \in CreditType
        /\ [old EXCEPT !.used = TRUE] \in CreditType
        /\ \A n \in Nat : [old EXCEPT !.rows = n, !.expires = month] \in CreditType
BY DEF CreditType

LEMMA CreatedType ==
    ASSUME Types, NEW c \in Claims, NEW k \in Credits
    PROVE  Created(c, k) \in [Claims -> [Credits -> CreditType]]
<1>1. /\ credit[c][k] \in CreditType /\ credit[c][k].rows + 1 \in Nat
      /\ journal[c].expires \in Months
  BY RecordTypes DEF JournalType, CreditType
<1>2. [credit[c][k] EXCEPT !.rows = credit[c][k].rows + 1, !.expires = journal[c].expires]
        \in CreditType
  BY <1>1, CreditUpdates
<1>3. Created(c, k) =
        [credit EXCEPT ![c][k] = [credit[c][k] EXCEPT !.rows = credit[c][k].rows + 1,
                                                      !.expires = journal[c].expires]]
  BY DEF Created, Types, AirtableTypes
<1> QED BY <1>2, <1>3, RecordTypes

LEMMA BilledType ==
    ASSUME Types, NEW j \in Jobs, NEW paid \in BOOLEAN
    PROVE  Billed(j, paid) \in [Jobs -> [rows : Nat, credit : BOOLEAN]]
BY DEF Billed, Types, AirtableTypes

\* The handler of an activation.
LEMMA ActivationTypes ==
    ASSUME Types,
           \/ \E c \in Claims : Activate(c)
           \/ AttemptCredit \/ CreateCredit \/ ApplyClaim \/ ActivateDone
    PROVE  Types'
<1> USE DEF actor, airtable
<1>1. ASSUME NEW c \in Claims, Activate(c) PROVE Types'
  <2>1. journal' \in [Claims -> JournalType]
    <3>1. PICK st \in {"none", "begun", "complete"} :
            journal' = [journal EXCEPT ![c] = [journal[c] EXCEPT !.status = st]]
      BY <1>1, RecordTypes DEF Activate, JournalType
    <3>2. [journal[c] EXCEPT !.status = st] \in JournalType
      BY RecordTypes DEF JournalType
    <3> QED BY <3>1, <3>2, RecordTypes
  <2>2. RunFields(run')
    BY <1>1 DEF Activate, RunFields, RunType, Idle, Pcs, ActivationPcs, ExtensionPcs,
       BillingPcs, PricingPcs
  <2> QED BY <1>1, <2>1, <2>2 DEF Types, ActorTypes, AirtableTypes, Activate
<1>2. CASE AttemptCredit
  <2>1. run.claim \in Claims /\ run.left \subseteq Credits /\ First(run.left) \in Credits
    BY <1>2, FirstCredit DEF AttemptCredit, Types, RunFields, RunType, ActivationPcs
  <2>2. journal' \in [Claims -> JournalType]
    <3> DEFINE c == run.claim
               k == First(run.left)
               new == [journal[c] EXCEPT !.attempted = journal[c].attempted \cup {k}]
    <3>1. \/ UNCHANGED journal
          \/ journal' = [journal EXCEPT ![c] = new]
      BY <1>2 DEF AttemptCredit
    <3>2. new \in JournalType
      <4> HIDE DEF c, k
      <4>1. journal[c] \in JournalType /\ k \in Credits
        BY <2>1, RecordTypes DEF c, k
      <4> QED BY <4>1 DEF JournalType
    <3> HIDE DEF new
    <3> QED BY <2>1, <3>1, <3>2, RecordTypes DEF Types, ActorTypes
  <2>3. RunFields(run')
    BY <1>2, RunGoes, RunEnds DEF AttemptCredit, Types, ActivationPcs, Pcs
  <2> QED BY <1>2, <2>2, <2>3 DEF Types, ActorTypes, AirtableTypes, AttemptCredit
<1>3. CASE CreateCredit
  <2>1. run.claim \in Claims /\ run.left \subseteq Credits /\ First(run.left) \in Credits
    BY <1>3, FirstCredit DEF CreateCredit, Types, RunFields, RunType, ActivationPcs
  <2>2. RunFields(run')
    BY <1>3, <2>1 DEF CreateCredit, Types, RunFields, RunType, Pcs, ActivationPcs,
       ExtensionPcs, BillingPcs, PricingPcs
  <2>3. credit' \in [Claims -> [Credits -> CreditType]]
    BY <1>3, <2>1, CreatedType DEF CreateCredit
  <2> QED BY <1>3, <2>2, <2>3 DEF Types, ActorTypes, AirtableTypes, CreateCredit
<1>4. CASE ApplyClaim
  <2>1. run.claim \in Claims /\ journal[run.claim].expires \in Months
    BY <1>4 DEF ApplyClaim, Types, ActorTypes, RunFields, ActivationPcs, JournalType
  <2>2. RunFields(run')
    BY <1>4, RunGoes DEF ApplyClaim, Types, ActivationPcs, Pcs
  <2>3. claimRow' \in [Claims -> [applied : BOOLEAN, expires : Months]]
    BY <1>4, <2>1 DEF ApplyClaim, Types, AirtableTypes
  <2> QED BY <1>4, <2>2, <2>3 DEF Types, ActorTypes, AirtableTypes, ApplyClaim
<1>5. CASE ActivateDone
  <2>1. journal' \in [Claims -> JournalType]
    <3>1. run.claim \in Claims
      BY <1>5 DEF ActivateDone, Types, RunFields, ActivationPcs
    <3>2. [journal[run.claim] EXCEPT !.status = "complete"] \in JournalType
      BY <3>1, RecordTypes DEF JournalType
    <3> QED BY <1>5, <3>1, <3>2, RecordTypes DEF ActivateDone
  <2> QED BY <1>5, <2>1, RunEnds DEF Types, ActorTypes, AirtableTypes, ActivateDone
<1> QED BY <1>1, <1>2, <1>3, <1>4, <1>5

\* The handler of an extension.
LEMMA ExtensionTypes ==
    ASSUME Types,
           \/ \E q \in Extends : Extend(q)
           \/ ExtendCredit \/ ExtendClaim \/ ExtendDone
    PROVE  Types'
<1> USE DEF actor, airtable
<1>1. ASSUME NEW q \in Extends, Extend(q) PROVE Types'
  <2>1. q.claim \in Claims /\ q.from \in Nat /\ q.to \in Nat
    BY ClaimsAssumption DEF ClaimsAssumption
  <2>2. extension[q.claim].to \in Months /\ Expiry(q.claim) \in Months
    BY <2>1, MonthsAreNat, RecordTypes DEF ExtensionType, Expiry
  <2>3. q.to \in Months
    <3>1. \/ extension[q.claim].to = q.to
          \/ q.from = Expiry(q.claim) /\ q.to > q.from /\ q.to <= Longest
      BY <1>1 DEF Extend, MayExtend
    <3> QED BY <2>1, <2>2, <3>1, MonthsAreNat DEF Months
  <2>4. extension' \in [Claims -> ExtensionType]
    <3>1. [status |-> "pending", from |-> q.from, to |-> q.to] \in ExtensionType
      BY <2>1, <2>3 DEF ExtensionType
    <3> QED BY <1>1, <2>1, <3>1, RecordTypes DEF Extend
  <2>5. RunFields(run')
    BY <1>1, <2>1 DEF Extend, RunFields, RunType, Idle, Pcs, ActivationPcs, ExtensionPcs,
       BillingPcs, PricingPcs
  <2> QED BY <1>1, <2>4, <2>5 DEF Types, ActorTypes, AirtableTypes, Extend
<1>2. CASE ExtendCredit
  <2>1. run.claim \in Claims /\ extension[run.claim].to \in Months
    BY <1>2 DEF ExtendCredit, Types, ActorTypes, RunFields, ExtensionPcs, ExtensionType
  <2>2. First(Unextended(run.claim)) \in Credits
    BY <1>2, FirstCredit DEF ExtendCredit, Unextended
  <2>3. credit' \in [Claims -> [Credits -> CreditType]]
    <3>1. [credit[run.claim][First(Unextended(run.claim))] EXCEPT !.expires = extension[run.claim].to] \in CreditType
      BY <2>1, <2>2, RecordTypes, CreditUpdates, MonthsAreNat
    <3> QED BY <1>2, <2>1, <2>2, <3>1, RecordTypes DEF ExtendCredit
  <2> QED BY <1>2, <2>3 DEF Types, ActorTypes, AirtableTypes, ExtendCredit
<1>3. CASE ExtendClaim
  <2>1. run.claim \in Claims /\ extension[run.claim].to \in Months
    BY <1>3 DEF ExtendClaim, Types, ActorTypes, RunFields, ExtensionPcs, ExtensionType
  <2>2. RunFields(run')
    BY <1>3, RunGoes DEF ExtendClaim, Types, ExtensionPcs, Pcs
  <2>3. claimRow' \in [Claims -> [applied : BOOLEAN, expires : Months]]
    BY <1>3, <2>1 DEF ExtendClaim, Types, AirtableTypes
  <2> QED BY <1>3, <2>2, <2>3 DEF Types, ActorTypes, AirtableTypes, ExtendClaim
<1>4. CASE ExtendDone
  <2>1. run.claim \in Claims /\ extension[run.claim].to \in Months
    BY <1>4 DEF ExtendDone, Types, ActorTypes, RunFields, ExtensionPcs, ExtensionType
  <2>2. journal' \in [Claims -> JournalType]
    <3>1. [journal[run.claim] EXCEPT !.expires = extension[run.claim].to] \in JournalType
      BY <2>1, RecordTypes DEF JournalType
    <3> QED BY <1>4, <2>1, <3>1, RecordTypes DEF ExtendDone
  <2>3. extension' \in [Claims -> ExtensionType]
    <3>1. [extension[run.claim] EXCEPT !.status = "complete"] \in ExtensionType
      BY <2>1, RecordTypes DEF ExtensionType
    <3> QED BY <1>4, <2>1, <3>1, RecordTypes DEF ExtendDone
  <2> QED BY <1>4, <2>2, <2>3, RunEnds DEF Types, ActorTypes, AirtableTypes, ExtendDone
<1> QED BY <1>1, <1>2, <1>3, <1>4

\* The handler of a redemption.
LEMMA RedeemTypes ==
    ASSUME Types,
           \/ \E c \in Claims, j \in Jobs, checkout \in BOOLEAN : Redeem(c, j, checkout)
           \/ Debit \/ DebitDone
    PROVE  Types'
<1> USE DEF actor, airtable
<1>1. ASSUME NEW c \in Claims, NEW j \in Jobs, NEW checkout \in BOOLEAN,
             Redeem(c, j, checkout)
      PROVE  Types'
  <2>1. allocations' \in [Claims -> Seq(Allocation)]
    <3>1. \/ UNCHANGED allocations
          \/ allocations' = [allocations EXCEPT ![c] = Append(@, [job |-> j, complete |-> FALSE])]
      BY <1>1 DEF Redeem
    <3>2. [job |-> j, complete |-> FALSE] \in Allocation
      BY DEF Allocation
    <3>3. Append(allocations[c], [job |-> j, complete |-> FALSE]) \in Seq(Allocation)
      BY <3>2, AppendProperties DEF Types, ActorTypes
    <3> QED BY <3>1, <3>3 DEF Types, ActorTypes
  <2>2. jobClaim' \in [Jobs -> Claims \cup {None}]
    BY <1>1 DEF Redeem, Types, ActorTypes
  <2>3. RunFields(run')
    BY <1>1 DEF Redeem, RunFields, RunType, Idle, Pcs, ActivationPcs, ExtensionPcs,
       BillingPcs, PricingPcs
  <2> QED BY <1>1, <2>1, <2>2, <2>3 DEF Types, ActorTypes, AirtableTypes, Redeem
<1>2. CASE Debit
  <2>1. run.claim \in Claims
    BY <1>2 DEF Debit, Types, RunFields
  <2>2. First(Undebited(run.claim, run.job)) \in Credits
    BY <1>2, FirstCredit DEF Debit, Undebited
  <2>3. credit' \in [Claims -> [Credits -> CreditType]]
    <3>1. [credit[run.claim][First(Undebited(run.claim, run.job))] EXCEPT !.used = TRUE] \in CreditType
      BY <2>1, <2>2, RecordTypes, CreditUpdates, MonthsAreNat
    <3> QED BY <1>2, <2>1, <2>2, <3>1, RecordTypes DEF Debit
  <2> QED BY <1>2, <2>3 DEF Types, ActorTypes, AirtableTypes, Debit
<1>3. CASE DebitDone
  <2>1. run.claim \in Claims /\ run.job \in Jobs
    BY <1>3 DEF DebitDone, Types, RunFields
  <2>2. allocations' = [allocations EXCEPT ![run.claim] = Completed(allocations[run.claim], run.job)]
    BY <1>3, <2>1 DEF DebitDone, Completed, Types, ActorTypes
  <2>3. allocations' \in [Claims -> Seq(Allocation)]
    BY <2>1, <2>2, CompletedIsSequence DEF Types, ActorTypes
  <2>4. RunFields(run')
    BY <1>3, RunGoes, RunEnds DEF DebitDone, Types, BillingPcs, Pcs
  <2> QED BY <1>3, <2>3, <2>4 DEF Types, ActorTypes, AirtableTypes, DebitDone
<1> QED BY <1>1, <1>2, <1>3

\* The handler of a final payment.
LEMMA BillTypes ==
    ASSUME Types,
           \/ \E j \in Billable : FinalIntent(j)
           \/ ReadFinal \/ CreateFinal \/ FinalDone
    PROVE  Types'
<1> USE DEF actor, airtable
<1>1. ASSUME NEW j \in Billable, FinalIntent(j) PROVE Types'
  <2>1. j \in Jobs
    BY ClaimsAssumption DEF ClaimsAssumption
  <2>2. RunFields(run')
    BY <1>1, <2>1 DEF FinalIntent, Runs, RunFields, RunType, Idle, Pcs, ActivationPcs,
       ExtensionPcs, BillingPcs, PricingPcs
  <2> QED BY <1>1, <2>2 DEF Types, ActorTypes, AirtableTypes, FinalIntent
<1>2. CASE ReadFinal
  <2>1. run.job \in Jobs
    BY <1>2 DEF ReadFinal, Types, RunFields, BillingPcs
  <2>2. intent' \in [Jobs -> {"none", "pending", "complete"}]
    BY <1>2 DEF ReadFinal, Types, ActorTypes
  <2>3. RunFields(run')
    <3>1. Ends \/ \E paid \in BOOLEAN : run' = [run EXCEPT !.pc = "create final", !.credit = paid]
      BY <1>2 DEF ReadFinal
    <3> QED BY <1>2, <3>1, RunEnds DEF ReadFinal, Types, RunFields, RunType, Pcs,
            ActivationPcs, ExtensionPcs, BillingPcs, PricingPcs
  <2> QED BY <1>2, <2>2, <2>3 DEF Types, ActorTypes, AirtableTypes, ReadFinal
<1>3. CASE CreateFinal
  <2>1. run.job \in Jobs /\ run.credit \in BOOLEAN
    BY <1>3 DEF CreateFinal, Types, RunFields, RunType, BillingPcs
  <2>2. final' \in [Jobs -> [rows : Nat, credit : BOOLEAN]]
    BY <1>3, <2>1, BilledType DEF CreateFinal
  <2>3. RunFields(run')
    BY <1>3, RunGoes DEF CreateFinal, Types, BillingPcs, Pcs
  <2> QED BY <1>3, <2>2, <2>3 DEF Types, ActorTypes, AirtableTypes, CreateFinal
<1>4. CASE FinalDone
  <2>1. intent' \in [Jobs -> {"none", "pending", "complete"}]
    BY <1>4 DEF FinalDone, Types, ActorTypes
  <2> QED BY <1>4, <2>1, RunEnds DEF Types, ActorTypes, AirtableTypes, FinalDone
<1> QED BY <1>1, <1>2, <1>3, <1>4

\* Approvals, discounts and prices.
LEMMA PriceTypes ==
    ASSUME Types,
           \/ \E j \in Jobs : \/ Approve(j) \/ Revoke(j)
                              \/ \E resolution \in {"applied", "cancelled"} : Resolve(j, resolution)
           \/ \E d \in Discounts : Mutate(d)
           \/ DiscountBegin \/ PromoRefused \/ SetPrice \/ DiscountDone
    PROVE  Types'
<1> USE DEF actor, airtable
<1>0. \A j \in Jobs : snapshot(j) \in Snapshots /\ discount[j] \in DiscountType
  BY DEF snapshot, Snapshots, Types, ActorTypes, AirtableTypes
<1>1. ASSUME NEW j \in Jobs, Approve(j) PROVE Types'
  <2>1. snapshot(j) \in {0, 1} \X {"full"}
    BY <1>1 DEF Approve, snapshot, Types, AirtableTypes
  <2>2. approval' \in [Jobs -> {None} \cup ({0, 1} \X {"full"})]
    BY <1>1, <2>1 DEF Approve, Types, ActorTypes
  <2> QED BY <1>1, <2>2 DEF Approve, Types, ActorTypes, AirtableTypes
<1>2. ASSUME NEW j \in Jobs, Revoke(j) PROVE Types'
  <2>1. approval' \in [Jobs -> {None} \cup ({0, 1} \X {"full"})]
    BY <1>2 DEF Revoke, Types, ActorTypes
  <2> QED BY <1>2, <2>1 DEF Revoke, Types, ActorTypes, AirtableTypes
<1>3. ASSUME NEW j \in Jobs, NEW resolution \in {"applied", "cancelled"},
             Resolve(j, resolution)
      PROVE  Types'
  <2>1. [discount[j] EXCEPT !.status = resolution] \in DiscountType
    BY <1>0 DEF DiscountType
  <2>2. discount' \in [Jobs -> DiscountType]
    BY <1>3, <2>1 DEF Resolve, Types, ActorTypes
  <2> QED BY <1>3, <2>2 DEF Resolve, Types, ActorTypes, AirtableTypes
<1>4. ASSUME NEW d \in Discounts, Mutate(d) PROVE Types'
  <2>1. d.job \in Jobs
    BY ClaimsAssumption DEF ClaimsAssumption
  <2>2. approval' \in [Jobs -> {None} \cup ({0, 1} \X {"full"})]
    BY <1>4, <2>1 DEF Mutate, Types, ActorTypes
  <2>3. RunFields(run')
    BY <1>4, <2>1 DEF Mutate, RunFields, RunType, Idle, Pcs, ActivationPcs, ExtensionPcs,
       BillingPcs, PricingPcs
  <2> QED BY <1>4, <2>2, <2>3 DEF Mutate, Types, ActorTypes, AirtableTypes
<1>5. CASE DiscountBegin
  <2>1. run.job \in Jobs /\ run.by \in Discounts
    BY <1>5 DEF DiscountBegin, Types, RunFields, PricingPcs
  <2>2. approval' \in [Jobs -> {None} \cup ({0, 1} \X {"full"})]
    BY <1>5, <2>1 DEF DiscountBegin, Types, ActorTypes
  <2>3. discount' \in [Jobs -> DiscountType]
    <3> DEFINE new == [status |-> "pending", id |-> run.by.id, snapshot |-> snapshot(run.job)]
    <3>1. new \in DiscountType
      <4>1. run.by.id \in Ids /\ snapshot(run.job) \in Snapshots
        BY <1>0, <2>1 DEF Ids
      <4> QED BY <4>1 DEF DiscountType
    <3>2. UNCHANGED discount \/ discount' = [discount EXCEPT ![run.job] = new]
      BY <1>5 DEF DiscountBegin
    <3> HIDE DEF new
    <3> QED BY <2>1, <3>1, <3>2 DEF Types, ActorTypes
  <2>4. RunFields(run')
    BY <1>5, RunGoes, RunEnds DEF DiscountBegin, Types, PricingPcs, Pcs
  <2> QED BY <1>5, <2>2, <2>3, <2>4 DEF DiscountBegin, Types, ActorTypes, AirtableTypes
<1>6. CASE PromoRefused
  BY <1>6, RunEnds DEF PromoRefused, Types, ActorTypes, AirtableTypes
<1>7. CASE SetPrice
  <2>1. price' \in [Jobs -> {"full", "discounted"}]
    BY <1>7 DEF SetPrice, Types, AirtableTypes
  <2>2. RunFields(run')
    BY <1>7, RunGoes, RunEnds DEF SetPrice, Types, PricingPcs, Pcs
  <2> QED BY <1>7, <2>1, <2>2 DEF SetPrice, Types, ActorTypes, AirtableTypes
<1>8. CASE DiscountDone
  <2>1. run.job \in Jobs
    BY <1>8 DEF DiscountDone, Types, RunFields, PricingPcs
  <2>2. [discount[run.job] EXCEPT !.status = "applied"] \in DiscountType
    BY <1>0, <2>1 DEF DiscountType
  <2>3. discount' \in [Jobs -> DiscountType]
    BY <1>8, <2>1, <2>2 DEF DiscountDone, Types, ActorTypes
  <2> QED BY <1>8, <2>3, RunEnds DEF DiscountDone, Types, ActorTypes, AirtableTypes
<1> QED BY <1>1, <1>2, <1>3, <1>4, <1>5, <1>6, <1>7, <1>8

\* What is on its way is the create of a credit or of a final payment.
LEMMA LateShape ==
    ASSUME Types, NEW w \in late
    PROVE  \/ \E c \in Claims, k \in Credits :
                w = <<"credit", c, k>> /\ w[1] = "credit" /\ w[2] = c /\ w[3] = k
           \/ \E j \in Jobs, paid \in BOOLEAN :
                w = <<"final", j, paid>> /\ w[1] = "final" /\ w[2] = j /\ w[3] = paid
<1>1. w \in {"credit"} \X Claims \X Credits \/ w \in {"final"} \X Jobs \X BOOLEAN
  BY DEF Types, AirtableTypes, LateType
<1> QED BY <1>1

LEMMA SentShape ==
    ASSUME Types
    PROVE  \/ Sent = {} /\ run.pc \notin {"create", "create final"}
           \/ /\ run.pc = "create" /\ run.claim \in Claims /\ First(run.left) \in Credits
              /\ Sent = {<<"credit", run.claim, First(run.left)>>}
           \/ /\ run.pc = "create final" /\ run.job \in Jobs /\ run.credit \in BOOLEAN
              /\ Sent = {<<"final", run.job, run.credit>>}
<1>1. run.pc = "create" => run.claim \in Claims /\ First(run.left) \in Credits
  BY FirstCredit DEF Types, RunFields, RunType, ActivationPcs
<1>2. run.pc = "create final" => run.job \in Jobs /\ run.credit \in BOOLEAN
  BY DEF Types, RunFields, RunType, BillingPcs
<1> QED BY <1>1, <1>2 DEF Sent

LEMMA WorldTypes ==
    ASSUME Types,
           \/ Stop \/ Month
           \/ \E j \in Changing : JobMoves(j)
           \/ \E w \in late : Land(w)
    PROVE  Types'
<1> USE DEF actor, airtable
<1>1. CASE Stop
  <2>1. late' \subseteq LateType
    <3>1. Sent \subseteq LateType
      <4>1. \A c \in Claims, k \in Credits : <<"credit", c, k>> \in LateType
        BY DEF LateType
      <4>2. \A j \in Jobs, paid \in BOOLEAN : <<"final", j, paid>> \in LateType
        BY DEF LateType
      <4>3. CASE run.pc = "create"
        <5>1. <<"credit", run.claim, First(run.left)>> \in LateType
              /\ Sent = {<<"credit", run.claim, First(run.left)>>}
          BY <4>1, <4>3, SentShape
        <5> QED BY <5>1
      <4>4. CASE run.pc = "create final"
        <5>1. run.job \in Jobs /\ run.credit \in BOOLEAN
              /\ Sent = {<<"final", run.job, run.credit>>}
          BY <4>4, SentShape
        <5>2. <<"final", run.job, run.credit>> \in LateType
          BY <4>2, <5>1, Zenon
        <5> QED BY <5>1, <5>2
      <4> QED BY <4>3, <4>4, SentShape
    <3> QED BY <1>1, <3>1 DEF Stop, Types, AirtableTypes
  <2>2. faults' \in 0..MaxFaults
    BY <1>1, MonthsAreNat DEF Stop, Types
  <2> QED BY <1>1, <2>1, <2>2, RunEnds DEF Stop, Types, ActorTypes, AirtableTypes
<1>2. CASE Month
  <2>1. now' \in Start..MaxMonth
    BY <1>2, MonthsAreNat DEF Month, Types
  <2> QED BY <1>2, <2>1 DEF Month, Types, ActorTypes, AirtableTypes
<1>3. ASSUME NEW j \in Changing, JobMoves(j) PROVE Types'
  <2>1. status' \in [Jobs -> {0, 1}]
    BY <1>3, ClaimsAssumption DEF JobMoves, Types, AirtableTypes, ClaimsAssumption
  <2> QED BY <1>3, <2>1 DEF JobMoves, Types, ActorTypes, AirtableTypes
<1>4. ASSUME NEW w \in late, Land(w) PROVE Types'
  <2>1. credit' \in [Claims -> [Credits -> CreditType]]
    <3>1. CASE UNCHANGED credit
      BY <3>1 DEF Types, AirtableTypes
    <3>2. CASE w[1] = "credit" /\ credit' = Created(w[2], w[3])
      <4>1. w[2] \in Claims /\ w[3] \in Credits
        BY <3>2, LateShape
      <4> QED BY <3>2, <4>1, CreatedType
    <3> QED BY <1>4, <3>1, <3>2 DEF Land
  <2>2. final' \in [Jobs -> [rows : Nat, credit : BOOLEAN]]
    <3>1. CASE UNCHANGED final
      BY <3>1 DEF Types, AirtableTypes
    <3>2. CASE w[1] # "credit" /\ final' = Billed(w[2], w[3])
      <4>1. w[2] \in Jobs /\ w[3] \in BOOLEAN
        BY <3>2, LateShape
      <4> QED BY <3>2, <4>1, BilledType
    <3> QED BY <1>4, <3>1, <3>2 DEF Land
  <2>3. late' \subseteq LateType
    BY <1>4 DEF Land, Types, AirtableTypes
  <2> QED BY <1>4, <2>1, <2>2, <2>3 DEF Land, Types, ActorTypes, AirtableTypes
<1> QED BY <1>1, <1>2, <1>3, <1>4

\* Next, handler by handler.
Activation ==
    \/ \E c \in Claims : Activate(c)
    \/ AttemptCredit \/ CreateCredit \/ ApplyClaim \/ ActivateDone
Extension ==
    \/ \E q \in Extends : Extend(q)
    \/ ExtendCredit \/ ExtendClaim \/ ExtendDone
Redemption ==
    \/ \E c \in Claims, j \in Jobs, checkout \in BOOLEAN : Redeem(c, j, checkout)
    \/ Debit \/ DebitDone
Bill ==
    \/ \E j \in Billable : FinalIntent(j)
    \/ ReadFinal \/ CreateFinal \/ FinalDone
Pricing ==
    \/ \E j \in Jobs : \/ Approve(j) \/ Revoke(j)
                       \/ \E resolution \in {"applied", "cancelled"} : Resolve(j, resolution)
    \/ \E d \in Discounts : Mutate(d)
    \/ DiscountBegin \/ PromoRefused \/ SetPrice \/ DiscountDone
World ==
    \/ Stop \/ Month
    \/ \E j \in Changing : JobMoves(j)
    \/ \E w \in late : Land(w)

LEMMA NextByHandler ==
    Next => Activation \/ Extension \/ Redemption \/ Bill \/ Pricing \/ World
BY ClaimsAssumption DEF ClaimsAssumption, Next, Steps, Requests, Checkout, RedeemDirect,
   Activation, Extension, Redemption, Bill, Pricing, World

LEMMA TypesStep == Types /\ [Next]_vars => Types'
<1> SUFFICES ASSUME Types, [Next]_vars PROVE Types'
  OBVIOUS
<1>1. CASE UNCHANGED vars
  BY <1>1 DEF vars, actor, airtable, Types, ActorTypes, AirtableTypes
<1>2. CASE Next
  BY <1>2, NextByHandler, ActivationTypes, ExtensionTypes, RedeemTypes, BillTypes,
     PriceTypes, WorldTypes
     DEF Activation, Extension, Redemption, Bill, Pricing, World
<1> QED BY <1>1, <1>2

-----------------------------------------------------------------------------
(* The credit rows and the expiries.                                       *)

\* What the three ways to write a credit do to each.
LEMMA CreditWrites ==
    ASSUME Types, NEW c \in Claims, NEW k \in Credits
    PROVE  \A c2 \in Claims : \A k2 \in Credits :
             /\ LET new == [credit EXCEPT ![c][k].used = TRUE][c2][k2] IN
                  /\ new.rows = credit[c2][k2].rows
                  /\ new.expires = credit[c2][k2].expires
                  /\ new.used <=> credit[c2][k2].used \/ (c2 = c /\ k2 = k)
             /\ \A month \in Months :
                  LET new == [credit EXCEPT ![c][k].expires = month][c2][k2] IN
                  /\ new.rows = credit[c2][k2].rows
                  /\ new.used <=> credit[c2][k2].used
                  /\ new.expires =
                       IF c2 = c /\ k2 = k THEN month ELSE credit[c2][k2].expires
             /\ Created(c, k)[c2][k2].used <=> credit[c2][k2].used
             /\ Created(c, k)[c2][k2].rows =
                  credit[c2][k2].rows + (IF c2 = c /\ k2 = k THEN 1 ELSE 0)
             /\ Created(c, k)[c2][k2].expires =
                  IF c2 = c /\ k2 = k THEN journal[c].expires ELSE credit[c2][k2].expires
<1> SUFFICES ASSUME NEW c2 \in Claims, NEW k2 \in Credits
    PROVE    /\ LET new == [credit EXCEPT ![c][k].used = TRUE][c2][k2] IN
                  /\ new.rows = credit[c2][k2].rows
                  /\ new.expires = credit[c2][k2].expires
                  /\ new.used <=> credit[c2][k2].used \/ (c2 = c /\ k2 = k)
             /\ \A month \in Months :
                  LET new == [credit EXCEPT ![c][k].expires = month][c2][k2] IN
                  /\ new.rows = credit[c2][k2].rows
                  /\ new.used <=> credit[c2][k2].used
                  /\ new.expires =
                       IF c2 = c /\ k2 = k THEN month ELSE credit[c2][k2].expires
             /\ Created(c, k)[c2][k2].used <=> credit[c2][k2].used
             /\ Created(c, k)[c2][k2].rows =
                  credit[c2][k2].rows + (IF c2 = c /\ k2 = k THEN 1 ELSE 0)
             /\ Created(c, k)[c2][k2].expires =
                  IF c2 = c /\ k2 = k THEN journal[c].expires ELSE credit[c2][k2].expires
  OBVIOUS
<1>1. credit[c2] \in [Credits -> CreditType] /\ credit[c2][k2] \in CreditType
      /\ credit \in [Claims -> [Credits -> CreditType]]
      /\ credit[c] \in [Credits -> CreditType] /\ credit[c][k] \in CreditType
  BY DEF Types, AirtableTypes
<1>2. LET new == [credit EXCEPT ![c][k].used = TRUE][c2][k2] IN
        /\ new.rows = credit[c2][k2].rows
        /\ new.expires = credit[c2][k2].expires
        /\ new.used <=> credit[c2][k2].used \/ (c2 = c /\ k2 = k)
  BY <1>1 DEF CreditType
<1>3. ASSUME NEW month \in Months
      PROVE  LET new == [credit EXCEPT ![c][k].expires = month][c2][k2] IN
               /\ new.rows = credit[c2][k2].rows
               /\ new.used <=> credit[c2][k2].used
               /\ new.expires =
                    IF c2 = c /\ k2 = k THEN month ELSE credit[c2][k2].expires
  BY <1>1 DEF CreditType
<1>4. /\ Created(c, k)[c2][k2].used <=> credit[c2][k2].used
      /\ Created(c, k)[c2][k2].rows =
           credit[c2][k2].rows + (IF c2 = c /\ k2 = k THEN 1 ELSE 0)
      /\ Created(c, k)[c2][k2].expires =
           IF c2 = c /\ k2 = k THEN journal[c].expires ELSE credit[c2][k2].expires
  BY <1>1 DEF CreditType, Created
<1> QED BY <1>2, <1>3, <1>4

LEMMA CreditInit == Init => CreditInv
<1> SUFFICES ASSUME Init PROVE CreditInv
  OBVIOUS
<1>1. Types
  BY TypesInit
<1>2. /\ run.pc = "idle" /\ late = {}
      /\ \A c \in Claims :
           /\ journal[c].status = "complete" <=> c \in Active
           /\ journal[c].attempted = IF c \in Active THEN Credits ELSE {}
           /\ journal[c].expires = Term /\ claimRow[c].expires = Term
           /\ extension[c].status = "none"
           /\ \A k \in Credits : /\ credit[c][k].rows = IF c \in Active THEN 1 ELSE 0
                                 /\ credit[c][k].expires = Term
  BY DEF Init, Idle
<1>3. CreatedOnce /\ CompleteHasRows
  BY <1>2 DEF CreatedOnce, RowOK, Creating, CompleteHasRows
<1>4. ExtendedWhenComplete /\ OneExpiry
  BY <1>2 DEF ExtendedWhenComplete, OneExpiry, Expiry
<1> QED
  BY <1>1, <1>2, <1>3, <1>4 DEF CreditInv, ActivationOK, ExtensionOK, ActivationPcs,
     ExtensionPcs

\* A step of another handler: no row, no expiry, no create.
LEMMA CreditsStill ==
    ASSUME CreditInv, Types', UNCHANGED <<journal, extension, claimRow>>,
           \A c \in Claims : \A k \in Credits :
             /\ credit'[c][k].rows = credit[c][k].rows
             /\ credit'[c][k].expires = credit[c][k].expires
             /\ <<"credit", c, k>> \in late' => <<"credit", c, k>> \in late,
           run'.pc \notin ActivationPcs \cup ExtensionPcs
    PROVE  CreditInv'
<1>1. CreatedOnce' /\ CompleteHasRows'
  BY DEF CreditInv, CreatedOnce, RowOK, Creating, CompleteHasRows, ActivationPcs
<1>2. ExtendedWhenComplete' /\ OneExpiry'
  BY DEF CreditInv, ExtendedWhenComplete, OneExpiry, Expiry
<1> QED BY <1>1, <1>2 DEF CreditInv, ActivationOK, ExtensionOK

\* Where a handler goes in one step.
LEMMA HandlerPcs ==
    ASSUME Types
    PROVE  /\ Redemption => run'.pc \in {"idle", "debit", "final"}
           /\ Bill => run'.pc \in {"idle"} \cup BillingPcs
           /\ Pricing => run'.pc \in {"idle"} \cup PricingPcs
           /\ World => run'.pc = "idle" \/ run' = run
<1>0. /\ \A pc \in Pcs : Goes(pc) => run'.pc = pc
      /\ Ends => run'.pc = "idle"
      /\ Idle.pc = "idle"
      /\ \A c, j : Runs("final", c, j) => run'.pc = "final"
  <2>1. ASSUME NEW pc \in Pcs, Goes(pc) PROVE run'.pc = pc
    BY <2>1 DEF Types, RunFields, RunType, Goes
  <2>2. \A c, j : Runs("final", c, j) => run'.pc = "final"
    BY DEF Runs, Idle
  <2> QED BY <2>1, <2>2 DEF Ends, Idle
<1>1. Redemption => run'.pc \in {"idle", "debit", "final"}
  <2>1. ASSUME NEW c \in Claims, NEW j \in Jobs, NEW checkout \in BOOLEAN,
               Redeem(c, j, checkout)
        PROVE  run'.pc \in {"idle", "debit", "final"}
    BY <2>1 DEF Redeem, Idle
  <2>2. Debit \/ DebitDone => run'.pc \in {"idle", "debit", "final"}
    BY <1>0 DEF Debit, DebitDone, Pcs, BillingPcs
  <2> QED BY <2>1, <2>2 DEF Redemption
<1>2. Bill => run'.pc \in {"idle"} \cup BillingPcs
  <2>1. ReadFinal => run'.pc \in {"idle"} \cup BillingPcs
    BY <1>0 DEF ReadFinal, BillingPcs, Types, RunFields, RunType
  <2>2. CreateFinal \/ FinalDone => run'.pc \in {"idle"} \cup BillingPcs
    BY <1>0 DEF CreateFinal, FinalDone, BillingPcs, Pcs
  <2>3. \A j : FinalIntent(j) => run'.pc \in {"idle"} \cup BillingPcs
    BY <1>0 DEF FinalIntent, BillingPcs
  <2> QED BY <2>1, <2>2, <2>3 DEF Bill
<1>3. Pricing => run'.pc \in {"idle"} \cup PricingPcs
  <2>1. \A j, resolution : Approve(j) \/ Revoke(j) \/ Resolve(j, resolution) => run'.pc = "idle"
    BY <1>0 DEF Approve, Revoke, Resolve
  <2>2. \A d : Mutate(d) => run'.pc \in {"idle"} \cup PricingPcs
    BY DEF Mutate, Idle, PricingPcs
  <2>3. DiscountBegin \/ PromoRefused \/ SetPrice \/ DiscountDone
          => run'.pc \in {"idle"} \cup PricingPcs
    BY <1>0 DEF DiscountBegin, PromoRefused, SetPrice, DiscountDone, PricingPcs, Pcs
  <2> QED BY <2>1, <2>2, <2>3 DEF Pricing
<1>4. World => run'.pc = "idle" \/ run' = run
  BY <1>0 DEF World, Stop, Month, JobMoves, Land
<1> QED BY <1>1, <1>2, <1>3, <1>4

LEMMA OtherHandlersCredits ==
    ASSUME CreditInv, Types', Redemption \/ Bill \/ Pricing \/ Month
                              \/ \E j \in Changing : JobMoves(j)
    PROVE  CreditInv'
<1> USE DEF actor, airtable
<1>0. Types /\ UNCHANGED <<journal, extension, claimRow, late>>
  BY DEF CreditInv, Redemption, Redeem, Debit, DebitDone, Bill, FinalIntent, ReadFinal,
     CreateFinal, FinalDone, Pricing, Approve, Revoke, Resolve, Mutate, DiscountBegin,
     PromoRefused, SetPrice, DiscountDone, Month, JobMoves
<1>1. run'.pc \notin ActivationPcs \cup ExtensionPcs
  <2>1. Month \/ (\E j \in Changing : JobMoves(j)) => run'.pc = "idle"
    BY DEF Month, JobMoves, Idle
  <2> QED
    BY <1>0, <2>1, HandlerPcs
       DEF ActivationPcs, ExtensionPcs, BillingPcs, PricingPcs
<1>2. \A c \in Claims : \A k \in Credits :
             /\ credit'[c][k].rows = credit[c][k].rows
             /\ credit'[c][k].expires = credit[c][k].expires
  <2>1. CASE Debit
    <3>1. run.claim \in Claims /\ First(Undebited(run.claim, run.job)) \in Credits
      BY <1>0, <2>1, FirstCredit DEF Debit, Undebited, Types, RunFields
    <3> QED BY <1>0, <2>1, <3>1, CreditWrites DEF Debit
  <2>2. CASE UNCHANGED credit
    BY <2>2
  <2> QED
    BY <2>1, <2>2 DEF Redemption, Redeem, DebitDone, Bill, FinalIntent, ReadFinal,
       CreateFinal, FinalDone, Pricing, Approve, Revoke, Resolve, Mutate, DiscountBegin,
       PromoRefused, SetPrice, DiscountDone, Month, JobMoves
<1> QED BY <1>0, <1>1, <1>2, CreditsStill

LEMMA ActivateCredits ==
    ASSUME CreditInv, Types', NEW c \in Claims, Activate(c)
    PROVE  CreditInv'
<1> USE DEF actor, airtable
<1>0. Types
  BY DEF CreditInv
<1>1. \A c2 \in Claims :
        /\ journal'[c2].status = "complete" <=> journal[c2].status = "complete"
        /\ journal'[c2].attempted = journal[c2].attempted
        /\ journal'[c2].expires = journal[c2].expires
  <2> SUFFICES ASSUME NEW c2 \in Claims
               PROVE  /\ journal'[c2].status = "complete" <=> journal[c2].status = "complete"
                      /\ journal'[c2].attempted = journal[c2].attempted
                      /\ journal'[c2].expires = journal[c2].expires
    OBVIOUS
  <2>1. journal[c2] \in JournalType /\ journal \in [Claims -> JournalType]
    BY <1>0 DEF Types, ActorTypes
  <2> QED BY <2>1 DEF Activate, JournalType
<1>2. UNCHANGED <<extension, claimRow, credit, late>>
  BY DEF Activate
<1>3. run'.pc = "credits" /\ run'.claim = c
      /\ run'.left = {k \in Credits : credit[c][k].rows = 0}
  BY DEF Activate, Idle
<1>4. CreatedOnce' /\ CompleteHasRows'
  BY <1>1, <1>2, <1>3 DEF CreditInv, CreatedOnce, RowOK, Creating, CompleteHasRows
<1>5. ExtendedWhenComplete' /\ OneExpiry'
  BY <1>1, <1>2 DEF CreditInv, ExtendedWhenComplete, OneExpiry, Expiry
<1>6. ActivationOK(run', extension', credit')
  <2>1. extension[c].status # "pending"
    BY DEF Activate
  <2>2. \A k \in Credits : credit[c][k].rows \in Nat /\ credit[c][k].rows <= 1
    BY <1>0, RecordTypes DEF CreditType, CreditInv, CreatedOnce, RowOK
  <2>3. \A k \in Credits \ run'.left : credit[c][k].rows = 1
    BY <1>3, <2>2
  <2> QED BY <1>2, <1>3, <2>1, <2>3 DEF ActivationOK
<1>7. ExtensionOK(run', journal', extension', claimRow', credit')
  BY <1>3 DEF ExtensionOK, ExtensionPcs
<1> QED BY <1>4, <1>5, <1>6, <1>7 DEF CreditInv

LEMMA AttemptCredits ==
    ASSUME CreditInv, Types', AttemptCredit
    PROVE  CreditInv'
<1> USE DEF actor, airtable
<1> DEFINE c == run.claim
           k == First(run.left)
<1>0. Types /\ run.pc = "credits" /\ c \in Claims /\ k \in run.left /\ k \in Credits
  BY FirstCredit DEF CreditInv, AttemptCredit, Types, RunFields, RunType, ActivationPcs
<1>1. CASE k \in journal[c].attempted
  <2>1. UNCHANGED <<journal, extension, claimRow, credit, late>> /\ run'.pc = "idle"
    BY <1>1, RunEnds DEF AttemptCredit
  <2> QED BY <2>1, CreditsStill DEF ActivationPcs, ExtensionPcs
<1>2. CASE k \notin journal[c].attempted
  <2>1. \A c2 \in Claims :
          /\ journal'[c2].status = journal[c2].status
          /\ journal'[c2].expires = journal[c2].expires
          /\ \A k2 \in Credits :
               k2 \in journal'[c2].attempted <=>
                 k2 \in journal[c2].attempted \/ (c2 = c /\ k2 = k)
    <3> SUFFICES ASSUME NEW c2 \in Claims
                 PROVE  /\ journal'[c2].status = journal[c2].status
                        /\ journal'[c2].expires = journal[c2].expires
                        /\ \A k2 \in Credits :
                             k2 \in journal'[c2].attempted <=>
                               k2 \in journal[c2].attempted \/ (c2 = c /\ k2 = k)
      OBVIOUS
    <3>1. journal[c2] \in JournalType /\ journal \in [Claims -> JournalType]
      BY <1>0 DEF Types, ActorTypes
    <3>2. journal' = [journal EXCEPT ![c].attempted = @ \cup {k}]
      BY <1>2 DEF AttemptCredit
    <3> HIDE DEF c, k
    <3> QED BY <1>0, <3>1, <3>2 DEF JournalType
  <2>2. UNCHANGED <<extension, claimRow, credit, late>>
    BY DEF AttemptCredit
  <2>3. run'.pc = "create" /\ run'.claim = c /\ run'.left = run.left
    BY <1>0, <1>2, RunGoes DEF AttemptCredit, Types, ActivationPcs, Pcs
  <2>4. CreatedOnce'
    <3> SUFFICES ASSUME NEW c2 \in Claims, NEW k2 \in Credits
                 PROVE  RowOK(credit'[c2][k2].rows, k2 \in journal'[c2].attempted,
                              <<"credit", c2, k2>> \in late', Creating(c2, k2)')
      BY DEF CreatedOnce
    <3>1. RowOK(credit[c2][k2].rows, k2 \in journal[c2].attempted,
                <<"credit", c2, k2>> \in late, Creating(c2, k2))
      BY DEF CreditInv, CreatedOnce
    <3>2. Creating(c2, k2)' <=> c2 = c /\ k2 = k
      BY <2>3 DEF Creating
    <3> QED BY <1>2, <2>1, <2>2, <3>1, <3>2 DEF RowOK
  <2>5. CompleteHasRows' /\ ExtendedWhenComplete' /\ OneExpiry'
    BY <2>1, <2>2 DEF CreditInv, CompleteHasRows, ExtendedWhenComplete, OneExpiry, Expiry
  <2>6. ActivationOK(run', extension', credit')
    BY <1>0, <2>2, <2>3 DEF CreditInv, ActivationOK, ActivationPcs
  <2>7. ExtensionOK(run', journal', extension', claimRow', credit')
    BY <2>3 DEF ExtensionOK, ExtensionPcs
  <2> QED BY <2>4, <2>5, <2>6, <2>7 DEF CreditInv
<1> QED BY <1>1, <1>2

\* A create lands, in its handler or late: the credit has had none before.
LEMMA LandedCredit ==
    ASSUME CreditInv, NEW c \in Claims, NEW k \in Credits,
           Creating(c, k) \/ <<"credit", c, k>> \in late,
           credit' = Created(c, k), UNCHANGED <<journal, extension, claimRow>>
    PROVE  /\ credit[c][k].rows = 0
           /\ \A c2 \in Claims : \A k2 \in Credits :
                credit'[c2][k2].rows = IF c2 = c /\ k2 = k THEN 1 ELSE credit[c2][k2].rows
           /\ CompleteHasRows' /\ ExtendedWhenComplete' /\ OneExpiry'
<1>0. Types /\ credit[c][k].rows \in Nat
  BY RecordTypes DEF CreditInv, CreditType
<1>1. credit[c][k].rows = 0
  BY <1>0 DEF CreditInv, CreatedOnce, RowOK
<1>2. \A c2 \in Claims : \A k2 \in Credits :
        /\ credit'[c2][k2].rows =
             credit[c2][k2].rows + (IF c2 = c /\ k2 = k THEN 1 ELSE 0)
        /\ credit'[c2][k2].expires =
             IF c2 = c /\ k2 = k THEN journal[c].expires ELSE credit[c2][k2].expires
  BY <1>0, CreditWrites
<1>3. \A c2 \in Claims : \A k2 \in Credits :
        credit'[c2][k2].rows = IF c2 = c /\ k2 = k THEN 1 ELSE credit[c2][k2].rows
  <2>1. \A c2 \in Claims : \A k2 \in Credits : credit[c2][k2].rows \in Nat
    BY <1>0, RecordTypes DEF CreditType
  <2> QED BY <1>1, <1>2, <2>1
<1>4. journal[c].status # "complete"
  BY <1>1 DEF CreditInv, CompleteHasRows
<1>5. extension[c].status = "none"
  BY <1>4 DEF CreditInv, ExtendedWhenComplete
<1>6. CompleteHasRows' /\ ExtendedWhenComplete'
  BY <1>3 DEF CreditInv, CompleteHasRows, ExtendedWhenComplete
<1>7. OneExpiry'
  BY <1>2, <1>5 DEF CreditInv, OneExpiry, Expiry
<1> QED BY <1>1, <1>3, <1>6, <1>7

LEMMA CreateCredits ==
    ASSUME CreditInv, Types', CreateCredit
    PROVE  CreditInv'
<1> USE DEF actor, airtable
<1> DEFINE c == run.claim
           k == First(run.left)
<1>0. Types /\ run.pc = "create" /\ c \in Claims /\ k \in run.left /\ k \in Credits
  BY FirstCredit DEF CreditInv, CreateCredit, Types, RunFields, RunType, ActivationPcs
<1>1. Creating(c, k)
  BY <1>0 DEF Creating
<1>2. credit' = Created(c, k) /\ UNCHANGED <<journal, extension, claimRow, late>>
  BY DEF CreateCredit
<1>3. run'.pc = "credits" /\ run'.claim = c /\ run'.left = run.left \ {k}
  BY <1>0 DEF CreateCredit, Types, RunFields, RunType
<1>4. /\ credit[c][k].rows = 0
      /\ \A c2 \in Claims : \A k2 \in Credits :
           credit'[c2][k2].rows = IF c2 = c /\ k2 = k THEN 1 ELSE credit[c2][k2].rows
      /\ CompleteHasRows' /\ ExtendedWhenComplete' /\ OneExpiry'
  <2> HIDE DEF c, k
  <2> QED BY <1>0, <1>1, <1>2, LandedCredit
<1>5. CreatedOnce'
  <2> SUFFICES ASSUME NEW c2 \in Claims, NEW k2 \in Credits
               PROVE  RowOK(credit'[c2][k2].rows, k2 \in journal'[c2].attempted,
                            <<"credit", c2, k2>> \in late', Creating(c2, k2)')
    BY DEF CreatedOnce
  <2>1. RowOK(credit[c2][k2].rows, k2 \in journal[c2].attempted,
              <<"credit", c2, k2>> \in late, Creating(c2, k2))
    BY DEF CreditInv, CreatedOnce
  <2>2. ~Creating(c2, k2)'
    BY <1>3 DEF Creating
  <2>3. Creating(c2, k2) <=> c2 = c /\ k2 = k
    BY <1>0 DEF Creating
  <2> HIDE DEF c, k
  <2> QED BY <1>2, <1>4, <2>1, <2>2, <2>3 DEF RowOK
<1>6. ActivationOK(run', extension', credit')
  <2>1. extension[c].status # "pending" /\ \A k2 \in Credits \ run.left : credit[c][k2].rows = 1
    BY <1>0 DEF CreditInv, ActivationOK, ActivationPcs
  <2> HIDE DEF c, k
  <2> QED BY <1>0, <1>2, <1>3, <1>4, <2>1 DEF ActivationOK
<1>7. ExtensionOK(run', journal', extension', claimRow', credit')
  BY <1>3 DEF ExtensionOK, ExtensionPcs
<1> QED BY <1>4, <1>5, <1>6, <1>7 DEF CreditInv

LEMMA ApplyCredits ==
    ASSUME CreditInv, Types', ApplyClaim
    PROVE  CreditInv'
<1> USE DEF actor, airtable
<1> DEFINE c == run.claim
<1>0. Types /\ run.pc = "credits" /\ c \in Claims /\ run.left = {}
  BY DEF CreditInv, ApplyClaim, Types, RunFields, ActivationPcs
<1>1. UNCHANGED <<journal, extension, credit, late>>
  BY DEF ApplyClaim
<1>2. run'.pc = "applied" /\ run'.claim = c /\ run'.left = {}
  BY <1>0, RunGoes DEF ApplyClaim, Types, ActivationPcs, Pcs
<1>3. \A c2 \in Claims :
        claimRow'[c2].expires = IF c2 = c THEN journal[c].expires ELSE claimRow[c2].expires
  BY <1>0 DEF ApplyClaim, Types, AirtableTypes
<1>4. extension[c].status # "pending" /\ \A k \in Credits : credit[c][k].rows = 1
  BY <1>0 DEF CreditInv, ActivationOK, ActivationPcs
<1>5. CreatedOnce' /\ CompleteHasRows' /\ ExtendedWhenComplete'
  BY <1>1, <1>2 DEF CreditInv, CreatedOnce, RowOK, Creating, CompleteHasRows,
     ExtendedWhenComplete
<1>6. OneExpiry'
  <2> HIDE DEF c
  <2> QED BY <1>1, <1>3, <1>4 DEF CreditInv, OneExpiry, Expiry
<1>7. ActivationOK(run', extension', credit')
      /\ ExtensionOK(run', journal', extension', claimRow', credit')
  BY <1>1, <1>2, <1>4 DEF ActivationOK, ExtensionOK, ExtensionPcs
<1> QED BY <1>5, <1>6, <1>7 DEF CreditInv

LEMMA ActivateDoneCredits ==
    ASSUME CreditInv, Types', ActivateDone
    PROVE  CreditInv'
<1> USE DEF actor, airtable
<1> DEFINE c == run.claim
<1>0. Types /\ run.pc = "applied" /\ c \in Claims /\ run.left = {}
  BY DEF CreditInv, ActivateDone, Types, RunFields, ActivationPcs
<1>1. UNCHANGED <<extension, claimRow, credit, late>> /\ run'.pc = "idle"
  BY RunEnds DEF ActivateDone
<1>2. \A c2 \in Claims :
        /\ journal'[c2].status = IF c2 = c THEN "complete" ELSE journal[c2].status
        /\ journal'[c2].attempted = journal[c2].attempted
        /\ journal'[c2].expires = journal[c2].expires
  <2> SUFFICES ASSUME NEW c2 \in Claims
               PROVE  /\ journal'[c2].status = IF c2 = c THEN "complete" ELSE journal[c2].status
                      /\ journal'[c2].attempted = journal[c2].attempted
                      /\ journal'[c2].expires = journal[c2].expires
    OBVIOUS
  <2>1. journal[c2] \in JournalType /\ journal \in [Claims -> JournalType]
    BY <1>0 DEF Types, ActorTypes
  <2>2. journal' = [journal EXCEPT ![c].status = "complete"]
    BY DEF ActivateDone
  <2> HIDE DEF c
  <2> QED BY <1>0, <2>1, <2>2 DEF JournalType
<1>3. \A k \in Credits : credit[c][k].rows = 1
  BY <1>0 DEF CreditInv, ActivationOK, ActivationPcs
<1>4. CreatedOnce'
  BY <1>1, <1>2 DEF CreditInv, CreatedOnce, RowOK, Creating
<1>5. CompleteHasRows' /\ ExtendedWhenComplete' /\ OneExpiry'
  <2> HIDE DEF c
  <2> QED BY <1>1, <1>2, <1>3 DEF CreditInv, CompleteHasRows, ExtendedWhenComplete,
          OneExpiry, Expiry
<1>6. ActivationOK(run', extension', credit')
      /\ ExtensionOK(run', journal', extension', claimRow', credit')
  BY <1>1 DEF ActivationOK, ExtensionOK, ActivationPcs, ExtensionPcs
<1> QED BY <1>4, <1>5, <1>6 DEF CreditInv

LEMMA ExtendCredits ==
    ASSUME CreditInv, Types', NEW q \in Extends, Extend(q)
    PROVE  CreditInv'
<1> USE DEF actor, airtable
<1> DEFINE c == q.claim
<1>0. Types /\ c \in Claims
  BY ClaimsAssumption DEF CreditInv, ClaimsAssumption
<1>1. UNCHANGED <<journal, claimRow, credit, late>> /\ journal[c].status = "complete"
  BY DEF Extend, MayExtend
<1>2. run'.pc = "extend" /\ run'.claim = c
  BY DEF Extend, Idle
<1>3. /\ \A c2 \in Claims : c2 # c => extension'[c2] = extension[c2]
      /\ extension'[c].status = "pending" /\ extension'[c].to = q.to
  BY <1>0 DEF Extend, Types, ActorTypes
<1>4. CreatedOnce' /\ CompleteHasRows'
  BY <1>1, <1>2 DEF CreditInv, CreatedOnce, RowOK, Creating, CompleteHasRows
<1>5. ExtendedWhenComplete' /\ OneExpiry'
  <2> HIDE DEF c
  <2> QED BY <1>1, <1>3 DEF CreditInv, ExtendedWhenComplete, OneExpiry, Expiry
<1>6. ActivationOK(run', extension', credit')
      /\ ExtensionOK(run', journal', extension', claimRow', credit')
  BY <1>1, <1>2, <1>3 DEF ActivationOK, ExtensionOK, ActivationPcs
<1> QED BY <1>4, <1>5, <1>6 DEF CreditInv

LEMMA ExtendCreditCredits ==
    ASSUME CreditInv, Types', ExtendCredit
    PROVE  CreditInv'
<1> USE DEF actor, airtable
<1> DEFINE c == run.claim
           k == First(Unextended(c))
<1>0. Types /\ run.pc = "extend" /\ c \in Claims /\ k \in Credits
  BY FirstCredit DEF CreditInv, ExtendCredit, Types, RunFields, ExtensionPcs, Unextended
<1>1. UNCHANGED <<journal, extension, claimRow, late, run>>
  BY DEF ExtendCredit
<1>2. extension[c].status = "pending" /\ journal[c].status = "complete"
      /\ extension[c].to \in Months
  BY <1>0, RecordTypes DEF CreditInv, ExtensionOK, ExtensionPcs, ExtensionType
<1>3. credit' = [credit EXCEPT ![c][k].expires = extension[c].to]
  BY DEF ExtendCredit
<1>4. \A c2 \in Claims : \A k2 \in Credits :
        /\ credit'[c2][k2].rows = credit[c2][k2].rows
        /\ c2 # c => credit'[c2][k2].expires = credit[c2][k2].expires
  <2> HIDE DEF c, k
  <2> QED BY <1>0, <1>2, <1>3, CreditWrites
<1>5. CreatedOnce' /\ CompleteHasRows' /\ ExtendedWhenComplete'
  BY <1>1, <1>4 DEF CreditInv, CreatedOnce, RowOK, Creating, CompleteHasRows,
     ExtendedWhenComplete
<1>6. OneExpiry'
  <2> HIDE DEF c, k
  <2> QED BY <1>1, <1>2, <1>4 DEF CreditInv, OneExpiry, Expiry
<1>7. ActivationOK(run', extension', credit')
      /\ ExtensionOK(run', journal', extension', claimRow', credit')
  BY <1>0, <1>1, <1>2 DEF ActivationOK, ExtensionOK, ActivationPcs
<1> QED BY <1>5, <1>6, <1>7 DEF CreditInv

LEMMA ExtendClaimCredits ==
    ASSUME CreditInv, Types', ExtendClaim
    PROVE  CreditInv'
<1> USE DEF actor, airtable
<1> DEFINE c == run.claim
<1>0. Types /\ run.pc = "extend" /\ c \in Claims
  BY DEF CreditInv, ExtendClaim, Types, RunFields, ExtensionPcs
<1>1. UNCHANGED <<journal, extension, credit, late>>
  BY DEF ExtendClaim
<1>2. extension[c].status = "pending" /\ journal[c].status = "complete"
  BY <1>0 DEF CreditInv, ExtensionOK, ExtensionPcs
<1>3. run'.pc = "extended" /\ run'.claim = c
  BY <1>0, RunGoes DEF ExtendClaim, Types, ExtensionPcs, Pcs
<1>4. \A c2 \in Claims :
        claimRow'[c2].expires = IF c2 = c THEN extension[c].to ELSE claimRow[c2].expires
  BY <1>0 DEF ExtendClaim, Types, AirtableTypes
<1>5. \A k \in Credits : credit[c][k].expires = extension[c].to
  BY DEF ExtendClaim, Unextended
<1>6. CreatedOnce' /\ CompleteHasRows' /\ ExtendedWhenComplete'
  BY <1>1, <1>3 DEF CreditInv, CreatedOnce, RowOK, Creating, CompleteHasRows,
     ExtendedWhenComplete
<1>7. OneExpiry'
  <2> HIDE DEF c
  <2> QED BY <1>1, <1>2, <1>4 DEF CreditInv, OneExpiry, Expiry
<1>8. ActivationOK(run', extension', credit')
      /\ ExtensionOK(run', journal', extension', claimRow', credit')
  BY <1>0, <1>1, <1>2, <1>3, <1>4, <1>5 DEF ActivationOK, ExtensionOK, ActivationPcs
<1> QED BY <1>6, <1>7, <1>8 DEF CreditInv

LEMMA ExtendDoneCredits ==
    ASSUME CreditInv, Types', ExtendDone
    PROVE  CreditInv'
<1> USE DEF actor, airtable
<1> DEFINE c == run.claim
<1>0. Types /\ run.pc = "extended" /\ c \in Claims
  BY DEF CreditInv, ExtendDone, Types, RunFields, ExtensionPcs
<1>1. UNCHANGED <<claimRow, credit, late>> /\ run'.pc = "idle"
  BY RunEnds DEF ExtendDone
<1>2. /\ journal[c].status = "complete"
      /\ claimRow[c].expires = extension[c].to
      /\ \A k \in Credits : credit[c][k].expires = extension[c].to
  BY <1>0 DEF CreditInv, ExtensionOK, ExtensionPcs
<1>3. \A c2 \in Claims :
        /\ journal'[c2].status = journal[c2].status
        /\ journal'[c2].attempted = journal[c2].attempted
        /\ journal'[c2].expires = IF c2 = c THEN extension[c].to ELSE journal[c2].expires
  <2> SUFFICES ASSUME NEW c2 \in Claims
               PROVE  /\ journal'[c2].status = journal[c2].status
                      /\ journal'[c2].attempted = journal[c2].attempted
                      /\ journal'[c2].expires =
                           IF c2 = c THEN extension[c].to ELSE journal[c2].expires
    OBVIOUS
  <2>1. journal[c2] \in JournalType /\ journal \in [Claims -> JournalType]
    BY <1>0 DEF Types, ActorTypes
  <2>2. journal' = [journal EXCEPT ![c].expires = extension[c].to]
    BY DEF ExtendDone
  <2> HIDE DEF c
  <2> QED BY <1>0, <2>1, <2>2 DEF JournalType
<1>4. \A c2 \in Claims :
        /\ c2 # c => extension'[c2] = extension[c2]
        /\ c2 = c => /\ extension'[c2].status = "complete"
                     /\ extension'[c2].to = extension[c].to
  <2>1. extension[c] \in ExtensionType /\ extension \in [Claims -> ExtensionType]
    BY <1>0 DEF Types, ActorTypes
  <2>2. extension' = [extension EXCEPT ![c].status = "complete"]
    BY DEF ExtendDone
  <2> HIDE DEF c
  <2> QED BY <1>0, <2>1, <2>2 DEF ExtensionType
<1>5. CreatedOnce' /\ CompleteHasRows'
  BY <1>1, <1>3 DEF CreditInv, CreatedOnce, RowOK, Creating, CompleteHasRows
<1>6. ExtendedWhenComplete' /\ OneExpiry'
  <2> HIDE DEF c
  <2> QED BY <1>1, <1>2, <1>3, <1>4 DEF CreditInv, ExtendedWhenComplete, OneExpiry, Expiry
<1>7. ActivationOK(run', extension', credit')
      /\ ExtensionOK(run', journal', extension', claimRow', credit')
  BY <1>1 DEF ActivationOK, ExtensionOK, ActivationPcs, ExtensionPcs
<1> QED BY <1>5, <1>6, <1>7 DEF CreditInv

LEMMA StopCredits ==
    ASSUME CreditInv, Types', Stop
    PROVE  CreditInv'
<1> USE DEF actor, airtable
<1>0. Types
  BY DEF CreditInv
<1>1. UNCHANGED <<journal, extension, claimRow, credit>> /\ run'.pc = "idle"
  BY RunEnds DEF Stop
<1>2. \A c \in Claims, k \in Credits :
        <<"credit", c, k>> \in late' => <<"credit", c, k>> \in late \/ Creating(c, k)
  <2> SUFFICES ASSUME NEW c \in Claims, NEW k \in Credits, <<"credit", c, k>> \in Sent
               PROVE  Creating(c, k)
    BY DEF Stop
  <2>1. CASE run.pc = "create"
    <3>1. Sent = {<<"credit", run.claim, First(run.left)>>}
      BY <1>0, <2>1, SentShape
    <3> QED BY <2>1, <3>1 DEF Creating
  <2>2. CASE run.pc = "create final"
    <3>1. Sent = {<<"final", run.job, run.credit>>}
      BY <1>0, <2>2, SentShape
    <3> QED BY <3>1
  <2> QED BY <1>0, <2>1, <2>2, SentShape
<1>3. CreatedOnce'
  <2> SUFFICES ASSUME NEW c \in Claims, NEW k \in Credits
               PROVE  RowOK(credit'[c][k].rows, k \in journal'[c].attempted,
                            <<"credit", c, k>> \in late', Creating(c, k)')
    BY DEF CreatedOnce
  <2>1. RowOK(credit[c][k].rows, k \in journal[c].attempted,
              <<"credit", c, k>> \in late, Creating(c, k))
    BY DEF CreditInv, CreatedOnce
  <2>2. ~Creating(c, k)'
    BY <1>1 DEF Creating
  <2> QED BY <1>1, <1>2, <2>1, <2>2 DEF RowOK
<1>4. CompleteHasRows' /\ ExtendedWhenComplete' /\ OneExpiry'
  BY <1>1 DEF CreditInv, CompleteHasRows, ExtendedWhenComplete, OneExpiry, Expiry
<1> QED BY <1>1, <1>3, <1>4 DEF CreditInv, ActivationOK, ExtensionOK, ActivationPcs,
        ExtensionPcs

LEMMA LandCredits ==
    ASSUME CreditInv, Types', NEW w \in late, Land(w)
    PROVE  CreditInv'
<1> USE DEF actor, airtable
<1>0. Types
  BY DEF CreditInv
<1>1. UNCHANGED <<journal, extension, claimRow, run>> /\ late' = late \ {w}
  BY DEF Land
<1>2. CASE w[1] = "credit"
  <2>1. PICK c \in Claims, k \in Credits : w = <<"credit", c, k>> /\ w[2] = c /\ w[3] = k
    BY <1>0, <1>2, LateShape
  <2>2. credit' = Created(c, k)
    BY <1>2, <2>1 DEF Land
  <2>3. /\ credit[c][k].rows = 0
        /\ \A c2 \in Claims : \A k2 \in Credits :
             credit'[c2][k2].rows = IF c2 = c /\ k2 = k THEN 1 ELSE credit[c2][k2].rows
        /\ CompleteHasRows' /\ ExtendedWhenComplete' /\ OneExpiry'
    BY <1>1, <2>1, <2>2, LandedCredit
  <2>4. CreatedOnce'
    <3> SUFFICES ASSUME NEW c2 \in Claims, NEW k2 \in Credits
                 PROVE  RowOK(credit'[c2][k2].rows, k2 \in journal'[c2].attempted,
                              <<"credit", c2, k2>> \in late', Creating(c2, k2)')
      BY DEF CreatedOnce
    <3>1. RowOK(credit[c2][k2].rows, k2 \in journal[c2].attempted,
                <<"credit", c2, k2>> \in late, Creating(c2, k2))
      BY DEF CreditInv, CreatedOnce
    <3>2. Creating(c2, k2)' <=> Creating(c2, k2)
      BY <1>1 DEF Creating
    <3>3. <<"credit", c2, k2>> \in late' <=>
            <<"credit", c2, k2>> \in late /\ ~(c2 = c /\ k2 = k)
      BY <1>1, <2>1
    <3> QED BY <1>1, <2>1, <2>3, <3>1, <3>2, <3>3 DEF RowOK
  <2>5. /\ ActivationOK(run', extension', credit')
        /\ ExtensionOK(run', journal', extension', claimRow', credit')
    <3>1. run.pc \in ActivationPcs =>
            \A k2 \in Credits \ run.left : credit'[run.claim][k2].rows = 1
      BY <1>0, <2>3 DEF CreditInv, ActivationOK, Types, RunFields
    <3>2. run.pc \in ExtensionPcs => run.claim \in Claims /\ run.claim # c
      BY <1>0, <2>3 DEF CreditInv, ExtensionOK, CompleteHasRows, Types, RunFields
    <3>3. \A k2 \in Credits : \A c2 \in Claims :
            c2 # c => credit'[c2][k2].expires = credit[c2][k2].expires
      BY <1>0, <2>1, <2>2, CreditWrites
    <3> QED BY <1>1, <3>1, <3>2, <3>3 DEF CreditInv, ActivationOK, ExtensionOK
  <2> QED BY <2>3, <2>4, <2>5 DEF CreditInv
<1>3. CASE w[1] # "credit"
  <2>1. UNCHANGED credit
    BY <1>3 DEF Land
  <2>2. \A c \in Claims, k \in Credits :
          <<"credit", c, k>> \in late' <=> <<"credit", c, k>> \in late
    BY <1>1, <1>3
  <2>3. CreatedOnce' /\ CompleteHasRows' /\ ExtendedWhenComplete' /\ OneExpiry'
    BY <1>1, <2>1, <2>2 DEF CreditInv, CreatedOnce, RowOK, Creating, CompleteHasRows,
       ExtendedWhenComplete, OneExpiry, Expiry
  <2> QED BY <1>1, <2>1, <2>3 DEF CreditInv
<1> QED BY <1>2, <1>3

LEMMA CreditStep == CreditInv /\ [Next]_vars => CreditInv'
<1> SUFFICES ASSUME CreditInv, [Next]_vars PROVE CreditInv'
  OBVIOUS
<1>0. Types'
  BY TypesStep DEF CreditInv
<1>1. CASE UNCHANGED vars
  BY <1>0, <1>1 DEF vars, actor, airtable, CreditInv, CreatedOnce, Creating,
     CompleteHasRows, ExtendedWhenComplete, OneExpiry, Expiry
<1>2. CASE Next
  <2>1. CASE Activation
    BY <1>0, <2>1, ActivateCredits, AttemptCredits, CreateCredits, ApplyCredits,
       ActivateDoneCredits DEF Activation
  <2>2. CASE Extension
    BY <1>0, <2>2, ExtendCredits, ExtendCreditCredits, ExtendClaimCredits,
       ExtendDoneCredits DEF Extension
  <2>3. CASE Redemption \/ Bill \/ Pricing
    BY <1>0, <2>3, OtherHandlersCredits
  <2>4. CASE World
    BY <1>0, <2>4, OtherHandlersCredits, StopCredits, LandCredits DEF World
  <2> QED BY <1>2, <2>1, <2>2, <2>3, <2>4, NextByHandler
<1> QED BY <1>1, <1>2

LEMMA CreditInvariance == Spec => []CreditInv
BY CreditInit, CreditStep, PTL DEF Spec

(***************************************************************************)
(* Every variable of the coordinator and every row keeps the shape the     *)
(* code gives it, in whatever order handlers run, stop and land late.      *)
(***************************************************************************)
THEOREM TypeCorrect == Spec => []TypeOK
<1>1. ASSUME CreditInv PROVE TypeOK
  <2>0. Types
    BY <1>1 DEF CreditInv
  <2>1. ASSUME NEW c \in Claims
        PROVE  /\ journal[c].status \in {"none", "begun", "complete"}
               /\ journal[c].attempted \subseteq Credits
               /\ journal[c].expires \in Months
               /\ extension[c].status \in {"none", "pending", "complete"}
               /\ \A i \in 1..Len(allocations[c]) : allocations[c][i].job \in Jobs
               /\ claimRow[c].expires \in Months
               /\ credit[c] \in [Credits -> CreditStates]
    <3>1. journal[c] \in JournalType /\ extension[c] \in ExtensionType
      BY <2>0, RecordTypes
    <3>2. \A i \in 1..Len(allocations[c]) : allocations[c][i] \in Allocation
      BY <2>0, ElementOfSeq DEF Types, ActorTypes
    <3>3. claimRow[c].expires \in Months
      BY <2>0 DEF Types, AirtableTypes
    <3>4. \A old \in CreditType : old \in CreditStates
      BY MonthsAreNat DEF CreditType, CreditStates
    <3>5. credit[c] \in [Credits -> CreditStates]
      BY <2>0, <3>4 DEF Types, AirtableTypes
    <3> QED BY <3>1, <3>2, <3>3, <3>5 DEF JournalType, ExtensionType, Allocation
  <2>2. \A j \in Jobs : discount[j].status \in {"none", "pending", "applied", "cancelled"}
    BY <2>0 DEF Types, ActorTypes, DiscountType
  <2>3. \A j \in Jobs : approval[j] # None => approval[j] \in {0, 1} \X {"full"}
    BY <2>0 DEF Types, ActorTypes
  <2> QED BY <2>0, <2>1, <2>2, <2>3 DEF TypeOK, Types, ActorTypes, AirtableTypes, Months
<1> QED BY <1>1, CreditInvariance, PTL

(***************************************************************************)
(* Unless an extension is under way, the journals, the claim and its four  *)
(* credits have one expiry, wherever an activation or an extension         *)
(* stopped and whatever create lands late.                                 *)
(***************************************************************************)
THEOREM OneExpiryForAll == Spec => []ExpiriesAgree
<1>1. CreditInv => ExpiriesAgree
  BY DEF CreditInv, OneExpiry, ExpiriesAgree
<1> QED BY <1>1, CreditInvariance, PTL

-----------------------------------------------------------------------------
(* The allocations and the debits.                                         *)

LEMMA WalletInit == Init => WalletInv
<1> SUFFICES ASSUME Init PROVE WalletInv
  OBVIOUS
<1>1. \A c \in Claims : allocations[c] = <<>>
  BY DEF Init
<1>2. ClaimedOnce
  BY <1>1 DEF Init, ClaimedOnce, JobsOf, Moments
<1>3. \A c \in Claims : \A k \in Credits : ~credit[c][k].used
  BY DEF Init
<1>4. DebitsFollow
  BY <1>1, <1>3, CreditIndex DEF DebitsFollow, Moments
<1>5. ClaimOK(run, jobClaim)
  BY DEF Init, Idle, ClaimOK, PricingPcs
<1> QED BY <1>2, <1>4, <1>5 DEF WalletInv

\* A step that neither allocates nor debits.
LEMMA WalletStill ==
    ASSUME WalletInv, UNCHANGED <<allocations, jobClaim>>,
           \A c \in Claims : \A k \in Credits : credit'[c][k].used <=> credit[c][k].used,
           ClaimOK(run', jobClaim)
    PROVE  WalletInv'
BY DEF WalletInv, ClaimedOnce, DebitsFollow, JobsOf

\* The creates and the extensions use no credit.
LEMMA RowWritesUseNothing ==
    ASSUME Types, Activation \/ Extension \/ World
    PROVE  \A c \in Claims : \A k \in Credits : credit'[c][k].used <=> credit[c][k].used
<1> USE DEF actor, airtable
<1>1. CASE CreateCredit
  <2>1. run.claim \in Claims /\ First(run.left) \in Credits
    BY <1>1, FirstCredit DEF CreateCredit, Types, RunFields, RunType, ActivationPcs
  <2> QED BY <1>1, <2>1, CreditWrites DEF CreateCredit
<1>2. CASE ExtendCredit
  <2>1. run.claim \in Claims /\ First(Unextended(run.claim)) \in Credits
    BY <1>2, FirstCredit DEF ExtendCredit, Unextended, Types, RunFields, ExtensionPcs
  <2>2. extension[run.claim].to \in Months
    BY <2>1, RecordTypes DEF ExtensionType
  <2> QED BY <1>2, <2>1, <2>2, CreditWrites DEF ExtendCredit
<1>3. ASSUME NEW w \in late, Land(w)
      PROVE  \A c \in Claims : \A k \in Credits : credit'[c][k].used <=> credit[c][k].used
  <2>1. CASE w[1] = "credit"
    <3>1. w[2] \in Claims /\ w[3] \in Credits
      BY <2>1, LateShape
    <3> QED BY <1>3, <2>1, <3>1, CreditWrites DEF Land
  <2> QED BY <1>3, <2>1 DEF Land
<1>4. CASE UNCHANGED credit
  BY <1>4
<1> QED
  BY <1>1, <1>2, <1>3, <1>4 DEF Activation, Activate, AttemptCredit, ApplyClaim,
     ActivateDone, Extension, Extend, ExtendClaim, ExtendDone, World, Stop, Month, JobMoves

LEMMA RowHandlerPcs ==
    ASSUME Types, Activation \/ Extension
    PROVE  run'.pc \in {"idle"} \cup ActivationPcs \cup ExtensionPcs
<1>0. /\ \A pc \in Pcs : Goes(pc) => run'.pc = pc
      /\ Ends => run'.pc = "idle"
  <2>1. ASSUME NEW pc \in Pcs, Goes(pc) PROVE run'.pc = pc
    BY <2>1 DEF Types, RunFields, RunType, Goes
  <2> QED BY <2>1, RunEnds
<1>1. ASSUME NEW c \in Claims, Activate(c) PROVE run'.pc = "credits"
  BY <1>1 DEF Activate, Idle
<1>2. ASSUME NEW q \in Extends, Extend(q) PROVE run'.pc = "extend"
  BY <1>2 DEF Extend, Idle
<1>3. CASE CreateCredit
  BY <1>3 DEF CreateCredit, Types, RunFields, RunType, ActivationPcs
<1>4. CASE ExtendCredit
  BY <1>4 DEF ExtendCredit, ExtensionPcs
<1>5. CASE AttemptCredit \/ ApplyClaim \/ ActivateDone \/ ExtendClaim \/ ExtendDone
  BY <1>0, <1>5 DEF AttemptCredit, ApplyClaim, ActivateDone, ExtendClaim, ExtendDone,
     Pcs, ActivationPcs, ExtensionPcs
<1> QED BY <1>1, <1>2, <1>3, <1>4, <1>5 DEF Activation, Extension, ActivationPcs, ExtensionPcs

LEMMA RowsWallet ==
    ASSUME Types, WalletInv, Activation \/ Extension \/ Bill \/ World
    PROVE  WalletInv'
<1> USE DEF actor, airtable
<1>1. UNCHANGED <<allocations, jobClaim>>
  BY DEF Activation, Activate, AttemptCredit, CreateCredit, ApplyClaim, ActivateDone,
     Extension, Extend, ExtendCredit, ExtendClaim, ExtendDone, Bill, FinalIntent,
     ReadFinal, CreateFinal, FinalDone, World, Stop, Month, JobMoves, Land
<1>2. \A c \in Claims : \A k \in Credits : credit'[c][k].used <=> credit[c][k].used
  <2>1. Bill => UNCHANGED credit
    BY DEF Bill, FinalIntent, ReadFinal, CreateFinal, FinalDone
  <2> QED BY <2>1, RowWritesUseNothing
<1>3. ClaimOK(run', jobClaim)
  <2>1. ClaimOK(run, jobClaim)
    BY DEF WalletInv
  <2>2. \/ run' = run
        \/ run'.pc \in {"idle"} \cup ActivationPcs \cup ExtensionPcs \cup BillingPcs
    BY HandlerPcs, RowHandlerPcs
  <2> QED BY <2>1, <2>2 DEF ClaimOK, ActivationPcs, ExtensionPcs, BillingPcs, PricingPcs
<1> QED BY <1>1, <1>2, <1>3, WalletStill

LEMMA PricingWallet ==
    ASSUME Types, WalletInv, Pricing
    PROVE  WalletInv'
<1> USE DEF actor, airtable
<1>1. UNCHANGED <<allocations, jobClaim, credit>>
  BY DEF Pricing, Approve, Revoke, Resolve, Mutate, DiscountBegin, PromoRefused,
     SetPrice, DiscountDone
<1>2. run'.pc \in PricingPcs => jobClaim[run'.job] = None
  <2>1. ClaimOK(run, jobClaim)
    BY DEF WalletInv
  <2>2. ASSUME NEW j \in Jobs, NEW resolution,
               Approve(j) \/ Revoke(j) \/ Resolve(j, resolution)
        PROVE  run' = run
    BY <2>2 DEF Approve, Revoke, Resolve
  <2>3. ASSUME NEW d \in Discounts, Mutate(d)
        PROVE  run'.job = d.job /\ jobClaim[d.job] = None
    BY <2>3 DEF Mutate, Idle
  <2>4. ASSUME DiscountBegin \/ SetPrice \/ DiscountDone \/ PromoRefused
        PROVE  run' = Idle \/ (run'.job = run.job /\ run.pc \in PricingPcs)
    BY <2>4 DEF DiscountBegin, SetPrice, DiscountDone, PromoRefused, Goes, Ends,
       PricingPcs, Types, RunFields, RunType
  <2>5. Idle.pc \notin PricingPcs
    BY DEF Idle, PricingPcs
  <2> QED BY <2>1, <2>2, <2>3, <2>4, <2>5 DEF Pricing, ClaimOK
<1>3. ClaimOK(run', jobClaim)
  <2>1. run'.pc # "debit"
    BY HandlerPcs DEF PricingPcs
  <2> QED BY <1>2, <2>1 DEF ClaimOK
<1> QED BY <1>1, <1>3, WalletStill

\* The claim of a job is the one whose allocations name it.
LEMMA ClaimOfAllocated ==
    ASSUME ClaimedOnce, NEW c \in Claims, NEW j \in Jobs
    PROVE  /\ j \in JobsOf(allocations[c]) <=> jobClaim[j] = c
           /\ Allocated(c, j) # {} <=> j \in JobsOf(allocations[c])
BY ClaimsAssumption DEF ClaimsAssumption, ClaimedOnce, JobsOf, Allocated

LEMMA RedeemWallet ==
    ASSUME Types, WalletInv, NEW c \in Claims, NEW j \in Jobs, NEW checkout \in BOOLEAN,
           Redeem(c, j, checkout)
    PROVE  WalletInv'
<1> USE DEF actor, airtable
<1>1. UNCHANGED credit
  BY DEF Redeem
<1>2. /\ run'.pc = "debit" => run'.claim = c /\ run'.job = j
      /\ run'.pc \notin PricingPcs
  BY DEF Redeem, Idle, PricingPcs
<1>3. ClaimedOnce /\ DebitsFollow
  BY DEF WalletInv
<1>4. CASE Allocated(c, j) # {}
  <2>1. UNCHANGED <<allocations, jobClaim>>
    BY <1>4 DEF Redeem
  <2>2. jobClaim[j] = c
    BY <1>3, <1>4, ClaimOfAllocated
  <2>3. ClaimOK(run', jobClaim)
    BY <1>2, <2>2 DEF ClaimOK
  <2> QED BY <1>1, <2>1, <2>3, WalletStill
<1>5. CASE Allocated(c, j) = {}
  <2> DEFINE e == [job |-> j, complete |-> FALSE]
             s == allocations[c]
  <2>1. /\ allocations' = [allocations EXCEPT ![c] = Append(s, e)]
        /\ jobClaim' = [jobClaim EXCEPT ![j] = c]
        /\ Len(s) < Moments
    BY <1>5 DEF Redeem, MayRedeem
  <2>2. s \in Seq(Allocation) /\ e \in Allocation /\ Len(s) \in Nat
    BY LenProperties DEF Types, ActorTypes, Allocation
  <2>3. jobClaim[j] = None
    BY <1>3, <1>5, ClaimOfAllocated DEF Redeem, MayRedeem, Redeemable
  <2>4. /\ Len(Append(s, e)) = Len(s) + 1
        /\ \A i \in 1..Len(s) : Append(s, e)[i] = s[i]
        /\ Append(s, e)[Len(s) + 1] = e
    BY <2>2, AppendProperties
  <2>5. JobsOf(Append(s, e)) = JobsOf(s) \cup {j}
    <3>1. 1..(Len(s) + 1) = (1..Len(s)) \cup {Len(s) + 1}
      BY <2>2
    <3>2. e.job = j
      OBVIOUS
    <3> HIDE DEF s, e
    <3> QED BY <2>4, <3>1, <3>2 DEF JobsOf
  <2>6. \A c2 \in Claims : allocations'[c2] = IF c2 = c THEN Append(s, e) ELSE allocations[c2]
    BY <2>1 DEF Types, ActorTypes
  <2>7. \A j2 \in Jobs : jobClaim'[j2] = IF j2 = j THEN c ELSE jobClaim[j2]
    BY <2>1 DEF Types, ActorTypes
  <2>8. jobClaim \in [Jobs -> Claims \cup {None}]
    BY DEF Types, ActorTypes
  <2>9. \A c2 \in Claims : JobsOf(allocations[c2]) \subseteq Jobs
    <3> SUFFICES ASSUME NEW c2 \in Claims, NEW i \in 1..Len(allocations[c2])
                 PROVE  allocations[c2][i].job \in Jobs
      BY DEF JobsOf
    <3>1. allocations[c2][i] \in Allocation
      BY ElementOfSeq DEF Types, ActorTypes
    <3> QED BY <3>1 DEF Allocation
  <2>10. ClaimedOnce'
    <3> HIDE DEF s, e
    <3>1. \A c2 \in Claims : Len(allocations'[c2]) <= Moments
      BY <1>3, <2>1, <2>2, <2>4, <2>6 DEF ClaimedOnce, Moments
    <3>2. ASSUME NEW c2 \in Claims, NEW j2 \in JobsOf(allocations'[c2])
          PROVE  jobClaim'[j2] = c2
      <4>1. CASE c2 = c
        <5>1. j2 \in JobsOf(s) \cup {j}
          BY <2>5, <2>6, <3>2, <4>1
        <5>2. j2 \in JobsOf(s) => jobClaim[j2] = c /\ j2 \in Jobs
          BY <1>3, <2>9 DEF ClaimedOnce, s
        <5> QED BY <2>7, <4>1, <5>1, <5>2
      <4>2. CASE c2 # c
        <5>1. jobClaim[j2] = c2 /\ j2 \in Jobs
          BY <1>3, <2>6, <2>9, <3>2, <4>2 DEF ClaimedOnce
        <5> QED BY <2>3, <2>7, <5>1, ClaimsAssumption DEF ClaimsAssumption
      <4> QED BY <4>1, <4>2
    <3>3. ASSUME NEW j2 \in Jobs, jobClaim'[j2] # None
          PROVE  j2 \in JobsOf(allocations'[jobClaim'[j2]])
      <4>1. CASE j2 = j
        BY <2>5, <2>6, <2>7, <4>1
      <4>2. CASE j2 # j
        <5>1. jobClaim'[j2] = jobClaim[j2] /\ jobClaim[j2] \in Claims
          BY <2>7, <2>8, <3>3, <4>2
        <5>2. j2 \in JobsOf(allocations[jobClaim[j2]])
          BY <1>3, <3>3, <5>1 DEF ClaimedOnce
        <5> QED BY <2>5, <2>6, <5>1, <5>2 DEF s
      <4> QED BY <4>1, <4>2
    <3> QED BY <3>1, <3>2, <3>3 DEF ClaimedOnce
  <2>11. DebitsFollow'
    <3> SUFFICES ASSUME NEW c2 \in Claims, NEW k \in Credits
                 PROVE  /\ credit[c2][k].used => k[2] <= Len(allocations'[c2])
                        /\ k[2] <= Len(allocations'[c2]) /\ allocations'[c2][k[2]].complete
                             => credit[c2][k].used
      BY <1>1 DEF DebitsFollow
    <3>1. /\ credit[c2][k].used => k[2] <= Len(allocations[c2])
          /\ k[2] <= Len(allocations[c2]) /\ allocations[c2][k[2]].complete
               => credit[c2][k].used
      BY <1>3 DEF DebitsFollow
    <3>2. k[2] \in 1..Moments
      BY CreditIndex
    <3>3. CASE c2 # c
      BY <2>6, <3>1, <3>3
    <3>4. CASE c2 = c
      <4>1. ~e.complete
        OBVIOUS
      <4> HIDE DEF e
      <4>2. \/ k[2] \in 1..Len(s)
            \/ k[2] = Len(s) + 1
            \/ k[2] > Len(s) + 1
        BY <2>2, <3>2
      <4>3. allocations'[c2] = Append(s, e) /\ allocations[c2] = s
        BY <2>6, <3>4 DEF s
      <4>4. CASE k[2] \in 1..Len(s)
        <5>1. Append(s, e)[k[2]] = s[k[2]] /\ k[2] <= Len(s)
          BY <2>2, <2>4, <4>4
        <5> QED BY <2>2, <2>4, <3>1, <3>2, <4>3, <5>1 DEF Moments
      <4>5. CASE k[2] = Len(s) + 1
        BY <2>2, <2>4, <3>1, <4>1, <4>3, <4>5
      <4>6. CASE k[2] > Len(s) + 1
        BY <2>2, <2>4, <3>1, <3>2, <4>3, <4>6 DEF Moments
      <4> QED BY <4>2, <4>4, <4>5, <4>6
    <3> QED BY <3>3, <3>4
  <2>12. ClaimOK(run', jobClaim')
    BY <1>2, <2>7 DEF ClaimOK
  <2> QED BY <2>10, <2>11, <2>12 DEF WalletInv
<1> QED BY <1>4, <1>5

LEMMA DebitWallet ==
    ASSUME Types, WalletInv, Debit
    PROVE  WalletInv'
<1> USE DEF actor, airtable
<1> DEFINE c == run.claim
           k == First(Undebited(c, run.job))
<1>0. c \in Claims /\ run.job \in Jobs /\ Undebited(c, run.job) # {}
  BY DEF Debit, Types, RunFields
<1>1. k \in Credits /\ k \in Undebited(c, run.job)
  BY <1>0, FirstCredit DEF Undebited
<1>2. k[2] \in 1..Len(allocations[c])
  BY <1>1 DEF Undebited, Allocated
<1>3. UNCHANGED <<allocations, jobClaim, run>>
      /\ credit' = [credit EXCEPT ![c][k].used = TRUE]
  BY DEF Debit
<1>4. \A c2 \in Claims : \A k2 \in Credits :
        credit'[c2][k2].used <=> credit[c2][k2].used \/ (c2 = c /\ k2 = k)
  <2> HIDE DEF c, k
  <2> QED BY <1>0, <1>1, <1>3, CreditWrites
<1>5. Len(allocations[c]) \in Nat
  BY <1>0, LenProperties DEF Types, ActorTypes
<1>6. DebitsFollow'
  <2> HIDE DEF c, k
  <2> QED BY <1>2, <1>3, <1>4, <1>5 DEF WalletInv, DebitsFollow
<1>7. ClaimedOnce' /\ ClaimOK(run', jobClaim')
  BY <1>3 DEF WalletInv, ClaimedOnce, JobsOf
<1> QED BY <1>6, <1>7 DEF WalletInv

\* What the end of a debit writes.
LEMMA CompletedAllocations ==
    ASSUME Types, DebitDone
    PROVE  /\ run.claim \in Claims /\ run.job \in Jobs
           /\ \A c \in Claims :
                /\ Len(allocations'[c]) = Len(allocations[c])
                /\ \A i \in 1..Len(allocations[c]) :
                     /\ allocations'[c][i].job = allocations[c][i].job
                     /\ allocations'[c][i].complete <=>
                          \/ allocations[c][i].complete
                          \/ c = run.claim /\ allocations[c][i].job = run.job
<1>1. run.claim \in Claims /\ run.job \in Jobs
  BY DEF DebitDone, Types, RunFields
<1>2. allocations' = [allocations EXCEPT ![run.claim] = Completed(allocations[run.claim], run.job)]
  BY <1>1 DEF DebitDone, Completed, Types, ActorTypes
<1>3. \A c \in Claims : allocations[c] \in Seq(Allocation)
  BY DEF Types, ActorTypes
<1>4. ASSUME NEW c \in Claims
      PROVE  /\ Len(allocations'[c]) = Len(allocations[c])
             /\ \A i \in 1..Len(allocations[c]) :
                  /\ allocations'[c][i].job = allocations[c][i].job
                  /\ allocations'[c][i].complete <=>
                       \/ allocations[c][i].complete
                       \/ c = run.claim /\ allocations[c][i].job = run.job
  <2>1. allocations'[c] = IF c = run.claim THEN Completed(allocations[c], run.job)
                                           ELSE allocations[c]
    BY <1>2 DEF Types, ActorTypes
  <2>2. CASE c = run.claim
    <3>1. /\ Len(Completed(allocations[c], run.job)) = Len(allocations[c])
          /\ \A i \in 1..Len(allocations[c]) :
               /\ Completed(allocations[c], run.job)[i].job = allocations[c][i].job
               /\ Completed(allocations[c], run.job)[i].complete <=>
                    allocations[c][i].complete \/ allocations[c][i].job = run.job
      BY <1>3, CompletedIsSequence
    <3>2. allocations'[c] = Completed(allocations[c], run.job)
      BY <2>1, <2>2
    <3> QED BY <2>2, <3>1, <3>2
  <2>3. CASE c # run.claim
    BY <2>1, <2>3
  <2> QED BY <2>2, <2>3
<1> QED BY <1>1, <1>4

LEMMA DebitDoneWallet ==
    ASSUME Types, WalletInv, DebitDone
    PROVE  WalletInv'
<1> USE DEF actor, airtable
<1>1. UNCHANGED <<credit, jobClaim>> /\ Undebited(run.claim, run.job) = {}
  BY DEF DebitDone
<1>2. run'.pc \in {"idle", "final"}
  BY RunGoes, RunEnds DEF DebitDone, Types, BillingPcs, Pcs
<1>3. /\ run.claim \in Claims /\ run.job \in Jobs
      /\ \A c \in Claims :
           /\ Len(allocations'[c]) = Len(allocations[c])
           /\ \A i \in 1..Len(allocations[c]) :
                /\ allocations'[c][i].job = allocations[c][i].job
                /\ allocations'[c][i].complete <=>
                     \/ allocations[c][i].complete
                     \/ c = run.claim /\ allocations[c][i].job = run.job
  BY CompletedAllocations
<1>4. \A c \in Claims : JobsOf(allocations'[c]) = JobsOf(allocations[c])
  BY <1>3 DEF JobsOf
<1>5. ClaimedOnce'
  <2>1. jobClaim \in [Jobs -> Claims \cup {None}]
    BY DEF Types, ActorTypes
  <2> QED BY <1>1, <1>3, <1>4, <2>1 DEF WalletInv, ClaimedOnce
<1>6. DebitsFollow'
  <2> SUFFICES ASSUME NEW c \in Claims, NEW k \in Credits
               PROVE  /\ credit[c][k].used => k[2] <= Len(allocations[c])
                      /\ k[2] <= Len(allocations[c]) /\ allocations'[c][k[2]].complete
                           => credit[c][k].used
    BY <1>1, <1>3 DEF DebitsFollow
  <2>1. /\ credit[c][k].used => k[2] <= Len(allocations[c])
        /\ k[2] <= Len(allocations[c]) /\ allocations[c][k[2]].complete
             => credit[c][k].used
    BY DEF WalletInv, DebitsFollow
  <2>2. ASSUME k[2] <= Len(allocations[c]), allocations'[c][k[2]].complete
        PROVE  credit[c][k].used
    <3>1. k[2] \in 1..Len(allocations[c])
      <4>1. k[2] \in 1..Moments /\ Len(allocations[c]) \in Nat
        BY CreditIndex, LenProperties DEF Types, ActorTypes
      <4> QED BY <2>2, <4>1 DEF Moments
    <3>2. CASE allocations[c][k[2]].complete
      BY <2>1, <2>2, <3>2
    <3>3. CASE c = run.claim /\ allocations[c][k[2]].job = run.job
      <4>1. k[2] \in Allocated(c, run.job)
        BY <3>1, <3>3 DEF Allocated
      <4> QED BY <1>1, <3>3, <4>1 DEF Undebited
    <3> QED BY <1>3, <2>2, <3>1, <3>2, <3>3
  <2> QED BY <2>1, <2>2
<1>7. ClaimOK(run', jobClaim')
  BY <1>2 DEF ClaimOK, PricingPcs
<1> QED BY <1>5, <1>6, <1>7 DEF WalletInv

LEMMA WalletStep == Types /\ WalletInv /\ [Next]_vars => WalletInv'
<1> SUFFICES ASSUME Types, WalletInv, [Next]_vars PROVE WalletInv'
  OBVIOUS
<1>1. CASE UNCHANGED vars
  BY <1>1 DEF vars, actor, airtable, WalletInv, ClaimedOnce, DebitsFollow, JobsOf
<1>2. CASE Next
  <2>1. CASE Activation \/ Extension \/ Bill \/ World
    BY <2>1, RowsWallet
  <2>2. CASE Redemption
    BY <2>2, RedeemWallet, DebitWallet, DebitDoneWallet DEF Redemption
  <2>3. CASE Pricing
    BY <2>3, PricingWallet
  <2> QED BY <1>2, <2>1, <2>2, <2>3, NextByHandler
<1> QED BY <1>1, <1>2

LEMMA WalletInvariance == Spec => [](CreditInv /\ WalletInv)
<1>1. CreditInv => Types
  BY DEF CreditInv
<1> QED BY <1>1, CreditInit, CreditStep, WalletInit, WalletStep, PTL DEF Spec

(***************************************************************************)
(* The credit rows follow the journals, for any requests and any number    *)
(* of handlers that stop: one row at most for a credit, although a create  *)
(* may land after its activation was sent again; a credit is debited only  *)
(* for the moment it belongs to; a complete moment has both debited.       *)
(***************************************************************************)
THEOREM CreditsFollow == Spec => []CreditsFollowJournal
<1>1. ASSUME CreditInv, WalletInv PROVE CreditsFollowJournal
  BY <1>1 DEF CreditInv, CreatedOnce, RowOK, WalletInv, DebitsFollow, CreditsFollowJournal
<1> QED BY <1>1, WalletInvariance, PTL

-----------------------------------------------------------------------------
(* Refinement: every step is a step of MomentWallet, or a stutter.         *)

LEMMA GivenJobs ==
    /\ given = [c \in Claims |-> JobsOf(allocations[c])]
    /\ ClaimedOnce => \A c \in Claims : \A j \in Jobs : j \in given[c] <=> jobClaim[j] = c
<1>1. given = [c \in Claims |-> JobsOf(allocations[c])]
  BY DEF given, JobsOf
<1> QED BY <1>1, ClaimOfAllocated

LEMMA WalletCardinality == \A S : Wallet!Cardinality(S) = Cardinality(S)
BY DEF Wallet!Cardinality, Cardinality

LEMMA WalletStutter ==
    ASSUME UNCHANGED <<allocations, price>>
    PROVE  UNCHANGED Wallet!vars
BY DEF Wallet!vars, given, settled, discounted, Allocated

LEMMA AllocationRefines ==
    ASSUME Types, WalletInv, NEW c \in Claims, NEW j \in Jobs, NEW checkout \in BOOLEAN,
           Redeem(c, j, checkout)
    PROVE  [Wallet!Next]_Wallet!vars
<1> USE DEF actor, airtable
<1>0. ClaimedOnce /\ price' = price
  BY DEF WalletInv, Redeem
<1>1. CASE Allocated(c, j) # {}
  BY <1>0, <1>1, WalletStutter DEF Redeem
<1>2. CASE Allocated(c, j) = {}
  <2> DEFINE e == [job |-> j, complete |-> FALSE]
             s == allocations[c]
  <2>1. /\ allocations' = [allocations EXCEPT ![c] = Append(s, e)]
        /\ Len(s) < Moments
    BY <1>2 DEF Redeem, MayRedeem
  <2>2. s \in Seq(Allocation) /\ e \in Allocation /\ Len(s) \in Nat
    BY LenProperties DEF Types, ActorTypes, Allocation
  <2>3. /\ Len(Append(s, e)) = Len(s) + 1
        /\ \A i \in 1..Len(s) : Append(s, e)[i] = s[i]
        /\ Append(s, e)[Len(s) + 1] = e
        /\ 1..(Len(s) + 1) = (1..Len(s)) \cup {Len(s) + 1}
    BY <2>2, AppendProperties
  <2>4. \A c2 \in Claims : allocations'[c2] = IF c2 = c THEN Append(s, e) ELSE allocations[c2]
    BY <2>1 DEF Types, ActorTypes
  <2>5. e.job = j /\ ~e.complete
    OBVIOUS
  <2>6. JobsOf(Append(s, e)) = JobsOf(s) \cup {j}
    <3> HIDE DEF s, e
    <3> QED BY <2>3, <2>5 DEF JobsOf
  <2>7. given' = [given EXCEPT ![c] = given[c] \cup {j}]
    <3>1. given' = [c2 \in Claims |-> JobsOf(allocations'[c2])]
      BY DEF given, JobsOf
    <3> HIDE DEF s, e
    <3>2. \A c2 \in Claims : JobsOf(allocations'[c2]) =
            IF c2 = c THEN JobsOf(allocations[c]) \cup {j} ELSE JobsOf(allocations[c2])
      BY <2>4, <2>6 DEF s
    <3> QED BY <3>1, <3>2, GivenJobs
  <2>8. settled' = settled
    <3> SUFFICES ASSUME NEW c2 \in Claims, NEW j2 \in Jobs
                 PROVE  (\E i \in Allocated(c2, j2)' : allocations'[c2][i].complete)
                          <=> (\E i \in Allocated(c2, j2) : allocations[c2][i].complete)
      BY DEF settled
    <3>1. CASE c2 = c
      <4>1. allocations'[c2] = Append(s, e) /\ allocations[c2] = s
        BY <2>4, <3>1
      <4> HIDE DEF s, e
      <4>2. \A i \in 1..(Len(s) + 1) :
              Append(s, e)[i].complete <=> i \in 1..Len(s) /\ s[i].complete
        BY <2>2, <2>3, <2>5
      <4> QED BY <2>3, <4>1, <4>2 DEF Allocated
    <3>2. CASE c2 # c
      BY <2>4, <3>2 DEF Allocated
    <3> QED BY <3>1, <3>2
  <2>9. discounted' = discounted
    BY <1>0 DEF discounted
  <2>10. ~Wallet!Paid(j)
    <3>1. jobClaim[j] = None
      BY <1>0, <1>2, ClaimOfAllocated DEF Redeem, MayRedeem, Redeemable
    <3> QED BY <1>0, <3>1, GivenJobs, ClaimsAssumption DEF Wallet!Paid, ClaimsAssumption
  <2>11. j \notin discounted
    BY DEF Redeem, MayRedeem, Redeemable, Approved, discounted
  <2>12. Cardinality(given[c]) < Moments
    <3>1. given[c] = JobsOf(s)
      BY GivenJobs
    <3> HIDE DEF s
    <3>2. Len(s) = 0 \/ Len(s) = 1
      <4>1. Len(s) \in Nat /\ Len(s) < 2
        BY <2>1, <2>2 DEF Moments
      <4> QED BY <4>1
    <3>3. JobsOf(s) = {} \/ JobsOf(s) = {s[1].job}
      BY <3>2 DEF JobsOf
    <3>4. Cardinality({}) = 0 /\ Cardinality({s[1].job}) = 1
      BY FS_EmptySet, FS_Singleton
    <3> QED BY <3>1, <3>3, <3>4 DEF Moments
  <2>13. Wallet!Give(c, j)
    BY <2>7, <2>8, <2>9, <2>10, <2>11, <2>12, WalletCardinality DEF Wallet!Give
  <2> QED BY <2>13 DEF Wallet!Next
<1> QED BY <1>1, <1>2

LEMMA SettlementRefines ==
    ASSUME Types, WalletInv, DebitDone
    PROVE  [Wallet!Next]_Wallet!vars
<1> USE DEF actor, airtable
<1>0. ClaimedOnce /\ price' = price
  BY DEF WalletInv, DebitDone
<1>1. /\ run.claim \in Claims /\ run.job \in Jobs
      /\ \A c \in Claims :
           /\ Len(allocations'[c]) = Len(allocations[c])
           /\ \A i \in 1..Len(allocations[c]) :
                /\ allocations'[c][i].job = allocations[c][i].job
                /\ allocations'[c][i].complete <=>
                     \/ allocations[c][i].complete
                     \/ c = run.claim /\ allocations[c][i].job = run.job
  BY CompletedAllocations
<1>2. given' = given
  BY <1>1 DEF given
<1>3. \A c \in Claims : \A j \in Jobs : Allocated(c, j)' = Allocated(c, j)
  BY <1>1 DEF Allocated
<1>4. jobClaim[run.job] = run.claim
  BY DEF WalletInv, ClaimOK, DebitDone
<1>5. Allocated(run.claim, run.job) # {}
  BY <1>0, <1>1, <1>4, ClaimOfAllocated
<1>6. settled' = settled \cup {run.job}
  <2>1. ASSUME NEW j \in Jobs
        PROVE  (\E c \in Claims : \E i \in Allocated(c, j)' : allocations'[c][i].complete)
                 <=> \/ \E c \in Claims : \E i \in Allocated(c, j) : allocations[c][i].complete
                     \/ j = run.job
    <3>1. ASSUME NEW c \in Claims, NEW i \in Allocated(c, j)
          PROVE  allocations'[c][i].complete <=>
                   allocations[c][i].complete \/ (c = run.claim /\ j = run.job)
      BY <1>1 DEF Allocated
    <3> QED BY <1>1, <1>3, <1>5, <3>1
  <2> QED BY <1>1, <2>1 DEF settled
<1>7. discounted' = discounted
  BY <1>0 DEF discounted
<1>8. Wallet!Paid(run.job)
  BY <1>0, <1>1, <1>4, GivenJobs DEF Wallet!Paid
<1>9. Wallet!Settle(run.job)
  BY <1>2, <1>6, <1>7, <1>8 DEF Wallet!Settle
<1> QED BY <1>1, <1>9 DEF Wallet!Next

LEMMA PriceRefines ==
    ASSUME Types, WalletInv, SetPrice
    PROVE  [Wallet!Next]_Wallet!vars
<1> USE DEF actor, airtable
<1> DEFINE j == run.job
<1>1. ClaimedOnce /\ j \in Jobs /\ jobClaim[j] = None
  BY DEF WalletInv, ClaimOK, SetPrice, Types, RunFields, PricingPcs
<1>2. PICK next \in {"full", "discounted"} : price' = [price EXCEPT ![j] = next]
  BY DEF SetPrice
<1>3. discounted' \in {discounted \cup {j}, discounted \ {j}}
  <2> HIDE DEF j
  <2>1. \A j2 \in Jobs : price'[j2] = IF j2 = j THEN next ELSE price[j2]
    BY <1>1, <1>2 DEF Types, AirtableTypes
  <2>2. CASE next = "full"
    <3>1. discounted' = discounted \ {j}
      BY <1>1, <2>1, <2>2 DEF discounted
    <3> QED BY <3>1
  <2>3. CASE next = "discounted"
    <3>1. discounted' = discounted \cup {j}
      BY <1>1, <2>1, <2>3 DEF discounted
    <3> QED BY <3>1
  <2> QED BY <2>2, <2>3
<1>4. UNCHANGED <<given, settled>>
  BY DEF SetPrice, given, settled, Allocated
<1>5. ~Wallet!Paid(j)
  <2> HIDE DEF j
  <2> QED BY <1>1, GivenJobs, ClaimsAssumption DEF Wallet!Paid, ClaimsAssumption
<1>6. Wallet!Discount(j)
  BY <1>3, <1>4, <1>5 DEF Wallet!Discount
<1> QED BY <1>1, <1>6 DEF Wallet!Next

(***************************************************************************)
(* The journals, the credits and the prices together keep the promise made *)
(* to the client, whatever stops half way: two jobs per claim, one claim   *)
(* per job, a moment never taken back, and no discount beside credits.     *)
(***************************************************************************)
THEOREM WalletKept == Spec => KeepsWallet
<1> USE DEF actor, airtable
<1>1. Init => Wallet!Init
  <2> SUFFICES ASSUME Init PROVE Wallet!Init
    OBVIOUS
  <2>1. \A c \in Claims : allocations[c] = <<>>
    BY DEF Init
  <2>2. given = [c \in Claims |-> {}]
    BY <2>1 DEF given
  <2>3. settled = {}
    BY <2>1 DEF settled, Allocated
  <2>4. discounted = {}
    BY DEF Init, discounted
  <2> QED BY <2>2, <2>3, <2>4 DEF Wallet!Init
<1>2. ASSUME Types, WalletInv, [Next]_vars PROVE [Wallet!Next]_Wallet!vars
  <2>1. CASE Activation \/ Extension \/ Bill \/ World
    <3>1. UNCHANGED <<allocations, price>>
      BY <2>1 DEF Activation, Activate, AttemptCredit, CreateCredit, ApplyClaim,
         ActivateDone, Extension, Extend, ExtendCredit, ExtendClaim, ExtendDone, Bill,
         FinalIntent, ReadFinal, CreateFinal, FinalDone, World, Stop, Month, JobMoves, Land
    <3> QED BY <3>1, WalletStutter
  <2>2. CASE Redemption
    <3>1. CASE Debit
      BY <3>1, WalletStutter DEF Debit
    <3> QED BY <1>2, <2>2, <3>1, AllocationRefines, SettlementRefines DEF Redemption
  <2>3. CASE Pricing
    <3>1. CASE SetPrice
      BY <1>2, <3>1, PriceRefines
    <3>2. CASE UNCHANGED <<allocations, price>>
      BY <3>2, WalletStutter
    <3> QED BY <2>3, <3>1, <3>2 DEF Pricing, Approve, Revoke, Resolve, Mutate,
            DiscountBegin, PromoRefused, DiscountDone
  <2>4. CASE UNCHANGED vars
    BY <2>4, WalletStutter DEF vars
  <2> QED BY <1>2, <2>1, <2>2, <2>3, <2>4, NextByHandler
<1>3. CreditInv => Types
  BY DEF CreditInv
<1> QED BY <1>1, <1>2, <1>3, WalletInvariance, PTL DEF Spec, KeepsWallet, Wallet!Spec

-----------------------------------------------------------------------------
(* The bills.  The redeem route, which no worker of the repository calls,  *)
(* does not compare the bill with the credits as the checkout does.        *)

UnbilledDirect == \A r \in Direct : r[2] \notin Billable

LEMMA BillInit == Init => BillInv
<1> SUFFICES ASSUME Init PROVE BillInv
  OBVIOUS
<1>1. run.pc = "idle" /\ late = {}
  BY DEF Init, Idle
<1>2. \A j \in Jobs : final[j].rows = 0 /\ intent[j] = "none"
  BY DEF Init
<1>3. BilledOnce
  BY <1>1, <1>2 DEF BilledOnce, BillOK, Sending, Pending, Billing
<1>4. StaffBill /\ AskedFor(run, jobClaim)
  BY <1>1, <1>2 DEF StaffBill, AskedFor, BillingPcs
<1> QED BY <1>3, <1>4 DEF BillInv

\* A step that writes no bill, no intent and no claim of a job.
LEMMA BillStill ==
    ASSUME BillInv, UNCHANGED <<intent, final, jobClaim>>,
           \A j \in Jobs : /\ Sending(j, FALSE)' => Sending(j, FALSE)
                           /\ Sending(j, TRUE)' => Sending(j, TRUE)
                           /\ ~(Pending(j, FALSE) /\ Billing(j, FALSE))'
                           /\ ~(Pending(j, TRUE) /\ Billing(j, TRUE))',
           AskedFor(run', jobClaim)
    PROVE  BillInv'
<1>1. BilledOnce'
  <2> SUFFICES ASSUME NEW j \in Jobs
               PROVE  BillOK(final[j], intent[j], Sending(j, FALSE)', Sending(j, TRUE)',
                             jobClaim[j] # None)
    BY DEF BilledOnce
  <2>1. BillOK(final[j], intent[j], Sending(j, FALSE), Sending(j, TRUE), jobClaim[j] # None)
    BY DEF BillInv, BilledOnce
  <2> QED BY <2>1 DEF BillOK
<1>2. StaffBill' /\ AskedFor(run', jobClaim')
  BY DEF BillInv, StaffBill
<1> QED BY <1>1, <1>2 DEF BillInv

\* A handler that bills nothing.
LEMMA OtherHandlersBills ==
    ASSUME BillInv, UNCHANGED <<intent, final, jobClaim, late>>,
           run'.pc # "create final", AskedFor(run', jobClaim)
    PROVE  BillInv'
<1>1. \A j, paid : Pending(j, paid)' <=> Pending(j, paid)
  BY DEF Pending
<1>2. \A j, paid : ~Billing(j, paid)'
  BY DEF Billing
<1> QED BY <1>1, <1>2, BillStill DEF Sending

LEMMA UnbillingHandlers ==
    ASSUME Types, BillInv,
           Activation \/ Extension \/ Pricing \/ Month \/ \E j \in Changing : JobMoves(j)
    PROVE  BillInv'
<1> USE DEF actor, airtable
<1>1. UNCHANGED <<intent, final, jobClaim, late>>
  BY DEF Activation, Activate, AttemptCredit, CreateCredit, ApplyClaim, ActivateDone,
     Extension, Extend, ExtendCredit, ExtendClaim, ExtendDone, Pricing, Approve, Revoke,
     Resolve, Mutate, DiscountBegin, PromoRefused, SetPrice, DiscountDone, Month, JobMoves
<1>2. run'.pc \notin BillingPcs
  <2>1. Month \/ (\E j \in Changing : JobMoves(j)) => run'.pc = "idle"
    BY DEF Month, JobMoves, Idle
  <2> QED
    BY <2>1, HandlerPcs, RowHandlerPcs
       DEF ActivationPcs, ExtensionPcs, BillingPcs, PricingPcs
<1>3. run'.pc # "create final" /\ AskedFor(run', jobClaim)
  BY <1>2 DEF AskedFor, BillingPcs
<1> QED BY <1>1, <1>3, OtherHandlersBills

\* A job that gets credits has not been billed, nor is it being billed.
LEMMA RedeemBills ==
    ASSUME UnbilledDirect, Types, WalletInv, BillInv,
           NEW c \in Claims, NEW j \in Jobs, NEW checkout \in BOOLEAN,
           Redeem(c, j, checkout)
    PROVE  BillInv'
<1> USE DEF actor, airtable
<1>0. /\ ClaimedOnce /\ c # None /\ run = Idle
      /\ UNCHANGED <<intent, final, late>>
  BY ClaimsAssumption DEF WalletInv, ClaimsAssumption, Redeem
<1>1. /\ run'.pc \in {"idle", "debit", "final"}
      /\ run'.pc = "final" => run'.job = j
  BY DEF Redeem, Idle
<1>2. CASE Allocated(c, j) # {}
  <2>1. UNCHANGED jobClaim /\ jobClaim[j] = c
    BY <1>0, <1>2, ClaimOfAllocated DEF Redeem
  <2>2. AskedFor(run', jobClaim)
    BY <1>0, <1>1, <2>1 DEF AskedFor, BillingPcs
  <2> QED BY <1>0, <1>1, <2>1, <2>2, OtherHandlersBills
<1>3. CASE Allocated(c, j) = {}
  <2>1. jobClaim' = [jobClaim EXCEPT ![j] = c]
    BY <1>3 DEF Redeem
  <2>2. jobClaim[j] = None
    BY <1>0, <1>3, ClaimOfAllocated DEF Redeem, MayRedeem, Redeemable
  <2>3. \A j2 \in Jobs : jobClaim'[j2] = IF j2 = j THEN c ELSE jobClaim[j2]
    BY <2>1 DEF Types, ActorTypes
  <2>4. \A j2 \in Jobs :
          BillOK(final[j2], intent[j2], Sending(j2, FALSE), Sending(j2, TRUE), jobClaim[j2] # None)
    BY DEF BillInv, BilledOnce
  <2>5. intent[j] = "none"
    <3>1. CASE checkout = TRUE
      <4>1. Comparable(c, j)
        BY <2>2, <3>1 DEF Redeem, MayRedeem
      <4> QED BY <2>2, <2>4, <4>1 DEF Comparable, BillOK
    <3>2. CASE checkout = FALSE
      <4>1. <<c, j>> \in Direct
        BY <3>2 DEF Redeem, MayRedeem
      <4>2. j \notin Billable
        BY <4>1 DEF UnbilledDirect
      <4> QED BY <2>2, <4>2 DEF BillInv, StaffBill
    <3> QED BY <3>1, <3>2
  <2>6. \A j2, paid : /\ Pending(j2, paid)' <=> Pending(j2, paid)
                      /\ ~Billing(j2, paid)'
    BY <1>0, <1>1 DEF Pending, Billing
  <2>7. BilledOnce'
    <3> SUFFICES ASSUME NEW j2 \in Jobs
                 PROVE  BillOK(final[j2], intent[j2], Sending(j2, FALSE)', Sending(j2, TRUE)',
                               jobClaim'[j2] # None)
      BY <1>0, <2>6 DEF BilledOnce
    <3>1. BillOK(final[j2], intent[j2], Sending(j2, FALSE), Sending(j2, TRUE), jobClaim[j2] # None)
      BY <2>4
    <3>2. /\ Sending(j2, FALSE)' => Sending(j2, FALSE)
          /\ Sending(j2, TRUE)' => Sending(j2, TRUE)
      BY <2>6 DEF Sending
    <3>3. CASE j2 = j
      <4>1. final[j2].rows = 0 /\ intent[j2] = "none" /\ ~Sending(j2, FALSE) /\ ~Sending(j2, TRUE)
        BY <2>5, <3>1, <3>3 DEF BillOK
      <4>2. final[j2].rows <= 1 /\ final[j2].rows # 1
        BY <4>1
      <4>3. ~Sending(j2, FALSE)' /\ ~Sending(j2, TRUE)'
        BY <3>2, <4>1
      <4> QED BY <4>1, <4>2, <4>3 DEF BillOK
    <3>4. CASE j2 # j
      <4>1. jobClaim'[j2] = jobClaim[j2]
        BY <2>3, <3>4
      <4> QED BY <3>1, <3>2, <4>1 DEF BillOK
    <3> QED BY <3>3, <3>4
  <2>8. StaffBill'
    BY <1>0, <2>3 DEF BillInv, StaffBill
  <2>9. AskedFor(run', jobClaim')
    BY <1>0, <1>1, <2>3 DEF AskedFor, BillingPcs
  <2> QED BY <2>7, <2>8, <2>9 DEF BillInv
<1> QED BY <1>2, <1>3

LEMMA DebitBills ==
    ASSUME Types, WalletInv, BillInv, Debit \/ DebitDone
    PROVE  BillInv'
<1> USE DEF actor, airtable
<1>1. UNCHANGED <<intent, final, jobClaim, late>>
  BY DEF Debit, DebitDone
<1>2. /\ run'.pc \in {"debit", "final", "idle"}
      /\ run'.pc = "final" => run'.job = run.job
  BY RunGoes, RunEnds DEF Debit, DebitDone, Types, BillingPcs, Pcs
<1>3. jobClaim[run.job] # None
  BY ClaimsAssumption DEF Debit, DebitDone, WalletInv, ClaimOK, Types, RunFields,
     ClaimsAssumption
<1>4. AskedFor(run', jobClaim)
  BY <1>2, <1>3 DEF AskedFor, BillingPcs
<1> QED BY <1>1, <1>2, <1>4, OtherHandlersBills

\* The intent is stored before the bill is sent.
LEMMA ReadBills ==
    ASSUME Types, BillInv, ReadFinal
    PROVE  BillInv'
<1> USE DEF actor, airtable
<1> DEFINE j == run.job
<1>0. /\ run.pc = "final" /\ j \in Jobs
      /\ j \in Billable \/ jobClaim[j] # None
      /\ UNCHANGED <<final, jobClaim, late>>
  BY DEF ReadFinal, Types, RunFields, BillInv, AskedFor, BillingPcs
<1>1. /\ \A j2 \in Jobs :
           BillOK(final[j2], intent[j2], Sending(j2, FALSE), Sending(j2, TRUE), jobClaim[j2] # None)
      /\ \A j2, paid : /\ ~Billing(j2, paid)
                       /\ Pending(j2, paid)' <=> Pending(j2, paid)
  BY <1>0 DEF BillInv, BilledOnce, Billing, Pending
<1>2. CASE UNCHANGED intent /\ Ends
  <2>1. run'.pc = "idle"
    BY <1>2, RunEnds
  <2>2. AskedFor(run', jobClaim)
    BY <2>1 DEF AskedFor, BillingPcs
  <2> QED BY <1>0, <1>2, <2>1, <2>2, OtherHandlersBills
<1>3. CASE final[j].rows = 1 /\ Ends /\ intent' = [intent EXCEPT ![j] = "complete"]
  <2>1. run'.pc = "idle"
    BY <1>3, RunEnds
  <2>2. \A j2 \in Jobs : intent'[j2] = IF j2 = j THEN "complete" ELSE intent[j2]
    BY <1>0, <1>3 DEF Types, ActorTypes
  <2>3. \A j2, paid : ~Billing(j2, paid)'
    BY <2>1 DEF Billing
  <2> HIDE DEF j
  <2>4. BilledOnce'
    <3> SUFFICES ASSUME NEW j2 \in Jobs
                 PROVE  BillOK(final[j2], intent'[j2], Sending(j2, FALSE)', Sending(j2, TRUE)',
                               jobClaim[j2] # None)
      BY <1>0, <2>3 DEF BilledOnce
    <3>1. BillOK(final[j2], intent[j2], Sending(j2, FALSE), Sending(j2, TRUE), jobClaim[j2] # None)
      BY <1>1
    <3>2. /\ Sending(j2, FALSE)' <=> Sending(j2, FALSE)
          /\ Sending(j2, TRUE)' <=> Sending(j2, TRUE)
      BY <1>1, <2>3 DEF Sending
    <3>3. CASE j2 = j
      <4>1. intent'[j2] = "complete" /\ final[j2].rows = 1
        BY <1>3, <2>2, <3>3
      <4> QED BY <3>1, <3>2, <4>1 DEF BillOK
    <3>4. CASE j2 # j
      <4>1. intent'[j2] = intent[j2]
        BY <2>2, <3>4
      <4> QED BY <3>1, <3>2, <4>1 DEF BillOK
    <3> QED BY <3>3, <3>4
  <2>5. StaffBill'
    BY <1>0, <2>2 DEF BillInv, StaffBill
  <2>6. AskedFor(run', jobClaim')
    BY <2>1 DEF AskedFor, BillingPcs
  <2> QED BY <2>4, <2>5, <2>6 DEF BillInv
<1>4. CASE /\ intent[j] = "none" /\ intent' = [intent EXCEPT ![j] = "pending"]
           /\ run' = [run EXCEPT !.pc = "create final", !.credit = (jobClaim[j] # None)]
  <2>1. run'.pc = "create final" /\ run'.job = j /\ run'.credit = (jobClaim[j] # None)
    BY <1>4 DEF Types, RunFields, RunType
  <2>2. \A j2 \in Jobs : intent'[j2] = IF j2 = j THEN "pending" ELSE intent[j2]
    BY <1>0, <1>4 DEF Types, ActorTypes
  <2>3. \A j2 : /\ Billing(j2, FALSE)' <=> j2 = j /\ jobClaim[j] = None
                /\ Billing(j2, TRUE)' <=> j2 = j /\ jobClaim[j] # None
    BY <2>1 DEF Billing
  <2> HIDE DEF j
  <2>4. ~Sending(j, FALSE) /\ ~Sending(j, TRUE) /\ final[j].rows = 0
    BY <1>0, <1>1, <1>4 DEF BillOK
  <2>5. BilledOnce'
    <3> SUFFICES ASSUME NEW j2 \in Jobs
                 PROVE  /\ BillOK(final[j2], intent'[j2], Sending(j2, FALSE)', Sending(j2, TRUE)',
                                  jobClaim[j2] # None)
                        /\ ~(Pending(j2, FALSE)' /\ Billing(j2, FALSE)')
                        /\ ~(Pending(j2, TRUE)' /\ Billing(j2, TRUE)')
      BY <1>0 DEF BilledOnce
    <3>1. BillOK(final[j2], intent[j2], Sending(j2, FALSE), Sending(j2, TRUE), jobClaim[j2] # None)
      BY <1>1
    <3>2. CASE j2 = j
      <4>1. final[j2].rows = 0 /\ intent'[j2] = "pending"
        BY <2>2, <2>4, <3>2
      <4>2. ~Pending(j2, FALSE)' /\ ~Pending(j2, TRUE)'
        BY <1>1, <2>4, <3>2 DEF Sending
      <4>3. /\ Sending(j2, FALSE)' => ~(jobClaim[j2] # None)
            /\ Sending(j2, TRUE)' => jobClaim[j2] # None
        BY <2>3, <3>2, <4>2 DEF Sending
      <4>4. final[j2].rows <= 1 /\ final[j2].rows # 1 /\ intent'[j2] # "none"
        BY <4>1
      <4>5. BillOK(final[j2], intent'[j2], Sending(j2, FALSE)', Sending(j2, TRUE)',
                   jobClaim[j2] # None)
        BY <4>1, <4>3, <4>4 DEF BillOK
      <4>6. /\ ~(Pending(j2, FALSE)' /\ Billing(j2, FALSE)')
            /\ ~(Pending(j2, TRUE)' /\ Billing(j2, TRUE)')
        BY <4>2
      <4> QED BY <4>5, <4>6
    <3>3. CASE j2 # j
      BY <1>1, <2>2, <2>3, <3>1, <3>3 DEF BillOK, Sending
    <3> QED BY <3>2, <3>3
  <2>6. StaffBill'
    BY <1>0, <2>2 DEF BillInv, StaffBill
  <2>7. AskedFor(run', jobClaim')
    BY <1>0, <2>1 DEF AskedFor
  <2> QED BY <2>5, <2>6, <2>7 DEF BillInv
<1> QED BY <1>2, <1>3, <1>4 DEF ReadFinal

\* A bill lands, from its handler or late: none is there, and none follows.
LEMMA LandedBill ==
    ASSUME Types, BillInv, NEW j \in Jobs, NEW paid \in BOOLEAN, Sending(j, paid),
           final' = Billed(j, paid), UNCHANGED <<intent, jobClaim>>,
           \A j2 \in Jobs : \A p \in BOOLEAN :
             /\ Pending(j2, p)' => Pending(j2, p)
             /\ Billing(j2, p)' => Billing(j2, p)
             /\ j2 = j /\ p = paid => ~Pending(j2, p)' /\ ~Billing(j2, p)',
           AskedFor(run', jobClaim)
    PROVE  BillInv'
<1>1. \A j2 \in Jobs :
        BillOK(final[j2], intent[j2], Sending(j2, FALSE), Sending(j2, TRUE), jobClaim[j2] # None)
  BY DEF BillInv, BilledOnce
<1>2. /\ intent[j] # "none" /\ final[j].rows # 1 /\ final[j].rows <= 1
      /\ paid <=> jobClaim[j] # None
  <2>1. CASE paid = TRUE
    BY <1>1, <2>1 DEF BillOK
  <2>2. CASE paid = FALSE
    BY <1>1, <2>2 DEF BillOK
  <2> QED BY <2>1, <2>2
<1>3. \A j2 \in Jobs : /\ j2 # j => final'[j2] = final[j2]
                       /\ j2 = j => final'[j2].rows = 1 /\ (final'[j2].credit <=> paid)
  <2>1. final \in [Jobs -> [rows : Nat, credit : BOOLEAN]] /\ final[j].rows \in Nat
    BY DEF Types, AirtableTypes
  <2>2. final[j].rows = 0
    BY <1>2, <2>1
  <2> QED BY <2>1, <2>2 DEF Billed
<1>4. BilledOnce'
  <2> SUFFICES ASSUME NEW j2 \in Jobs
               PROVE  /\ BillOK(final'[j2], intent[j2], Sending(j2, FALSE)', Sending(j2, TRUE)',
                                jobClaim[j2] # None)
                      /\ ~(Pending(j2, FALSE)' /\ Billing(j2, FALSE)')
                      /\ ~(Pending(j2, TRUE)' /\ Billing(j2, TRUE)')
    BY DEF BilledOnce
  <2>1. BillOK(final[j2], intent[j2], Sending(j2, FALSE), Sending(j2, TRUE), jobClaim[j2] # None)
    BY <1>1
  <2>2. /\ Sending(j2, FALSE)' => Sending(j2, FALSE)
        /\ Sending(j2, TRUE)' => Sending(j2, TRUE)
    BY DEF Sending
  <2>3. /\ ~(Pending(j2, FALSE)' /\ Billing(j2, FALSE)')
        /\ ~(Pending(j2, TRUE)' /\ Billing(j2, TRUE)')
    BY DEF BillInv, BilledOnce
  <2>4. CASE j2 # j
    BY <1>3, <2>1, <2>2, <2>3, <2>4 DEF BillOK
  <2>5. CASE j2 = j
    <3>1. ~Sending(j2, FALSE)' /\ ~Sending(j2, TRUE)'
      <4>1. CASE paid = TRUE
        BY <1>2, <2>1, <2>2, <2>5, <4>1 DEF BillOK, Sending
      <4>2. CASE paid = FALSE
        BY <1>2, <2>1, <2>2, <2>5, <4>2 DEF BillOK, Sending
      <4> QED BY <4>1, <4>2
    <3>2. final'[j2].rows = 1 /\ (final'[j2].credit <=> jobClaim[j2] # None)
      BY <1>2, <1>3, <2>5
    <3>3. intent[j2] # "none"
      BY <1>2, <2>5
    <3>4. final'[j2].rows <= 1
      BY <3>2
    <3>5. BillOK(final'[j2], intent[j2], Sending(j2, FALSE)', Sending(j2, TRUE)',
                 jobClaim[j2] # None)
      BY <3>1, <3>2, <3>3, <3>4 DEF BillOK
    <3> QED BY <2>3, <3>5
  <2> QED BY <2>4, <2>5
<1>5. StaffBill' /\ AskedFor(run', jobClaim')
  BY DEF BillInv, StaffBill
<1> QED BY <1>4, <1>5 DEF BillInv

LEMMA CreateBills ==
    ASSUME Types, BillInv, CreateFinal
    PROVE  BillInv'
<1> USE DEF actor, airtable
<1> DEFINE j == run.job
           paid == run.credit
<1>0. run.pc = "create final" /\ j \in Jobs /\ paid \in BOOLEAN
  BY DEF CreateFinal, Types, RunFields, RunType, BillingPcs
<1>1. final' = Billed(j, paid) /\ UNCHANGED <<intent, jobClaim, late>>
  BY DEF CreateFinal
<1>2. run'.pc = "billed" /\ run'.job = j
  BY <1>0, RunGoes DEF CreateFinal, Types, BillingPcs, Pcs
<1>3. \A j2, p : /\ Pending(j2, p)' <=> Pending(j2, p)
                 /\ ~Billing(j2, p)'
  BY <1>1, <1>2 DEF Pending, Billing
<1>4. Billing(j, paid) /\ ~Pending(j, paid)
  <2>1. Billing(j, paid)
    BY <1>0 DEF Billing
  <2> HIDE DEF j, paid
  <2>2. CASE paid = TRUE
    BY <1>0, <2>1, <2>2 DEF BillInv, BilledOnce
  <2>3. CASE paid = FALSE
    BY <1>0, <2>1, <2>3 DEF BillInv, BilledOnce
  <2> QED BY <1>0, <2>1, <2>2, <2>3
<1>5. AskedFor(run', jobClaim)
  BY <1>0, <1>2 DEF BillInv, AskedFor, BillingPcs
<1> HIDE DEF j, paid
<1>6. \A j2 \in Jobs : \A p \in BOOLEAN :
             /\ Pending(j2, p)' => Pending(j2, p)
             /\ Billing(j2, p)' => Billing(j2, p)
             /\ j2 = j /\ p = paid => ~Pending(j2, p)' /\ ~Billing(j2, p)'
  BY <1>3, <1>4
<1>7. Sending(j, paid)
  BY <1>4 DEF Sending
<1> QED BY <1>0, <1>1, <1>5, <1>6, <1>7, LandedBill

LEMMA DoneBills ==
    ASSUME Types, BillInv, FinalDone
    PROVE  BillInv'
<1> USE DEF actor, airtable
<1> DEFINE j == run.job
<1>0. /\ run.pc = "billed" /\ j \in Jobs
      /\ j \in Billable \/ jobClaim[j] # None
      /\ UNCHANGED <<final, jobClaim, late>>
  BY DEF FinalDone, Types, RunFields, BillInv, AskedFor, BillingPcs
<1>1. run'.pc = "idle"
  BY RunEnds DEF FinalDone
<1>2. \A j2 \in Jobs : intent'[j2] = IF j2 = j THEN "complete" ELSE intent[j2]
  BY DEF FinalDone, Types, ActorTypes
<1>3. \A j2, paid : ~Billing(j2, paid)' /\ (Pending(j2, paid)' <=> Pending(j2, paid))
  BY <1>0, <1>1 DEF Billing, Pending
<1> HIDE DEF j
<1>4. BilledOnce'
  <2> SUFFICES ASSUME NEW j2 \in Jobs
               PROVE  BillOK(final[j2], intent'[j2], Sending(j2, FALSE)', Sending(j2, TRUE)',
                             jobClaim[j2] # None)
    BY <1>0, <1>3 DEF BilledOnce
  <2>1. BillOK(final[j2], intent[j2], Sending(j2, FALSE), Sending(j2, TRUE), jobClaim[j2] # None)
    BY DEF BillInv, BilledOnce
  <2>2. /\ Sending(j2, FALSE)' => Sending(j2, FALSE)
        /\ Sending(j2, TRUE)' => Sending(j2, TRUE)
    BY <1>3 DEF Sending
  <2> QED BY <1>2, <2>1, <2>2 DEF BillOK
<1>5. StaffBill'
  BY <1>0, <1>2 DEF BillInv, StaffBill
<1>6. AskedFor(run', jobClaim')
  BY <1>1 DEF AskedFor, BillingPcs
<1> QED BY <1>4, <1>5, <1>6 DEF BillInv

LEMMA StopBills ==
    ASSUME Types, BillInv, Stop
    PROVE  BillInv'
<1> USE DEF actor, airtable
<1>1. UNCHANGED <<intent, jobClaim, final>> /\ run'.pc = "idle"
  BY RunEnds DEF Stop
<1>2. \A j \in Jobs, paid \in BOOLEAN : Pending(j, paid)' => Sending(j, paid)
  <2> SUFFICES ASSUME NEW j \in Jobs, NEW paid \in BOOLEAN, <<"final", j, paid>> \in Sent
               PROVE  Billing(j, paid)
    BY DEF Stop, Pending, Sending
  <2>1. CASE run.pc = "create"
    <3>1. Sent = {<<"credit", run.claim, First(run.left)>>}
      BY <2>1, SentShape
    <3> QED BY <3>1
  <2>2. CASE run.pc = "create final"
    <3>1. Sent = {<<"final", run.job, run.credit>>}
      BY <2>2, SentShape
    <3>2. <<"final", j, paid>> = <<"final", run.job, run.credit>>
      BY <3>1
    <3> QED BY <2>2, <3>2 DEF Billing
  <2> QED BY <2>1, <2>2, SentShape
<1>3. \A j, paid : ~Billing(j, paid)'
  BY <1>1 DEF Billing
<1>4. AskedFor(run', jobClaim)
  BY <1>1 DEF AskedFor, BillingPcs
<1> QED BY <1>1, <1>2, <1>3, <1>4, BillStill DEF Sending

LEMMA LandBills ==
    ASSUME Types, BillInv, NEW w \in late, Land(w)
    PROVE  BillInv'
<1> USE DEF actor, airtable
<1>1. UNCHANGED <<intent, jobClaim, run>> /\ late' = late \ {w}
  BY DEF Land
<1>2. AskedFor(run', jobClaim)
  BY <1>1 DEF BillInv
<1>3. \A j, paid : /\ Pending(j, paid)' => Pending(j, paid)
                   /\ Billing(j, paid)' <=> Billing(j, paid)
  BY <1>1 DEF Pending, Billing
<1>4. CASE w[1] = "credit"
  <2>1. UNCHANGED final
    BY <1>4 DEF Land
  <2>2. \A j \in Jobs : /\ ~(Pending(j, FALSE) /\ Billing(j, FALSE))'
                        /\ ~(Pending(j, TRUE) /\ Billing(j, TRUE))'
    BY <1>3 DEF BillInv, BilledOnce
  <2> QED BY <1>1, <1>2, <1>3, <2>1, <2>2, BillStill DEF Sending
<1>5. CASE w[1] # "credit"
  <2>1. PICK j \in Jobs, paid \in BOOLEAN : w = <<"final", j, paid>> /\ w[2] = j /\ w[3] = paid
    BY <1>5, LateShape
  <2>2. final' = Billed(j, paid)
    BY <1>5, <2>1 DEF Land
  <2>3. Pending(j, paid) /\ ~Pending(j, paid)'
    BY <1>1, <2>1, Zenon DEF Pending
  <2>4. ~Billing(j, paid)
    <3>1. CASE paid = TRUE
      BY <2>3, <3>1 DEF BillInv, BilledOnce
    <3>2. CASE paid = FALSE
      BY <2>3, <3>2 DEF BillInv, BilledOnce
    <3> QED BY <3>1, <3>2
  <2>5. \A j2 \in Jobs : \A p \in BOOLEAN :
             /\ Pending(j2, p)' => Pending(j2, p)
             /\ Billing(j2, p)' => Billing(j2, p)
             /\ j2 = j /\ p = paid => ~Pending(j2, p)' /\ ~Billing(j2, p)'
    BY <1>3, <2>3, <2>4
  <2>6. Sending(j, paid)
    BY <2>3 DEF Sending
  <2> QED BY <1>1, <1>2, <2>2, <2>5, <2>6, LandedBill
<1> QED BY <1>4, <1>5

LEMMA BillStep ==
    ASSUME UnbilledDirect, Types, WalletInv, BillInv, [Next]_vars
    PROVE  BillInv'
<1>1. CASE UNCHANGED vars
  BY <1>1 DEF vars, actor, airtable, BillInv, BilledOnce, Sending, Pending, Billing,
     StaffBill
<1>2. CASE Next
  <2>1. CASE Activation \/ Extension \/ Pricing
    BY <2>1, UnbillingHandlers
  <2>2. CASE Redemption
    BY <2>2, RedeemBills, DebitBills DEF Redemption
  <2>3. CASE Bill
    <3>1. ASSUME NEW j \in Billable, FinalIntent(j) PROVE BillInv'
      <4>1. UNCHANGED <<intent, final, jobClaim, late>> /\ run'.pc = "final" /\ run'.job = j
        BY <3>1 DEF FinalIntent, Runs, Idle, actor, airtable
      <4>2. AskedFor(run', jobClaim)
        BY <4>1 DEF AskedFor
      <4> QED BY <4>1, <4>2, OtherHandlersBills
    <3> QED BY <2>3, <3>1, ReadBills, CreateBills, DoneBills DEF Bill
  <2>4. CASE World
    BY <2>4, UnbillingHandlers, StopBills, LandBills DEF World
  <2> QED BY <1>2, <2>1, <2>2, <2>3, <2>4, NextByHandler
<1> QED BY <1>1, <1>2

(***************************************************************************)
(* The final payment of a job is billed once, with the credits the job has *)
(* and never with another balance, although its handler may stop at any    *)
(* write and its create land late; provided the redeem route, which        *)
(* compares no bill, is not called for a job the staff bill.               *)
(***************************************************************************)
THEOREM BilledOnceForAll == ASSUME UnbilledDirect PROVE Spec => []BilledOnceForTheRest
<1>1. ASSUME CreditInv, WalletInv, BillInv, [Next]_vars PROVE BillInv'
  BY <1>1, BillStep DEF CreditInv
<1>2. ASSUME BillInv PROVE BilledOnceForTheRest
  BY <1>2 DEF BillInv, BilledOnce, BillOK, BilledOnceForTheRest
<1> QED BY <1>1, <1>2, BillInit, WalletInvariance, PTL DEF Spec

-----------------------------------------------------------------------------
(* What stopped half way is taken up again.                                *)

Within(c, month) == month \in {extension[c].from, extension[c].to}

\* What a pending extension has written, whatever it had still to write.
Held(c) ==
    /\ extension[c].from < extension[c].to
    /\ journal[c].expires = extension[c].from
    /\ Within(c, claimRow[c].expires)
    /\ \A k \in Credits : Within(c, credit[c][k].expires)
    /\ \E k \in Credits : ~credit[c][k].used
    /\ \E q \in Extends : q.claim = c /\ q.from = extension[c].from /\ q.to = extension[c].to

ClaimResumes(c) ==
    /\ journal[c].status = "complete" => claimRow[c].applied
    /\ allocations[c] # <<>> => journal[c].status = "complete"
    /\ extension[c].status = "pending" => Held(c)

\* A request that was answered asked for no later an expiry than was reached.
Reached(c) == IF extension[c].status = "pending" THEN extension[c].from ELSE Expiry(c)
ReceiptsPast == \A q \in receipts : q \in Extends /\ q.to <= Reached(q.claim)

RunResumes(h, ext, row) ==
    /\ h.pc \in ExtensionPcs =>
        h.by \in Extends /\ h.by.claim = h.claim /\ h.by.to = ext[h.claim].to
    /\ h.pc = "debit" => ext[h.claim].status # "pending"
    /\ h.pc = "applied" => row[h.claim].applied

ResumeInv ==
    /\ \A c \in Claims : ClaimResumes(c)
    /\ ReceiptsPast
    /\ RunResumes(run, extension, claimRow)

LEMMA ResumeInit == Init => ResumeInv
<1> SUFFICES ASSUME Init PROVE ResumeInv
  OBVIOUS
<1>1. \A c \in Claims : /\ extension[c].status = "none" /\ allocations[c] = <<>>
                        /\ journal[c].status = "complete" <=> claimRow[c].applied
  BY DEF Init
<1>2. receipts = {} /\ run.pc = "idle"
  BY DEF Init, Idle
<1> QED BY <1>1, <1>2 DEF ResumeInv, ClaimResumes, ReceiptsPast, RunResumes, ExtensionPcs

\* A claim that a step does not touch, but for a debit of another claim.
LEMMA ClaimStill ==
    ASSUME NEW c \in Claims, ClaimResumes(c),
           journal'[c] = journal[c], claimRow'[c] = claimRow[c], extension'[c] = extension[c],
           allocations'[c] # <<>> => allocations[c] # <<>> \/ journal[c].status = "complete",
           \A k \in Credits : /\ credit'[c][k].expires = credit[c][k].expires
                              /\ extension[c].status = "pending" =>
                                   (credit'[c][k].used <=> credit[c][k].used)
    PROVE  ClaimResumes(c)'
BY DEF ClaimResumes, Held, Within

LEMMA ReceiptsStill ==
    ASSUME ReceiptsPast, UNCHANGED <<receipts, extension>>
    PROVE  ReceiptsPast'
BY DEF ReceiptsPast, Reached, Expiry

\* A step of a handler that touches no claim.
LEMMA ResumeStill ==
    ASSUME ResumeInv, UNCHANGED <<journal, extension, receipts, claimRow, credit>>,
           \A c \in Claims : allocations'[c] # <<>> => allocations[c] # <<>>,
           RunResumes(run', extension, claimRow)
    PROVE  ResumeInv'
<1>1. \A c \in Claims : ClaimResumes(c)'
  BY ClaimStill DEF ResumeInv
<1>2. ReceiptsPast'
  BY ReceiptsStill DEF ResumeInv
<1> QED BY <1>1, <1>2 DEF ResumeInv

LEMMA OtherHandlersResume ==
    ASSUME Types, ResumeInv,
           Bill \/ Pricing \/ Stop \/ Month \/ \E j \in Changing : JobMoves(j)
    PROVE  ResumeInv'
<1> USE DEF actor, airtable
<1>1. UNCHANGED <<journal, extension, receipts, allocations, claimRow, credit>>
  BY DEF Bill, FinalIntent, ReadFinal, CreateFinal, FinalDone, Pricing, Approve, Revoke,
     Resolve, Mutate, DiscountBegin, PromoRefused, SetPrice, DiscountDone, Stop, Month,
     JobMoves
<1>2. RunResumes(run', extension, claimRow)
  <2>1. run' = run \/ run'.pc \in {"idle"} \cup BillingPcs \cup PricingPcs
    BY HandlerPcs DEF World
  <2>2. CASE run' = run
    BY <2>2 DEF ResumeInv
  <2>3. CASE run'.pc \in {"idle"} \cup BillingPcs \cup PricingPcs
    BY <2>3 DEF RunResumes, ExtensionPcs, BillingPcs, PricingPcs
  <2> QED BY <2>1, <2>2, <2>3
<1> QED BY <1>1, <1>2, ResumeStill

\* A create lands only while its activation has not completed.
LEMMA LandedResumes ==
    ASSUME CreditInv, ResumeInv, NEW c \in Claims, NEW k \in Credits,
           Creating(c, k) \/ <<"credit", c, k>> \in late,
           credit' = Created(c, k),
           UNCHANGED <<journal, extension, receipts, allocations, claimRow>>,
           RunResumes(run', extension, claimRow)
    PROVE  ResumeInv'
<1>0. Types /\ extension[c].status # "pending"
  <2>1. Types /\ credit[c][k].rows = 0
    BY LandedCredit DEF CreditInv
  <2> QED BY <2>1 DEF CreditInv, CompleteHasRows, ExtendedWhenComplete
<1>1. ASSUME NEW c2 \in Claims PROVE ClaimResumes(c2)'
  <2>1. \A k2 \in Credits :
          /\ credit'[c2][k2].used <=> credit[c2][k2].used
          /\ c2 # c => credit'[c2][k2].expires = credit[c2][k2].expires
    BY <1>0, CreditWrites
  <2>2. CASE c2 = c
    BY <1>0, <2>2 DEF ResumeInv, ClaimResumes
  <2>3. CASE c2 # c
    BY <2>1, <2>3, ClaimStill DEF ResumeInv
  <2> QED BY <2>2, <2>3
<1>2. ReceiptsPast'
  BY ReceiptsStill DEF ResumeInv
<1> QED BY <1>1, <1>2 DEF ResumeInv

LEMMA ActivationResumes ==
    ASSUME CreditInv, ResumeInv, Activation
    PROVE  ResumeInv'
<1> USE DEF actor, airtable
<1>0. Types
  BY DEF CreditInv
<1>1. ASSUME NEW c \in Claims, Activate(c) PROVE ResumeInv'
  <2>1. UNCHANGED <<extension, receipts, allocations, claimRow, credit>> /\ run'.pc = "credits"
    BY <1>1 DEF Activate, Idle
  <2>2. \A c2 \in Claims :
          /\ journal'[c2].status = "complete" <=> journal[c2].status = "complete"
          /\ journal'[c2].expires = journal[c2].expires
    BY <1>0, <1>1 DEF Activate, Types, ActorTypes, JournalType
  <2>3. \A c2 \in Claims : ClaimResumes(c2)'
    BY <2>1, <2>2 DEF ResumeInv, ClaimResumes, Held, Within
  <2>4. ReceiptsPast'
    BY <2>1, ReceiptsStill DEF ResumeInv
  <2> QED BY <2>1, <2>3, <2>4 DEF ResumeInv, RunResumes, ExtensionPcs
<1>2. CASE AttemptCredit
  <2>1. UNCHANGED <<extension, receipts, allocations, claimRow, credit>>
        /\ run'.pc \in {"idle", "create"}
    BY <1>0, <1>2, RunEnds, RunGoes DEF AttemptCredit, Pcs, ActivationPcs, Types
  <2>2. run.claim \in Claims
    BY <1>0, <1>2 DEF AttemptCredit, Types, RunFields, ActivationPcs
  <2>3. \A c2 \in Claims :
          /\ journal'[c2].status = "complete" <=> journal[c2].status = "complete"
          /\ journal'[c2].expires = journal[c2].expires
    BY <1>0, <1>2, <2>2 DEF AttemptCredit, Types, ActorTypes, JournalType
  <2>4. \A c2 \in Claims : ClaimResumes(c2)'
    BY <2>1, <2>3 DEF ResumeInv, ClaimResumes, Held, Within
  <2>5. ReceiptsPast'
    BY <2>1, ReceiptsStill DEF ResumeInv
  <2> QED BY <2>1, <2>4, <2>5 DEF ResumeInv, RunResumes, ExtensionPcs
<1>3. CASE CreateCredit
  <2> DEFINE c == run.claim
             k == First(run.left)
  <2>1. run.pc = "create" /\ c \in Claims /\ k \in Credits
    BY <1>0, <1>3, FirstCredit DEF CreateCredit, Types, RunFields, RunType, ActivationPcs
  <2>2. Creating(c, k)
    BY <2>1 DEF Creating
  <2>3. /\ credit' = Created(c, k)
        /\ UNCHANGED <<journal, extension, receipts, allocations, claimRow>>
        /\ run'.pc = "credits"
    BY <1>0, <1>3 DEF CreateCredit, Types, RunFields, RunType
  <2>4. RunResumes(run', extension, claimRow)
    BY <2>3 DEF RunResumes, ExtensionPcs
  <2> HIDE DEF c, k
  <2> QED BY <2>1, <2>2, <2>3, <2>4, LandedResumes
<1>4. CASE ApplyClaim
  <2> DEFINE c == run.claim
  <2>1. run.pc = "credits" /\ c \in Claims
    BY <1>0, <1>4 DEF ApplyClaim, Types, RunFields, ActivationPcs
  <2>2. extension[c].status # "pending"
    BY <2>1 DEF CreditInv, ActivationOK, ActivationPcs
  <2>3. /\ UNCHANGED <<journal, extension, receipts, allocations, credit>>
        /\ run'.pc = "applied" /\ run'.claim = c
    BY <1>0, <1>4, RunGoes DEF ApplyClaim, Types, ActivationPcs, Pcs
  <2>4. /\ claimRow'[c].applied
        /\ \A c2 \in Claims : c2 # c => claimRow'[c2] = claimRow[c2]
    BY <1>0, <1>4, <2>1 DEF ApplyClaim, Types, AirtableTypes
  <2>5. \A c2 \in Claims : ClaimResumes(c2)'
    <3> HIDE DEF c
    <3>1. ASSUME NEW c2 \in Claims, c2 # c PROVE ClaimResumes(c2)'
      BY <2>3, <2>4, <3>1, ClaimStill DEF ResumeInv
    <3>2. ASSUME NEW c2 \in Claims, c2 = c PROVE ClaimResumes(c2)'
      BY <2>1, <2>2, <2>3, <2>4, <3>2 DEF ResumeInv, ClaimResumes
    <3> QED BY <3>1, <3>2
  <2>6. ReceiptsPast'
    BY <2>3, ReceiptsStill DEF ResumeInv
  <2>7. RunResumes(run', extension', claimRow')
    <3> HIDE DEF c
    <3> QED BY <2>3, <2>4 DEF RunResumes, ExtensionPcs
  <2> QED BY <2>5, <2>6, <2>7 DEF ResumeInv
<1>5. CASE ActivateDone
  <2> DEFINE c == run.claim
  <2>1. run.pc = "applied" /\ c \in Claims
    BY <1>0, <1>5 DEF ActivateDone, Types, RunFields, ActivationPcs
  <2>2. extension[c].status # "pending" /\ claimRow[c].applied
    BY <2>1 DEF CreditInv, ActivationOK, ActivationPcs, ResumeInv, RunResumes
  <2>3. UNCHANGED <<extension, receipts, allocations, claimRow, credit>> /\ run'.pc = "idle"
    BY <1>5, RunEnds DEF ActivateDone
  <2>4. /\ journal'[c].status = "complete"
        /\ \A c2 \in Claims : c2 # c => journal'[c2] = journal[c2]
    BY <1>0, <1>5, <2>1 DEF ActivateDone, Types, ActorTypes, JournalType
  <2>5. \A c2 \in Claims : ClaimResumes(c2)'
    <3> HIDE DEF c
    <3>1. ASSUME NEW c2 \in Claims, c2 # c PROVE ClaimResumes(c2)'
      BY <2>3, <2>4, <3>1, ClaimStill DEF ResumeInv
    <3>2. ASSUME NEW c2 \in Claims, c2 = c PROVE ClaimResumes(c2)'
      BY <2>1, <2>2, <2>3, <2>4, <3>2 DEF ResumeInv, ClaimResumes
    <3> QED BY <3>1, <3>2
  <2>6. ReceiptsPast'
    BY <2>3, ReceiptsStill DEF ResumeInv
  <2> QED BY <2>3, <2>5, <2>6 DEF ResumeInv, RunResumes, ExtensionPcs
<1> QED BY <1>1, <1>2, <1>3, <1>4, <1>5 DEF Activation

\* A request extends a claim beyond every expiry it was given before.
LEMMA ExtendResumes ==
    ASSUME CreditInv, ResumeInv, NEW q \in Extends, Extend(q)
    PROVE  ResumeInv'
<1> USE DEF actor, airtable
<1> DEFINE c == q.claim
<1>0. Types /\ c \in Claims /\ q.from \in Nat /\ q.to \in Nat
  BY ClaimsAssumption DEF CreditInv, ClaimsAssumption
<1>1. /\ UNCHANGED <<journal, receipts, allocations, claimRow, credit>>
      /\ extension' = [extension EXCEPT ![c] = [status |-> "pending", from |-> q.from, to |-> q.to]]
      /\ run'.pc = "extend" /\ run'.claim = c /\ run'.by = q
  BY DEF Extend, Idle
<1>2. /\ extension'[c] = [status |-> "pending", from |-> q.from, to |-> q.to]
      /\ \A c2 \in Claims : c2 # c => extension'[c2] = extension[c2]
  BY <1>0, <1>1 DEF Types, ActorTypes
<1>3. /\ journal[c].status = "complete" /\ claimRow[c].applied
      /\ \E k \in Credits : ~credit[c][k].used
      /\ claimRow[c].expires \in {q.from, q.to}
      /\ \A k \in Credits : credit[c][k].expires \in {q.from, q.to}
  BY DEF Extend, MayExtend
<1>4. extension[c].status = "pending" =>
        extension[c].from = q.from /\ extension[c].to = q.to
  BY DEF Extend, MayExtend
<1>5. extension[c].status # "pending" => q.from = Expiry(c) /\ q.to > q.from
  BY DEF Extend, MayExtend
<1>6. Held(c)'
  <2>1. q.from < q.to /\ journal[c].expires = q.from
    <3>1. CASE extension[c].status = "pending"
      BY <1>0, <1>4, <3>1 DEF ResumeInv, ClaimResumes, Held
    <3>2. CASE extension[c].status # "pending"
      BY <1>0, <1>5, <3>2 DEF CreditInv, OneExpiry
    <3> QED BY <3>1, <3>2
  <2> QED BY <1>1, <1>2, <1>3, <2>1 DEF Held, Within
<1>7. ASSUME NEW c2 \in Claims PROVE ClaimResumes(c2)'
  <2>1. CASE c2 = c
    BY <1>1, <1>3, <1>6, <2>1 DEF ClaimResumes
  <2>2. CASE c2 # c
    <3> HIDE DEF c
    <3> QED BY <1>1, <1>2, <2>2, ClaimStill DEF ResumeInv
  <2> QED BY <2>1, <2>2
<1>8. Reached(c)' = Reached(c)
  BY <1>2, <1>4, <1>5 DEF Reached
<1>9. \A c2 \in Claims : Reached(c2)' = Reached(c2)
  <2> HIDE DEF c
  <2> QED BY <1>2, <1>8 DEF Reached, Expiry
<1>10. ReceiptsPast'
  BY <1>1, <1>9, ClaimsAssumption DEF ResumeInv, ReceiptsPast, ClaimsAssumption
<1>11. RunResumes(run', extension', claimRow')
  BY <1>1, <1>2 DEF RunResumes, ExtensionPcs
<1> QED BY <1>7, <1>10, <1>11 DEF ResumeInv

LEMMA ExtendCreditResumes ==
    ASSUME CreditInv, ResumeInv, ExtendCredit
    PROVE  ResumeInv'
<1> USE DEF actor, airtable
<1> DEFINE c == run.claim
           k == First(Unextended(c))
<1>0. Types /\ run.pc = "extend" /\ c \in Claims /\ k \in Credits
  BY FirstCredit DEF CreditInv, ExtendCredit, Types, RunFields, ExtensionPcs, Unextended
<1>1. /\ UNCHANGED <<journal, extension, receipts, allocations, claimRow, run>>
      /\ credit' = [credit EXCEPT ![c][k].expires = extension[c].to]
  BY DEF ExtendCredit
<1>2. extension[c].status = "pending" /\ extension[c].to \in Months
  BY <1>0, RecordTypes DEF CreditInv, ExtensionOK, ExtensionPcs, ExtensionType
<1>3. \A c2 \in Claims : \A k2 \in Credits :
        /\ credit'[c2][k2].used <=> credit[c2][k2].used
        /\ credit'[c2][k2].expires =
             IF c2 = c /\ k2 = k THEN extension[c].to ELSE credit[c2][k2].expires
  <2> HIDE DEF c, k
  <2> QED BY <1>0, <1>1, <1>2, CreditWrites
<1>4. \A c2 \in Claims : ClaimResumes(c2)'
  <2> HIDE DEF c, k
  <2>1. ASSUME NEW c2 \in Claims, c2 = c PROVE ClaimResumes(c2)'
    BY <1>0, <1>1, <1>3, <2>1 DEF ResumeInv, ClaimResumes, Held, Within
  <2>2. ASSUME NEW c2 \in Claims, c2 # c PROVE ClaimResumes(c2)'
    BY <1>1, <1>3, <2>2, ClaimStill DEF ResumeInv
  <2> QED BY <2>1, <2>2
<1>5. ReceiptsPast'
  BY <1>1, ReceiptsStill DEF ResumeInv
<1> QED BY <1>1, <1>4, <1>5 DEF ResumeInv

LEMMA ExtendClaimResumes ==
    ASSUME CreditInv, ResumeInv, ExtendClaim
    PROVE  ResumeInv'
<1> USE DEF actor, airtable
<1> DEFINE c == run.claim
<1>0. Types /\ run.pc = "extend" /\ c \in Claims
  BY DEF CreditInv, ExtendClaim, Types, RunFields, ExtensionPcs
<1>1. /\ UNCHANGED <<journal, extension, receipts, allocations, credit>>
      /\ run'.pc = "extended" /\ run'.claim = c /\ run'.by = run.by
  BY <1>0 DEF ExtendClaim, Goes, Types, RunFields, RunType
<1>2. \A c2 \in Claims :
        /\ claimRow'[c2].applied = claimRow[c2].applied
        /\ claimRow'[c2].expires = IF c2 = c THEN extension[c].to ELSE claimRow[c2].expires
  BY <1>0 DEF ExtendClaim, Types, AirtableTypes
<1>3. \A c2 \in Claims : ClaimResumes(c2)'
  <2> HIDE DEF c
  <2> QED BY <1>1, <1>2 DEF ResumeInv, ClaimResumes, Held, Within
<1>4. ReceiptsPast'
  BY <1>1, ReceiptsStill DEF ResumeInv
<1>5. RunResumes(run', extension', claimRow')
  BY <1>0, <1>1 DEF ResumeInv, RunResumes, ExtensionPcs
<1> QED BY <1>3, <1>4, <1>5 DEF ResumeInv

LEMMA ExtendDoneResumes ==
    ASSUME CreditInv, ResumeInv, ExtendDone
    PROVE  ResumeInv'
<1> USE DEF actor, airtable
<1> DEFINE c == run.claim
<1>0. Types /\ run.pc = "extended" /\ c \in Claims
  BY DEF CreditInv, ExtendDone, Types, RunFields, ExtensionPcs
<1>1. /\ UNCHANGED <<allocations, claimRow, credit>>
      /\ receipts' = receipts \union {run.by}
      /\ run'.pc = "idle"
  BY RunEnds DEF ExtendDone
<1>2. /\ extension[c].status = "pending"
      /\ run.by \in Extends /\ run.by.claim = c /\ run.by.to = extension[c].to
  BY <1>0 DEF CreditInv, ExtensionOK, ExtensionPcs, ResumeInv, RunResumes
<1>3. /\ extension[c].from \in Nat /\ extension[c].to \in Nat
      /\ extension[c].from < extension[c].to
  <2>1. extension[c] \in ExtensionType
    BY <1>0, RecordTypes
  <2> QED BY <1>0, <1>2, <2>1, MonthsAreNat DEF ExtensionType, ResumeInv, ClaimResumes, Held
<1>4. /\ extension'[c].status = "complete" /\ extension'[c].to = extension[c].to
      /\ \A c2 \in Claims : c2 # c => extension'[c2] = extension[c2]
  BY <1>0 DEF ExtendDone, Types, ActorTypes, ExtensionType
<1>5. \A c2 \in Claims : /\ journal'[c2].status = journal[c2].status
                         /\ c2 # c => journal'[c2] = journal[c2]
  BY <1>0 DEF ExtendDone, Types, ActorTypes, JournalType
<1>6. \A c2 \in Claims : ClaimResumes(c2)'
  <2> HIDE DEF c
  <2>1. ASSUME NEW c2 \in Claims, c2 = c PROVE ClaimResumes(c2)'
    BY <1>0, <1>1, <1>4, <1>5, <2>1 DEF ResumeInv, ClaimResumes
  <2>2. ASSUME NEW c2 \in Claims, c2 # c PROVE ClaimResumes(c2)'
    BY <1>1, <1>4, <1>5, <2>2, ClaimStill DEF ResumeInv
  <2> QED BY <2>1, <2>2
<1>7. ReceiptsPast'
  <2> SUFFICES ASSUME NEW q \in receipts' PROVE q \in Extends /\ q.to <= Reached(q.claim)'
    BY DEF ReceiptsPast
  <2> HIDE DEF c
  <2>1. \A c2 \in Claims :
          IF c2 = c THEN Reached(c2) = extension[c].from /\ Reached(c2)' = extension[c].to
          ELSE Reached(c2)' = Reached(c2)
    BY <1>2, <1>4 DEF Reached, Expiry
  <2>2. q \in Extends /\ q.claim \in Claims /\ q.to \in Nat
    BY <1>1, <1>2, ClaimsAssumption DEF ResumeInv, ReceiptsPast, ClaimsAssumption
  <2>3. CASE q = run.by
    BY <1>2, <1>3, <2>1, <2>2, <2>3
  <2>4. CASE q \in receipts
    <3>1. q.to <= Reached(q.claim)
      BY <2>4 DEF ResumeInv, ReceiptsPast
    <3> QED BY <1>3, <2>1, <2>2, <3>1
  <2> QED BY <1>1, <2>3, <2>4
<1> QED BY <1>1, <1>6, <1>7 DEF ResumeInv, RunResumes, ExtensionPcs

LEMMA RedemptionResumes ==
    ASSUME CreditInv, WalletInv, ResumeInv, Redemption
    PROVE  ResumeInv'
<1> USE DEF actor, airtable
<1>0. Types
  BY DEF CreditInv
<1>1. ASSUME NEW c \in Claims, NEW j \in Jobs, NEW checkout \in BOOLEAN,
             Redeem(c, j, checkout)
      PROVE  ResumeInv'
  <2>1. UNCHANGED <<journal, extension, receipts, claimRow, credit>>
    BY <1>1 DEF Redeem
  <2>2. extension[c].status # "pending" /\ journal[c].status = "complete"
    BY <1>1 DEF Redeem, MayRedeem, Redeemable
  <2>3. \A c2 \in Claims : c2 # c => allocations'[c2] = allocations[c2]
    BY <1>0, <1>1 DEF Redeem, Types, ActorTypes
  <2>4. ASSUME NEW c2 \in Claims PROVE ClaimResumes(c2)'
    BY <2>1, <2>2, <2>3, ClaimStill DEF ResumeInv
  <2>5. RunResumes(run', extension', claimRow')
    <3>1. run'.pc \in {"idle", "debit", "final"} /\ (run'.pc = "debit" => run'.claim = c)
      BY <1>1 DEF Redeem, Idle
    <3> QED BY <2>1, <2>2, <3>1 DEF RunResumes, ExtensionPcs
  <2>6. ReceiptsPast'
    BY <2>1, ReceiptsStill DEF ResumeInv
  <2> QED BY <2>4, <2>5, <2>6 DEF ResumeInv
<1>2. CASE Debit
  <2> DEFINE c == run.claim
             k == First(Undebited(c, run.job))
  <2>1. run.pc = "debit" /\ c \in Claims /\ k \in Credits
    BY <1>0, <1>2, FirstCredit DEF Debit, Undebited, Types, RunFields
  <2>2. extension[c].status # "pending"
    BY <2>1 DEF ResumeInv, RunResumes
  <2>3. /\ UNCHANGED <<journal, extension, receipts, allocations, claimRow, run>>
        /\ credit' = [credit EXCEPT ![c][k].used = TRUE]
    BY <1>2 DEF Debit
  <2>4. \A c2 \in Claims : \A k2 \in Credits :
          /\ credit'[c2][k2].expires = credit[c2][k2].expires
          /\ c2 # c => (credit'[c2][k2].used <=> credit[c2][k2].used)
    <3> HIDE DEF c, k
    <3> QED BY <1>0, <2>1, <2>3, CreditWrites
  <2>5. ASSUME NEW c2 \in Claims PROVE ClaimResumes(c2)'
    <3> HIDE DEF c, k
    <3> QED BY <2>2, <2>3, <2>4, ClaimStill DEF ResumeInv
  <2>6. ReceiptsPast'
    BY <2>3, ReceiptsStill DEF ResumeInv
  <2> QED BY <2>3, <2>5, <2>6 DEF ResumeInv
<1>3. CASE DebitDone
  <2>1. run.pc = "debit" /\ run.claim \in Claims
    BY <1>0, <1>3 DEF DebitDone, Types, RunFields
  <2>2. UNCHANGED <<journal, extension, receipts, claimRow, credit>>
    BY <1>3 DEF DebitDone
  <2>3. \A c2 \in Claims : allocations'[c2] # <<>> =>
            allocations[c2] # <<>> \/ journal[c2].status = "complete"
    <3>1. run.job \in Jobs /\ jobClaim[run.job] = run.claim
      BY <1>0, <2>1 DEF Types, RunFields, WalletInv, ClaimOK
    <3>2. allocations[run.claim] # <<>>
      <4>1. run.job \in JobsOf(allocations[run.claim])
        BY <2>1, <3>1, ClaimOfAllocated DEF WalletInv
      <4> QED BY <4>1 DEF JobsOf
    <3>3. \A c2 \in Claims : c2 # run.claim => allocations'[c2] = allocations[c2]
      BY <1>0, <1>3 DEF DebitDone, Types, ActorTypes
    <3> QED BY <3>2, <3>3
  <2>4. ASSUME NEW c2 \in Claims PROVE ClaimResumes(c2)'
    BY <2>2, <2>3, ClaimStill DEF ResumeInv
  <2>5. run'.pc \in {"idle", "final"}
    BY <1>0, <1>3, RunEnds, RunGoes DEF DebitDone, Types, Pcs, BillingPcs
  <2>6. ReceiptsPast'
    BY <2>2, ReceiptsStill DEF ResumeInv
  <2> QED BY <2>4, <2>5, <2>6 DEF ResumeInv, RunResumes, ExtensionPcs
<1> QED BY <1>1, <1>2, <1>3 DEF Redemption

LEMMA LandResumes ==
    ASSUME CreditInv, ResumeInv, NEW w \in late, Land(w)
    PROVE  ResumeInv'
<1> USE DEF actor, airtable
<1>0. Types /\ RunResumes(run, extension, claimRow)
  BY DEF CreditInv, ResumeInv
<1>1. UNCHANGED <<journal, extension, receipts, allocations, claimRow, run>>
  BY DEF Land
<1>2. CASE w[1] = "credit"
  <2>1. PICK c \in Claims, k \in Credits : w = <<"credit", c, k>> /\ w[2] = c /\ w[3] = k
    BY <1>0, <1>2, LateShape
  <2>2. credit' = Created(c, k)
    BY <1>2, <2>1 DEF Land
  <2> QED BY <1>0, <1>1, <2>1, <2>2, LandedResumes
<1>3. CASE w[1] # "credit"
  <2>1. UNCHANGED credit
    BY <1>3 DEF Land
  <2> QED BY <1>0, <1>1, <2>1, ResumeStill
<1> QED BY <1>2, <1>3

LEMMA ResumeStep ==
    ASSUME CreditInv, WalletInv, ResumeInv, [Next]_vars
    PROVE  ResumeInv'
<1>0. Types
  BY DEF CreditInv
<1>1. CASE UNCHANGED vars
  BY <1>1, ResumeStill DEF vars, actor, airtable, ResumeInv
<1>2. CASE Next
  <2>1. CASE Activation
    BY <2>1, ActivationResumes
  <2>2. CASE Extension
    BY <2>2, ExtendResumes, ExtendCreditResumes, ExtendClaimResumes, ExtendDoneResumes
       DEF Extension
  <2>3. CASE Redemption
    BY <2>3, RedemptionResumes
  <2>4. CASE Bill \/ Pricing \/ World
    BY <1>0, <2>4, OtherHandlersResume, LandResumes DEF World
  <2> QED BY <1>2, <2>1, <2>2, <2>3, <2>4, NextByHandler
<1> QED BY <1>1, <1>2

\* A debit half way: its job has the claim, and the claim is as it was.
LEMMA DebitResumes ==
    ASSUME CreditInv, WalletInv, ResumeInv,
           NEW c \in Claims, NEW j \in Jobs, <<c, j>> \in Redeems, Wanted(c, j)
    PROVE  MayRedeem(c, j, TRUE)
<1>1. Allocated(c, j) # {}
  BY DEF Wanted, HalfWay
<1>2. jobClaim[j] = c /\ c # None
  BY <1>1, ClaimOfAllocated, ClaimsAssumption DEF WalletInv, ClaimsAssumption
<1>3. allocations[c] # <<>>
  BY <1>1 DEF Allocated
<1>4. journal[c].status = "complete" /\ claimRow[c].applied
  BY <1>3 DEF ResumeInv, ClaimResumes
<1>5. claimRow[c].expires = Expiry(c) /\ journal[c].expires = Expiry(c)
  BY DEF Wanted, CreditInv, OneExpiry
<1>6. Redeemable(c, j)
  BY <1>2, <1>4, <1>5 DEF Redeemable, Wanted
<1> QED BY <1>1, <1>2, <1>6 DEF MayRedeem

\* An extension half way: the request it was begun with was never answered.
LEMMA ExtensionResumes ==
    ASSUME CreditInv, ResumeInv,
           NEW c \in Claims, extension[c].status = "pending", extension[c].to > now
    PROVE  \E q \in Extends : q.claim = c /\ MayExtend(q)
<1>1. Held(c)
  BY DEF ResumeInv, ClaimResumes
<1>2. PICK q \in Extends : q.claim = c /\ q.from = extension[c].from /\ q.to = extension[c].to
  BY <1>1 DEF Held
<1>3. extension[c] \in ExtensionType
  BY RecordTypes DEF CreditInv
<1>4. q.from \in Nat /\ q.to \in Nat /\ q.to <= Longest /\ q.from < q.to
  BY <1>1, <1>2, <1>3, ClaimsAssumption, BoundsAssumption
     DEF Held, ExtensionType, Months, ClaimsAssumption, BoundsAssumption
<1>5. q \notin receipts
  <2>1. q \in receipts => q.to <= extension[c].from
    BY <1>2 DEF ResumeInv, ReceiptsPast, Reached
  <2> QED BY <1>2, <1>4, <2>1
<1>6. /\ journal[c].status = "complete" /\ claimRow[c].applied
      /\ \A k \in Credits : credit[c][k].rows = 1
  BY DEF CreditInv, ExtendedWhenComplete, CompleteHasRows, ResumeInv, ClaimResumes
<1> QED BY <1>1, <1>2, <1>4, <1>5, <1>6 DEF MayExtend, Held, Within

(***************************************************************************)
(* What a handler left half way is never locked out by what it wrote:      *)
(* while no other runs, the coordinator accepts the checkout of a job      *)
(* whose debit is half done, as long as the job is approved, without       *)
(* discount, and the credits have not expired; and it accepts again the    *)
(* request of an extension that is half done, until the expiry it asks     *)
(* for.  This is what redeem and extend check before they write anything:  *)
(* the rest of both actions only says what they write.                     *)
(***************************************************************************)
THEOREM StoppedIsAccepted ==
    Spec => [](run = Idle =>
        /\ \A r \in Redeems : Wanted(r[1], r[2]) => MayRedeem(r[1], r[2], TRUE)
        /\ \A c \in Claims : extension[c].status = "pending" /\ extension[c].to > now =>
                \E q \in Extends : q.claim = c /\ MayExtend(q))
<1>1. ASSUME CreditInv, WalletInv, ResumeInv
      PROVE  run = Idle =>
               /\ \A r \in Redeems : Wanted(r[1], r[2]) => MayRedeem(r[1], r[2], TRUE)
               /\ \A c \in Claims : extension[c].status = "pending" /\ extension[c].to > now =>
                    \E q \in Extends : q.claim = c /\ MayExtend(q)
  <2>1. ASSUME NEW r \in Redeems, Wanted(r[1], r[2]) PROVE MayRedeem(r[1], r[2], TRUE)
    <3>1. r[1] \in Claims /\ r[2] \in Jobs /\ <<r[1], r[2]>> \in Redeems
      BY ClaimsAssumption DEF ClaimsAssumption
    <3> QED BY <1>1, <2>1, <3>1, DebitResumes
  <2> QED BY <1>1, <2>1, ExtensionResumes
<1> QED BY <1>1, ResumeInit, ResumeStep, WalletInvariance, PTL DEF Spec
=============================================================================

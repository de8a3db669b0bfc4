---------------------------- MODULE DerivedAmount ----------------------------
(***************************************************************************)
(* An amount shown beside the money it is derived from: it is brought up   *)
(* to date now and then, never shows more than was paid, and never goes    *)
(* back to an older amount.                                                *)
(***************************************************************************)
EXTENDS Naturals

VARIABLES
  paid,     \* all that was ever verified, each payment once
  shown     \* the amount shown

vars == <<paid, shown>>

Init == paid = 0 /\ shown = 0

Receive ==
  /\ paid' \in Nat
  /\ paid' > paid
  /\ UNCHANGED shown

Show ==
  /\ shown' \in (shown + 1)..paid
  /\ UNCHANGED paid

Next == Receive \/ Show

Spec == Init /\ [][Next]_vars
=============================================================================

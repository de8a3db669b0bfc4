--------------------------- MODULE ShopStockLedger ---------------------------
(***************************************************************************)
(* What the stock of the shop promises, seen through the movement records  *)
(* alone: units of a batch are held for an order while there are units to  *)
(* hold; what is held for an order is afterwards either sold or freed, the *)
(* whole of it, once, and never both.                                      *)
(***************************************************************************)
EXTENDS Naturals, Functions

CONSTANTS
  Orders,
  Batches,
  Initial     \* units each batch came in with

VARIABLES
  held,       \* units of each batch ever held for each order
  sold,       \* of these, the units sold
  freed       \* and the units given back

vars == <<held, sold, freed>>

Nothing == [o \in Orders |-> [b \in Batches |-> 0]]

Init ==
  /\ held = Nothing
  /\ sold = Nothing
  /\ freed = Nothing

\* The units of b that are out of the shelf: held and not freed.
Gone(b) == SumFunction([o \in Orders |-> held[o][b] - freed[o][b]])

Hold(o, b) ==
  /\ held[o][b] = 0
  /\ \E q \in 1..Initial[b] :
       /\ Gone(b) + q <= Initial[b]
       /\ held' = [held EXCEPT ![o][b] = q]
  /\ UNCHANGED <<sold, freed>>

Sell(o, b) ==
  /\ freed[o][b] = 0
  /\ sold' = [sold EXCEPT ![o][b] = held[o][b]]
  /\ UNCHANGED <<held, freed>>

Free(o, b) ==
  /\ sold[o][b] = 0
  /\ freed' = [freed EXCEPT ![o][b] = held[o][b]]
  /\ UNCHANGED <<held, sold>>

Next == \E o \in Orders, b \in Batches : Hold(o, b) \/ Sell(o, b) \/ Free(o, b)

Spec == Init /\ [][Next]_vars
=============================================================================

------------------------------ MODULE OnceOnly ------------------------------
(***************************************************************************)
(* What one checkout key promises, without saying how: of all the calls    *)
(* that carry the key, one may work on the world, its work comes to an     *)
(* end, and from then on nothing is ever written for that key again.  A    *)
(* call is answered once.  It may be told "ok" only when the work has      *)
(* ended having written, and "new_attempt" (take another key, nothing      *)
(* happened) only when the work has ended having written nothing at all.   *)
(*                                                                         *)
(* The exception is a call that cannot be read: it never works, and is     *)
(* told "new_attempt" whatever the other calls of the key have done, for   *)
(* nobody asks.  If no call of the key can be read, nothing is ever        *)
(* written for it and what they are told is true.                          *)
(***************************************************************************)
CONSTANTS
  Requests,    \* the calls that carry the key
  Unreadable   \* those that cannot be read

VARIABLES
  phase,    \* "free": nobody has taken the key; "open": its owner works; "shut"
  wrote,    \* something was written to the world on behalf of the key
  told      \* what each call was told: "nothing", "ok", "new_attempt", "other"

vars == <<phase, wrote, told>>

TypeOK ==
  /\ phase \in {"free", "open", "shut"}
  /\ wrote \in BOOLEAN
  /\ told \in [Requests -> {"nothing", "ok", "new_attempt", "other"}]

Init ==
  /\ phase = "free"
  /\ wrote = FALSE
  /\ told = [r \in Requests |-> "nothing"]

\* What may be said to a call once the work of the key has ended.
Sayable(what) ==
  \/ what = "other"
  \/ what = "ok" /\ wrote
  \/ what = "new_attempt" /\ ~wrote

Tell(r, what) ==
  /\ told[r] = "nothing"
  /\ told' = [told EXCEPT ![r] = what]

\* A call that can be read takes the key, or loses its answer as it does.
Take ==
  /\ phase = "free"
  /\ \E r \in Requests \ Unreadable :
       \/ phase' = "open" /\ UNCHANGED told
       \/ phase' = "shut" /\ Tell(r, "other")
  /\ UNCHANGED wrote

Write ==
  /\ phase = "open"
  /\ wrote' = TRUE
  /\ UNCHANGED <<phase, told>>

Finish(r, what) ==
  /\ phase = "open"
  /\ Sayable(what)
  /\ phase' = "shut"
  /\ Tell(r, what)
  /\ UNCHANGED wrote

\* The work is abandoned: every call waiting for an answer may lose it.
Abandon ==
  /\ phase = "open"
  /\ phase' = "shut"
  /\ \E lost \in SUBSET {r \in Requests : told[r] = "nothing"} :
       told' = [r \in Requests |-> IF r \in lost THEN "other" ELSE told[r]]
  /\ UNCHANGED wrote

Answer(r, what) ==
  /\ \/ what = "other"
     \/ phase = "shut" /\ Sayable(what)
     \/ what = "new_attempt" /\ r \in Unreadable
  /\ Tell(r, what)
  /\ UNCHANGED <<phase, wrote>>

Next ==
  \/ Take
  \/ Write
  \/ Abandon
  \/ \E r \in Requests, what \in {"ok", "new_attempt", "other"} :
        Finish(r, what) \/ Answer(r, what)

Spec == Init /\ [][Next]_vars
=============================================================================

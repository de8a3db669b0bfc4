---------------------- MODULE MCSessionPaidProjection ----------------------
EXTENDS SessionPaidProjection, TLC

CONSTANTS n1, n2, n3, a1, a2, i1, i2, deposit, final

\* The deposit is verified twice (a retry), the final payment once.
MCRefOf == [c \in Callers |-> IF c \in {n1, n2, i1, i2} THEN deposit ELSE final]

\* No sum of payments is another payment.
MCAmountOf == (deposit :> 1) @@ (final :> 2)
=============================================================================

--------------------------- MODULE MCShopCheckout ---------------------------
EXTENDS ShopCheckout, TLC

CONSTANTS r1, r2, r3, r4, cartA, cartB, noCart

MCRequests == {r1, r2, r3, r4}
MCCarts == {cartA, cartB, noCart}
MCMalformed == {noCart}
MCCartOf == (r1 :> cartA) @@ (r2 :> cartA) @@ (r3 :> cartB) @@ (r4 :> noCart)
=============================================================================

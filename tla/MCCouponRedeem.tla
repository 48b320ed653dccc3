---------------------------- MODULE MCCouponRedeem ----------------------------
\* Two requests for one coupon, one of which names no client, and an operator's
\* command share a connection.
EXTENDS CouponRedeem, TLC

CONSTANTS r1, r2, g, p

MCCommandOf ==
    (r1 :> [kind |-> "mail", target |-> p]) @@ (r2 :> [kind |-> "mail", target |-> p]) @@
    (g :> [kind |-> "mailAll", target |-> NoClient])
=============================================================================

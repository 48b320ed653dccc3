------------------------------- MODULE MCLogin -------------------------------
\* Two clients make the same account at the same time, and one of them also
\* plays on an account that exists, without waiting for its answers.
EXTENDS Login, TLC

CONSTANTS s1, s2, ann, bob

MCNames == {ann, bob}
MCScript ==
    (s1 :> <<Attempt(bob, 0, FALSE), Attempt(ann, 1, TRUE)>>) @@
    (s2 :> <<Attempt(bob, 1, TRUE), Attempt(ann, 2, TRUE)>>)

\* One account, played from two sessions one after the other.
MCRejoin == (s1 :> <<Attempt(bob, 1, TRUE)>>) @@ (s2 :> <<Attempt(bob, 1, TRUE)>>)
=============================================================================

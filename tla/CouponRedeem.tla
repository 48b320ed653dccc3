----------------------------- MODULE CouponRedeem -----------------------------
(***************************************************************************)
(* Redeeming a coupon (CouponRedeemService): validate, use it up in the    *)
(* database by one conditional update, and only then have World send the   *)
(* reward as a mail, over the link of ToolLink, if the campaign rewards by *)
(* mail and the request names a client.  Many requests for the same coupon *)
(* run at once.                                                            *)
(***************************************************************************)
EXTENDS ToolLink

CONSTANTS
    Redeemers,      \* callers that are redeem requests, all for one coupon
    Anonymous,      \* those of them that name no client to reward
    RewardKind,     \* of its campaign
    MaxUseCount     \* of its campaign; 0: no limit

ASSUME CouponAssumption ==
    /\ Anonymous \subseteq Redeemers
    /\ Redeemers \subseteq Callers /\ IsFiniteSet(Redeemers)
    /\ \A r \in Redeemers : CommandOf[r].kind = "mail"
    /\ MaxUseCount \in Nat

VARIABLES
    redeem,     \* per request: how far it is
    useCount, status,   \* columns of the coupon
    told        \* per request: the reason in the answer

couponVars == <<redeem, useCount, status, told>>
vars == <<linkVars, couponVars>>

Init ==
    /\ LinkInit
    /\ redeem = [r \in Redeemers |-> "start"]
    /\ useCount = 0 /\ status = "Issued"
    /\ told = [r \in Redeemers |-> "none"]

Tell(r, what) ==
    /\ redeem' = [redeem EXCEPT ![r] = "told"]
    /\ told' = [told EXCEPT ![r] = what]

\* Mutant: the update is unconditional.
UnlimitedUse == TRUE
\* The WHERE of TryConsumeAsync, but for the time of expiry.
Consumable ==
    /\ status = "Issued"
    /\ MaxUseCount > 0 => useCount < MaxUseCount

Consume ==
    /\ useCount' = useCount + 1
    /\ status' = IF MaxUseCount > 0 /\ useCount + 1 >= MaxUseCount THEN "Used" ELSE status

\* Mutant: a coupon that could not be used up is rewarded all the same.
NextOfUnused(r) == redeem' = [redeem EXCEPT ![r] = "used"] /\ told' = told
NextOfRefused(r) == Tell(r, "refused")

\* Steps 1 to 5: a check before the update, or the time of expiry, may refuse
\* a coupon that could be used.
TryConsume(r) ==
    /\ redeem[r] = "start"
    /\ \/ /\ Consumable
          /\ Consume
          /\ redeem' = [redeem EXCEPT ![r] = "used"]
          /\ told' = told
       \/ /\ NextOfRefused(r)
          /\ UNCHANGED <<useCount, status>>
    /\ UNCHANGED linkVars

\* The database fails before or after it has committed: the request ends in
\* an exception.
ConsumeThrows(r) ==
    /\ redeem[r] = "start"
    /\ \/ Consumable /\ Consume
       \/ UNCHANGED <<useCount, status>>
    /\ Tell(r, "exception")
    /\ UNCHANGED linkVars

\* Who names no client only uses the coupon up.
OwesMail(r) == RewardKind = "Mail" /\ r \notin Anonymous

\* Step 6: SendMailAsync; the use of the coupon stands whatever comes of it.
Reward(r) ==
    /\ redeem[r] = "used"
    /\ OwesMail(r)
    /\ Begin(r)
    /\ redeem' = [redeem EXCEPT ![r] = "rewarding"]
    /\ UNCHANGED <<useCount, status, told>>

RegisterOnly(r) ==
    /\ redeem[r] = "used"
    /\ ~OwesMail(r)
    /\ Tell(r, "Ok")
    /\ UNCHANGED <<linkVars, useCount, status>>

\* Mutant: a mail that timed out is taken for sent.
DelayedUnlessLost(what) == what \notin {"Ok", "ToolTimeout"}
Delayed(what) == what # "Ok"

Finish(r) ==
    /\ redeem[r] = "rewarding"
    /\ caller[r] = "done"
    /\ Tell(r, IF Delayed(result[r]) THEN "OkRewardDelayed" ELSE "Ok")
    /\ UNCHANGED <<linkVars, useCount, status>>

RedeemStep(r) ==
    \/ TryConsume(r) \/ ConsumeThrows(r) \/ Reward(r) \/ RegisterOnly(r) \/ Finish(r)

\* The callers that are not redeem requests are the operator's own commands.
Next ==
    \/ LinkNext /\ UNCHANGED couponVars
    \/ \E c \in Callers \ Redeemers : Begin(c) /\ UNCHANGED couponVars
    \/ \E r \in Redeemers : RedeemStep(r)

Spec == Init /\ [][Next]_vars

-----------------------------------------------------------------------------
Rewarded(r) == idOf[r] # 0 /\ delivered[idOf[r]] # {}

\* No coupon is rewarded more often than it was used, and none used more
\* often than its campaign allows, though many ask at once
\* (CouponRepository.cs:165-168).
RewardsWithinUses ==
    /\ Cardinality({r \in Redeemers : Rewarded(r)}) <= useCount
    /\ MaxUseCount > 0 => useCount <= MaxUseCount

\* A request that is owed a mail and told that its coupon is registered, without
\* the warning of a delay, has had it delivered.  One that is refused has had
\* none, and one that is owed none, which is told the same words, never gets one
\* (CouponRedeemService.cs:137-140).
ToldIsTrue ==
    \A r \in Redeemers :
        /\ told[r] = "Ok" /\ OwesMail(r) => Rewarded(r)
        /\ told[r] \in {"refused", "exception"} \/ ~OwesMail(r) => ~Rewarded(r)
=============================================================================

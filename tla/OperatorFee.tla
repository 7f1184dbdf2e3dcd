----------------------------- MODULE OperatorFee -----------------------------
(***************************************************************************)
(* The operator-fee skim of the account API and its referral split, the    *)
(* arithmetic every value-moving verb of libexec/lightning-node repeats:   *)
(* bash integers, in millisatoshi, divided with truncation towards zero.   *)
(* The width of a bash integer is left out: Int stands for 64-bit values   *)
(* of amounts below 2^63 / FeeRatePpm.                                     *)
(***************************************************************************)
EXTENDS Integers

CONSTANTS FeeBaseMsat,  \* base_sat of the operation's record, in msat
          FeeRatePpm,   \* rate_ppm of the operation's record (may be negative)
          Ppm,          \* the divisor of rate_ppm (1000000 in the code)
          DirectPct     \* LIGHTNING_REFERRAL_DIRECT_PCT after its clamp

ASSUME FeeTermsAssumption ==
    /\ FeeBaseMsat \in Int
    /\ FeeRatePpm \in Int
    /\ Ppm \in Nat \ {0}
    /\ DirectPct \in 0..100

\* Bash `/`: the quotient truncated towards zero.
TruncDiv(n, d) == IF n >= 0 THEN n \div d ELSE -((-n) \div d)

\* The skim of an operation on amt msat, as pay, withdraw and transfer compute it.
OperatorFee(amt) == FeeBaseMsat + TruncDiv(amt * FeeRatePpm, Ppm)

\* The rows of a fee are written only when the fee is positive.
Skim(amt) == IF OperatorFee(amt) > 0 THEN OperatorFee(amt) ELSE 0

\* The part of a skim that a referrer who passed every gate receives, and what
\* is left for the house.
ReferralShare(skim) == (skim * DirectPct) \div 100
HouseShare(skim, referral) == skim - referral
=============================================================================

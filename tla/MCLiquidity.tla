------------------------------ MODULE MCLiquidity ------------------------------
(***************************************************************************)
(* Offers that differ in what is looked at: cost, the bounds, receipt of a *)
(* zap, expiry, status, and a number that cannot be read.                  *)
(***************************************************************************)
EXTENDS Liquidity

Offer(ppm, fixed, min, zap, expires, active, flaw) ==
    [ppm |-> ppm, fixed |-> fixed, min_sat |-> min, zap |-> zap, expires |-> expires,
     active |-> active, flaw |-> flaw]

MCEvents ==
    { Offer(1, 0, 5, NoZap, 9, TRUE, "none"),
      Offer(0, 2, 1, NoZap, 9, TRUE, "none"),
      Offer(2, 0, 5, "zap", 9, TRUE, "none"),
      Offer(0, 0, 5, NoZap, 2, TRUE, "none"),
      Offer(0, 0, 5, NoZap, 9, FALSE, "none"),
      Offer(1, 1, 5, NoZap, 2, TRUE, "fees"),
      Offer(1, 1, 5, NoZap, 2, TRUE, "expiry") }

Get(ppm, min, limit, featured) ==
    [method |-> "GET", ints |-> TRUE, max_ppm |-> ppm, min_sat |-> min, limit |-> limit,
     featured |-> featured]

MCAsks ==
    { Get(0, 0, 50, FALSE), Get(0, 0, 1, TRUE), Get(1, 0, 2, FALSE), Get(0, 3, 50, TRUE),
      Get(0, 0, 0, FALSE), Get(0, 0, -1, TRUE), [Get(0, 0, 1, TRUE) EXCEPT !.method = "POST"],
      [Get(0, 0, 1, TRUE) EXCEPT !.ints = FALSE] }
=============================================================================

--------------------------- MODULE MCSubscription ---------------------------
(***************************************************************************)
(* One tenant: two branches, of which GROWTH allows one here, an invoice   *)
(* for each paid plan, two requests at a time.                             *)
(***************************************************************************)
EXTENDS Subscription, TLC

CONSTANTS b1, b2, growth, enterprise, r1, r2

MCInvoiceTier == growth :> "GROWTH" @@ enterprise :> "ENTERPRISE"

AnyName == Permutations({b1, b2}) \cup Permutations({r1, r2})
=============================================================================

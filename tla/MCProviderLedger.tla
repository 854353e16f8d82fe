--------------------------- MODULE MCProviderLedger ---------------------------
(* TLC instances of ProviderLedger: two callers.                             *)
EXTENDS ProviderLedger, TLC

CONSTANTS p, q, plain, native, r1, r2

TwoForPlain == plain :> {r1, r2} @@ native :> {r1}
=============================================================================

----------------------------- MODULE MCAsyncStore -----------------------------
(* Values of AsyncStore's constants for TLC.                                *)
EXTENDS AsyncStore, TLC

CONSTANTS roll, r1, s1

\* A roll draws two words, as when the first is rejected; a seal draws none.
MCDraws == roll :> 2 @@ seal :> 0
=============================================================================

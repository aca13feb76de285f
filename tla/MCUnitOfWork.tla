----------------------------- MODULE MCUnitOfWork -----------------------------
(* Values of UnitOfWork's constants for TLC.                                *)
EXTENDS UnitOfWork, TLC

CONSTANTS roll, seal, s1, s2, w1, w2

\* One command draws a word and one draws none.
MCDraws == roll :> 1 @@ seal :> 0

\* A worker for each stream.
MCServes == w1 :> s1 @@ w2 :> s2

\* Both workers for one stream.
MCShared == w1 :> s1 @@ w2 :> s1

\* One stream long enough to be truncated twice, and a short one beside it.
MCMaxLog == s1 :> 3 @@ s2 :> 1
=============================================================================

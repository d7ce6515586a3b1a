------------------------- MODULE MCBatchedShortener -------------------------
(***************************************************************************)
(* Instances of BatchedShortener for TLC.  Two calls of one batch can      *)
(* share their code, their key, or nothing; one request must be refused.   *)
(***************************************************************************)
EXTENDS BatchedShortener, TLC

CONSTANTS c1, c2, c3, x1, x2, u1, u2, bad, o1, o2, k1, nul, f1, f2

Req(url, owner, key) == [url |-> url, owner |-> owner, key |-> key]

MCRequests == {Req(u1, o1, k1), Req(u2, o1, k1), Req(u1, o1, NoKey),
               Req(u1, o1, nul)}

MCSmallRequests == {Req(u1, o1, k1), Req(u1, o1, NoKey), Req(u1, o1, nul)}

MCSymmetry == Permutations(Calls) \cup Permutations(Codes) \cup Permutations(Txs)
============================================================================

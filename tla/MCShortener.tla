---------------------------- MODULE MCShortener ----------------------------
(***************************************************************************)
(* An instance of Shortener for TLC: requests that share a key, that share   *)
(* only the key's text, that carry no key, and that must be refused.       *)
(***************************************************************************)
EXTENDS Shortener

CONSTANTS c1, c2, x1, x2, u1, u2, bad, o1, o2, k1, nul

Req(url, owner, key) == [url |-> url, owner |-> owner, key |-> key]

MCRequests ==
  {Req(u1, o1, k1), Req(u2, o1, k1), Req(u1, o2, k1), Req(u1, o1, NoKey),
   Req(bad, o1, k1), Req(u1, o1, nul)}
============================================================================

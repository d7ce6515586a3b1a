-------------------------- MODULE ShortenContract --------------------------
(***************************************************************************)
(* What the shortener promises its clients, with no transaction, retry or  *)
(* batch in sight: a store of rows that only grows and never holds two     *)
(* rows with one code or one (owner, idempotency key), and answers that    *)
(* report rows of the store.  Shortener and BatchedShortener implement it. *)
(***************************************************************************)
CONSTANTS Calls, Row, Requests, Codes, NoKey, NoRow, NoRequest, NoCode

VARIABLES
  store,   (* the mappings that exist                                      *)
  asked,   (* the Shorten request of each call                             *)
  wanted,  (* the code each Get call asks for                              *)
  answer   (* what each call was told                                      *)

vars == <<store, asked, wanted, answer>>

Silent == [status |-> "none", row |-> NoRow, created |-> FALSE]

Refusal(c) ==
  \E status \in {"InvalidArgument", "Internal", "lost"} :
    answer' = [answer EXCEPT ![c] = [status |-> status, row |-> NoRow,
                                     created |-> FALSE]]

Report(c, r, created) ==
  answer' = [answer EXCEPT ![c] = [status |-> "OK", row |-> r,
                                   created |-> created]]

(* Two rows that may not both be in the store.                             *)
Clash(r, s) ==
  \/ r.code = s.code
  \/ r.key # NoKey /\ r.owner = s.owner /\ r.key = s.key

(* The row is the one the call asked for.                                  *)
MadeFor(r, c) ==
  /\ r.createdAt = c
  /\ asked[c] # NoRequest
  /\ r.url = asked[c].url
  /\ r.owner = asked[c].owner
  /\ r.key = asked[c].key

----------------------------------------------------------------------------
Init ==
  /\ store = {}
  /\ asked = [c \in Calls |-> NoRequest]
  /\ wanted = [c \in Calls |-> NoCode]
  /\ answer = [c \in Calls |-> Silent]

Ask(c) ==
  /\ asked[c] = NoRequest /\ wanted[c] = NoCode
  /\ answer[c] = Silent
  /\ \/ \E r \in Requests : asked' = [asked EXCEPT ![c] = r]
                            /\ UNCHANGED wanted
     \/ \E code \in Codes : wanted' = [wanted EXCEPT ![c] = code]
                            /\ UNCHANGED asked
     \/ UNCHANGED <<asked, wanted>>
  /\ UNCHANGED answer \/ Refusal(c)
  /\ UNCHANGED store

(* Rows appear, one per call at most, on behalf of calls that asked; the   *)
(* call need not have been told, nor ever be.                              *)
Create ==
  /\ store \subseteq store'
  /\ \A r \in store' \ store :
       /\ r \in Row
       /\ \E c \in Calls : MadeFor(r, c)
       /\ \A s \in store' : Clash(r, s) \/ r.createdAt = s.createdAt => r = s
  /\ UNCHANGED <<asked, wanted, answer>>

AnswerCreated(c) ==
  /\ answer[c] = Silent
  /\ \E r \in store : MadeFor(r, c) /\ Report(c, r, TRUE)
  /\ UNCHANGED <<store, asked, wanted>>

AnswerExisting(c) ==
  /\ answer[c] = Silent
  /\ asked[c] # NoRequest
  /\ \E r \in store : /\ r.key # NoKey
                      /\ r.owner = asked[c].owner
                      /\ r.key = asked[c].key
                      /\ Report(c, r, FALSE)
  /\ UNCHANGED <<store, asked, wanted>>

AnswerGet(c) ==
  /\ answer[c] = Silent
  /\ wanted[c] # NoCode
  /\ \/ \E r \in store : r.code = wanted[c] /\ Report(c, r, FALSE)
     \/ /\ \A r \in store : r.code # wanted[c]
        /\ answer' = [answer EXCEPT ![c] = [status |-> "NotFound",
                                            row |-> NoRow, created |-> FALSE]]
  /\ UNCHANGED <<store, asked, wanted>>

Refuse(c) ==
  /\ answer[c] = Silent
  /\ Refusal(c)
  /\ UNCHANGED <<store, asked, wanted>>

(* The server dies under several calls at once.                            *)
RefuseAll ==
  /\ \A c \in Calls :
       \/ answer'[c] = answer[c]
       \/ answer[c] = Silent /\ answer'[c] = [status |-> "lost", row |-> NoRow,
                                              created |-> FALSE]
  /\ DOMAIN answer' = Calls
  /\ UNCHANGED <<store, asked, wanted>>

Next ==
  \/ Create
  \/ RefuseAll
  \/ \E c \in Calls :
       Ask(c) \/ AnswerCreated(c) \/ AnswerExisting(c) \/ AnswerGet(c) \/ Refuse(c)

Spec == Init /\ [][Next]_vars
============================================================================

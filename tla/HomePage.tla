------------------------------ MODULE HomePage ------------------------------
(* The page that shortens and lists links: UrlInput submits, HomePage keeps  *)
(* the recent codes, UrlList fetches a row for each of them, all of them     *)
(* again whenever the list changes. Answers come in any order, and those of  *)
(* an earlier effect may come last.                                          *)
EXTENDS Naturals, Sequences, SequencesExt

CONSTANTS
  Codes,       \* the codes the service may answer
  MaxRecent,   \* how many codes are kept (20 in the page)
  MaxEffects   \* bound on the changes of the list

VARIABLES
  busy,     \* UrlInput waits for an answer
  codes,    \* HomePage's list, newest first
  listed,   \* the list of which UrlList has run its effect
  effect,   \* the number of that effect
  asked,    \* the requests without an answer: [of: the effect, code]
  rows,     \* UrlList's rows, by code
  cause     \* for each row the effect whose request it shows

vars == <<busy, codes, listed, effect, asked, rows, cause>>

Init ==
  /\ busy = FALSE /\ codes = <<>> /\ listed = <<>> /\ effect = 0
  /\ asked = {} /\ rows = [c \in {} |-> "loading"] /\ cause = [c \in {} |-> 0]

(* A submission; the button is disabled while one is pending, and React has  *)
(* run the effects of the last render before it handles another event.       *)
Submit ==
  /\ ~busy /\ codes = listed /\ effect < MaxEffects
  /\ busy' = TRUE
  /\ UNCHANGED <<codes, listed, effect, asked, rows, cause>>

pushCode(code) ==
  IF code \in ToSet(codes) THEN codes
  ELSE SubSeq(<<code>> \o codes, 1, IF Len(codes) < MaxRecent THEN Len(codes) + 1 ELSE MaxRecent)

(* The answer: a code, perhaps one that is listed already, or an error. *)
Answered ==
  /\ busy /\ busy' = FALSE
  /\ \/ \E code \in Codes : codes' = pushCode(code)
     \/ UNCHANGED codes
  /\ UNCHANGED <<listed, effect, asked, rows, cause>>

(* The list has changed and is rendered: the old effect is cancelled, every  *)
(* row is loading again and every code is asked for.                         *)
Effect ==
  /\ codes # listed
  /\ listed' = codes /\ effect' = effect + 1
  /\ rows' = [c \in ToSet(codes) |-> "loading"] /\ cause' = [c \in ToSet(codes) |-> effect']
  /\ asked' = asked \cup {[of |-> effect', code |-> c] : c \in ToSet(codes)}
  /\ UNCHANGED <<busy, codes>>

(* Mutant: cancelled is not looked at. *)
stillWanted(of) == TRUE

wanted(of) == of = effect

(* An answer, or a failure, of get. *)
RowAnswered ==
  \E r \in asked, status \in {"ok", "error"} :
    /\ asked' = asked \ {r}
    /\ IF wanted(r.of)
       THEN /\ rows' = [c \in DOMAIN rows \cup {r.code} |-> IF c = r.code THEN status ELSE rows[c]]
            /\ cause' = [c \in DOMAIN rows \cup {r.code} |-> IF c = r.code THEN r.of ELSE cause[c]]
       ELSE UNCHANGED <<rows, cause>>
    /\ UNCHANGED <<busy, codes, listed, effect>>

Next == Submit \/ Answered \/ Effect \/ RowAnswered

Spec == Init /\ [][Next]_vars

------------------------------------------------------------------------------
(* Properties *)

(* The variables have their types; no code is listed twice, and there is a   *)
(* row for every listed code and no other.                                   *)
TypeOK ==
  /\ Len(codes) <= MaxRecent /\ IsInjective(codes)
  /\ DOMAIN rows = ToSet(listed)
  /\ \A c \in DOMAIN rows : rows[c] \in {"loading", "ok", "error"}

(* A row never shows the answer of an earlier effect, which would overwrite  *)
(* a newer one when it comes last.                                           *)
NoStaleRow == TypeOK /\ \A c \in DOMAIN rows : cause[c] = effect
==============================================================================

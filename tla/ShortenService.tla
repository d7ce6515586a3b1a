-------------------------- MODULE ShortenService ---------------------------
(***************************************************************************)
(* The shortener's gRPC handlers (services/shortener/internal/service/     *)
(* service.go).  A call is one run of Shorten or Get; several run at once. *)
(* The module gives the steps of the handlers; how repo.Insert is carried  *)
(* out is left to the modules that compose it: Shortener (straight to the  *)
(* repository) and BatchedShortener (through the write batcher).           *)
(***************************************************************************)
EXTENDS ShortenerRepo

CONSTANTS
  Calls,       (* handler runs                                             *)
  Requests,    (* the Shorten requests clients send                        *)
  HttpUrls,    (* the URLs validateLongURL accepts                         *)
  MaxRetries,  (* Server.maxRetries                                        *)
  NoRow, NoRequest, NoCode

ASSUME RequestsAssumption ==
  Requests \subseteq [url: Urls, owner: Owners, key: Keys \cup {NoKey}]

ASSUME RetriesAssumption == MaxRetries \in Nat \ {0}

ASSUME NullAssumption ==
  NoRow \notin Row /\ NoRequest \notin Requests /\ NoCode \notin Codes

(* created_at is stamped by the call, so a stamp tells which call made a   *)
(* row.  A URL with a control character does not parse, and 2048 bytes fit *)
(* an index row.                                                           *)
ASSUME StampAssumption == Stamps = Calls

ASSUME UrlAssumption == HttpUrls \cap Unstorable = {}

VARIABLES
  pc,        (* the statement each call is at                              *)
  req,       (* its Shorten request                                        *)
  wanted,    (* its Get request                                            *)
  attempt,   (* codes it has generated                                     *)
  row,       (* the row of its latest Insert                               *)
  resp       (* what it answered                                           *)

svcVars == <<pc, req, wanted, attempt, row, resp>>

Status == {"none", "OK", "InvalidArgument", "NotFound", "Internal", "lost"}

Response == [status: Status, row: Row \cup {NoRow}, created: BOOLEAN]

Failure(status) == [status |-> status, row |-> NoRow, created |-> FALSE]

Success(r, created) == [status |-> "OK", row |-> r, created |-> created]

Answer(c, response) ==
  /\ resp' = [resp EXCEPT ![c] = response]
  /\ pc' = [pc EXCEPT ![c] = "done"]

Goto(c, label) ==
  /\ pc' = [pc EXCEPT ![c] = label]
  /\ UNCHANGED resp

----------------------------------------------------------------------------
(* Shorten.                                                                *)

(* Mutant: owner and key are not looked at.                                *)
AnyOwnerKey(text) == TRUE

ValidOwnerKey(text) == text \notin Unstorable

Valid(r) ==
  /\ r.url \in HttpUrls
  /\ ValidOwnerKey(r.owner)
  /\ ValidOwnerKey(r.key)

Accept(c, r) ==
  /\ pc[c] = "idle"
  /\ Valid(r)
  /\ req' = [req EXCEPT ![c] = r]
  /\ Goto(c, IF r.key = NoKey THEN "generate" ELSE "lookup")
  /\ UNCHANGED <<wanted, attempt, row, repoVars>>

Reject(c, r) ==
  /\ pc[c] = "idle"
  /\ ~Valid(r)
  /\ req' = [req EXCEPT ![c] = r]
  /\ Answer(c, Failure("InvalidArgument"))
  /\ UNCHANGED <<wanted, attempt, row, repoVars>>

(* GetByIdempotencyKey before the first attempt.                           *)
LookupFinds(c) ==
  /\ pc[c] = "lookup"
  /\ \E r \in GetByIdempotencyKey(req[c].owner, req[c].key) :
       Answer(c, Success(r, FALSE))
  /\ UNCHANGED <<req, wanted, attempt, row, repoVars>>

LookupMisses(c) ==
  /\ pc[c] = "lookup"
  /\ GetByIdempotencyKey(req[c].owner, req[c].key) = {}
  /\ Goto(c, "generate")
  /\ UNCHANGED <<req, wanted, attempt, row, repoVars>>

(* A row the call builds around a generated code.                          *)
NewRow(c, code) ==
  [code |-> code, url |-> req[c].url, owner |-> req[c].owner, key |-> req[c].key,
   createdAt |-> c]

(* Mutants: one attempt too many; attempts that are not counted.           *)
GenerateOnceMore(c, code) ==
  /\ pc[c] = "generate"
  /\ attempt[c] <= MaxRetries
  /\ attempt' = [attempt EXCEPT ![c] = @ + 1]
  /\ row' = [row EXCEPT ![c] = NewRow(c, code)]
  /\ Goto(c, "insert")
  /\ UNCHANGED <<req, wanted>>

GenerateUncounted(c, code) ==
  /\ pc[c] = "generate"
  /\ row' = [row EXCEPT ![c] = NewRow(c, code)]
  /\ Goto(c, "insert")
  /\ UNCHANGED <<req, wanted, attempt>>

(* One turn of the retry loop, up to the call of repo.Insert.              *)
Generate(c, code) ==
  /\ pc[c] = "generate"
  /\ attempt[c] < MaxRetries
  /\ attempt' = [attempt EXCEPT ![c] = @ + 1]
  /\ row' = [row EXCEPT ![c] = NewRow(c, code)]
  /\ Goto(c, "insert")
  /\ UNCHANGED <<req, wanted>>

Exhausted(c) ==
  /\ pc[c] = "generate"
  /\ attempt[c] = MaxRetries
  /\ Answer(c, Failure("Internal"))
  /\ UNCHANGED <<req, wanted, attempt, row, repoVars>>

(* Mutants: an insert that may have happened is tried again; a call that   *)
(* lost the race for its key answers its own row.                          *)
InsertReturnsRetrying(c, err) ==
  /\ pc[c] = "insert"
  /\ \/ err = "ok" /\ Answer(c, Success(row[c], TRUE))
     \/ err \in {"duplicateCode", "error"} /\ Goto(c, "generate")
     \/ err = "duplicateKey" /\ Goto(c, "reread")
  /\ UNCHANGED <<req, wanted, attempt, row>>

InsertReturnsLoser(c, err) ==
  /\ pc[c] = "insert"
  /\ \/ err \in {"ok", "duplicateKey"} /\ Answer(c, Success(row[c], err = "ok"))
     \/ err = "duplicateCode" /\ Goto(c, "generate")
     \/ err = "error" /\ Answer(c, Failure("Internal"))
  /\ UNCHANGED <<req, wanted, attempt, row>>

(* repo.Insert has returned; the repository's own step is conjoined by the *)
(* composing module.                                                       *)
InsertReturns(c, err) ==
  /\ pc[c] = "insert"
  /\ \/ err = "ok" /\ Answer(c, Success(row[c], TRUE))
     \/ err = "duplicateCode" /\ Goto(c, "generate")
     \/ err = "duplicateKey" /\ Goto(c, "reread")
     \/ err = "error" /\ Answer(c, Failure("Internal"))
  /\ UNCHANGED <<req, wanted, attempt, row>>

(* A concurrent call with the same key won: answer with its row.  Finding  *)
(* none is an error like any other ("race lookup").                        *)
Reread(c) ==
  /\ pc[c] = "reread"
  /\ LET found == GetByIdempotencyKey(req[c].owner, req[c].key)
     IN  IF found = {}
         THEN Answer(c, Failure("Internal"))
         ELSE \E r \in found : Answer(c, Success(r, FALSE))
  /\ UNCHANGED <<req, wanted, attempt, row, repoVars>>

(* A lookup, or the code generator, returns an error.                      *)
StepFails(c) ==
  /\ pc[c] \in {"lookup", "generate", "reread", "get"}
  /\ Answer(c, Failure("Internal"))
  /\ UNCHANGED <<req, wanted, attempt, row, repoVars>>

----------------------------------------------------------------------------
(* Get.                                                                    *)

AskGet(c, code) ==
  /\ pc[c] = "idle"
  /\ wanted' = [wanted EXCEPT ![c] = code]
  /\ IF code = NoCode
     THEN Answer(c, Failure("InvalidArgument"))
     ELSE Goto(c, "get")
  /\ UNCHANGED <<req, attempt, row, repoVars>>

GetReads(c) ==
  /\ pc[c] = "get"
  /\ \/ \E r \in GetByCode(wanted[c]) : Answer(c, Success(r, FALSE))
     \/ GetByCode(wanted[c]) = {} /\ Answer(c, Failure("NotFound"))
  /\ UNCHANGED <<req, wanted, attempt, row, repoVars>>

----------------------------------------------------------------------------
(* Every handler run still under way ends without an answer.               *)
LoseCalls ==
  /\ pc' = [c \in Calls |-> IF pc[c] = "idle" THEN "idle" ELSE "done"]
  /\ resp' = [c \in Calls |->
                IF pc[c] \in {"idle", "done"} THEN resp[c] ELSE Failure("lost")]
  /\ UNCHANGED <<req, wanted, attempt, row>>

ServiceInit ==
  /\ pc = [c \in Calls |-> "idle"]
  /\ req = [c \in Calls |-> NoRequest]
  /\ wanted = [c \in Calls |-> NoCode]
  /\ attempt = [c \in Calls |-> 0]
  /\ row = [c \in Calls |-> NoRow]
  /\ resp = [c \in Calls |-> Failure("none")]

(* What clients may do, what the handlers must do, what may go wrong.      *)
ServiceAsk(c) ==
  \/ \E r \in Requests : Accept(c, r) \/ Reject(c, r)
  \/ \E code \in Codes \cup {NoCode} : AskGet(c, code)

ServiceProgress(c) ==
  \/ LookupFinds(c)
  \/ LookupMisses(c)
  \/ Exhausted(c)
  \/ Reread(c)
  \/ GetReads(c)

----------------------------------------------------------------------------
ServiceTypeOK ==
  /\ pc \in [Calls -> {"idle", "lookup", "generate", "insert", "reread", "get",
                       "done"}]
  /\ req \in [Calls -> Requests \cup {NoRequest}]
  /\ wanted \in [Calls -> Codes \cup {NoCode}]
  /\ attempt \in [Calls -> 0..MaxRetries]
  /\ row \in [Calls -> Row \cup {NoRow}]
  /\ resp \in [Calls -> Response]

(* The dedup contract of the Shorten doc comment: two answered requests of *)
(* one owner with one idempotency key carry the same code.                 *)
Idempotent ==
  \A c, d \in Calls :
    /\ resp[c].status = "OK" /\ req[c] # NoRequest
    /\ resp[d].status = "OK" /\ req[d] # NoRequest
    /\ SameKey(req[c], req[d])
    => resp[c].row.code = resp[d].row.code

(* A code handed to a client is committed, with the row it was handed, and *)
(* a Shorten answer belongs to the owner and key that asked, and keeps the *)
(* requested URL whenever the call says it created the row.                *)
AnswersDurable ==
  \A c \in Calls :
    resp[c].status = "OK" =>
      /\ resp[c].row \in short_urls
      /\ req[c] # NoRequest =>
           /\ resp[c].row.owner = req[c].owner
           /\ resp[c].row.key = req[c].key
           /\ resp[c].created => resp[c].row.url = req[c].url

(* Created answers are never shared: one insertion is reported once.       *)
CreatedOnce ==
  \A c, d \in Calls :
    resp[c].created /\ resp[d].created /\ c # d => resp[c].row # resp[d].row

(* However often it retries, and whatever it answers, a call leaves at     *)
(* most one row: it goes round the loop only after an insert that surely   *)
(* did not happen.                                                         *)
OneRowPerCall ==
  \A r, s \in short_urls : r.createdAt = s.createdAt => r = s

(* A call told that its key exists finds the winner: the "race lookup"     *)
(* error cannot come from a missing row.                                   *)
WinnerReadable ==
  \A c \in Calls :
    pc[c] = "reread" => GetByIdempotencyKey(req[c].owner, req[c].key) # {}

(* Once a code has been answered, no Get of it says NotFound.              *)
ReadYourWrites ==
  [][\A c, d \in Calls :
       /\ resp[d].status = "OK"
       /\ pc[c] = "get"
       /\ wanted[c] = resp[d].row.code
       => resp'[c].status # "NotFound"]_<<repoVars, svcVars>>

(* What both wirings of the service implement: every step is a step of the *)
(* contract, or changes nothing a client or the table can show.            *)
C == INSTANCE ShortenContract WITH store <- short_urls, asked <- req,
                                   answer <- resp

Contract == C!Spec
============================================================================

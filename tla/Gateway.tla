------------------------------- MODULE Gateway ------------------------------
(***************************************************************************)
(* The gateway (services/gateway): the router, the handlers that pass      *)
(* requests on to the gRPC services, the redirect, and main's shutdown.    *)
(* It keeps nothing between requests, so that one call in flight shows     *)
(* all it does.  Connect's own answers and its HTTP statuses are external; *)
(* which requests the services refuse is in Refuses.                       *)
(***************************************************************************)
EXTENDS Naturals, Sequences

CONSTANT CodeLength      (* SHORTENER_CODE_LENGTH, 8 unless set            *)

R == INSTANCE ResolverRedirect

VARIABLES
  req,         (* the request                                              *)
  pc,          (* "idle", "routed", "upstream" or "answered"               *)
  upstream,    (* what the service returned: a gRPC status                 *)
  status,      (* the HTTP status of the answer                            *)
  main         (* "serving", "draining", "stopped" or "cut"                *)

vars == <<req, pc, upstream, status, main>>

Procedures == {"Shorten", "Get", "Resolve", "Stats", "DropAll"}

(* What can be wrong with a request, as far as the gateway can tell ...    *)
Malformed == {"json", "fieldType", "contentType", "method"}

(* ... and what only the service can.                                      *)
FlawsOf(procedure) ==
  CASE procedure = "Shorten" ->
         {"emptyUrl", "scheme", "noHost", "longUrl", "nulOwner", "longKey"}
    [] procedure \in {"Get", "Resolve"} -> {"emptyCode"}
    [] procedure = "Stats" -> {"emptyCode", "badDate", "fromAfterTo"}
    [] OTHER -> {}

Calls ==
  UNION {[kind : {"rpc"}, procedure : {p}, flaw : {"none"} \cup Malformed \cup FlawsOf(p)] :
           p \in Procedures}

(* A path is as the redirect sees it; /healthz would be a code too.        *)
Paths == [kind : {"path"}, method : R!Methods, path : R!Path, healthz : {FALSE}]
           \cup [kind : {"path"}, method : R!Methods, path : {[length |-> 7, base62 |-> TRUE]},
                 healthz : {TRUE}]

(* codegen: letters and digits, of the length that was configured.         *)
Generated == [length |-> CodeLength, base62 |-> TRUE]

(* The gRPC statuses, with their numbers.                                  *)
GrpcCodes ==
  [OK |-> 0, Canceled |-> 1, Unknown |-> 2, InvalidArgument |-> 3, DeadlineExceeded |-> 4,
   NotFound |-> 5, AlreadyExists |-> 6, PermissionDenied |-> 7, ResourceExhausted |-> 8,
   FailedPrecondition |-> 9, Aborted |-> 10, OutOfRange |-> 11, Unimplemented |-> 12,
   Internal |-> 13, Unavailable |-> 14, DataLoss |-> 15, Unauthenticated |-> 16]

(* Connect's codes, by their numbers, and external: their HTTP statuses.   *)
ConnectCodes ==
  <<"canceled", "unknown", "invalid_argument", "deadline_exceeded", "not_found",
    "already_exists", "permission_denied", "resource_exhausted", "failed_precondition",
    "aborted", "out_of_range", "unimplemented", "internal", "unavailable", "data_loss",
    "unauthenticated">>

ConnectStatus(code) ==
  CASE code \in {"invalid_argument", "failed_precondition", "out_of_range"} -> 400
    [] code = "unauthenticated" -> 401
    [] code = "permission_denied" -> 403
    [] code = "not_found" -> 404
    [] code \in {"already_exists", "aborted"} -> 409
    [] code = "resource_exhausted" -> 429
    [] code = "canceled" -> 499
    [] code = "unimplemented" -> 501
    [] code = "unavailable" -> 503
    [] code = "deadline_exceeded" -> 504
    [] OTHER -> 500

Init ==
  /\ req \in Calls \cup Paths
  /\ pc = "idle"
  /\ upstream = "none"
  /\ status = 0
  /\ main = "serving"

Alive == main \in {"serving", "draining"}

Answer(s) == pc' = "answered" /\ status' = s

----------------------------------------------------------------------------
(* The router.                                                             *)

Accept ==
  /\ main = "serving"
  /\ pc = "idle"
  /\ pc' = "routed"
  /\ UNCHANGED <<req, upstream, status, main>>

Health ==
  /\ Alive /\ pc = "routed"
  /\ req.kind = "path" /\ req.healthz
  /\ Answer(200)
  /\ UNCHANGED <<req, upstream, main>>

(* External: Connect answers what it cannot route or read by itself.       *)
ConnectRefuses ==
  /\ Alive /\ pc = "routed"
  /\ req.kind = "rpc"
  /\ \/ req.procedure = "DropAll" /\ Answer(404)
     \/ /\ req.procedure # "DropAll"
        /\ \/ req.flaw = "method" /\ Answer(405)
           \/ req.flaw = "contentType" /\ Answer(415)
           \/ req.flaw \in {"json", "fieldType"} /\ Answer(400)
  /\ UNCHANGED <<req, upstream, main>>

Forward ==
  /\ Alive /\ pc = "routed"
  /\ req.kind = "rpc" /\ req.procedure # "DropAll" /\ req.flaw \notin Malformed
  /\ pc' = "upstream"
  /\ UNCHANGED <<req, upstream, status, main>>

----------------------------------------------------------------------------
(* The services.                                                           *)

Refuses(procedure, flaw) == flaw \in FlawsOf(procedure)

(* What they do with a call that they accept.                              *)
Outcomes(procedure) ==
  {"OK", "Internal"} \cup (IF procedure \in {"Get", "Resolve"} THEN {"NotFound"} ELSE {})

(* The connection to them fails, or they answer with any error at all.     *)
Breakdown == DOMAIN GrpcCodes \ {"OK"}

Procedure == IF req.kind = "rpc" THEN req.procedure ELSE "Resolve"

Healthy == IF req.kind = "rpc" /\ Refuses(req.procedure, req.flaw)
           THEN {"InvalidArgument"} ELSE Outcomes(Procedure)

ServiceAnswers ==
  /\ Alive /\ pc = "upstream" /\ upstream = "none"
  /\ upstream' \in Healthy \cup Breakdown \cup (IF Procedure = "Resolve" THEN {"emptyUrl"} ELSE {})
  /\ UNCHANGED <<req, pc, status, main>>

----------------------------------------------------------------------------
(* The handlers.                                                           *)

(* Mutant: a status that has no case of its own becomes Unknown.           *)
grpcCodeToConnectShort(code) ==
  IF code \in {"NotFound", "InvalidArgument", "Internal", "Unavailable"}
  THEN ConnectCodes[GrpcCodes[code]] ELSE "unknown"

(* Each gRPC error has a case, and Connect gives it the same number.       *)
grpcCodeToConnect(code) == ConnectCodes[GrpcCodes[code]]

Reply ==
  /\ Alive /\ pc = "upstream" /\ upstream # "none"
  /\ req.kind = "rpc"
  /\ Answer(IF upstream \in {"OK", "emptyUrl"} THEN 200
            ELSE ConnectStatus(grpcCodeToConnect(upstream)))
  /\ UNCHANGED <<req, upstream, main>>

Redirectable == req.kind = "path" /\ ~req.healthz

(* Mutants: HEAD is not allowed; a code must have fewer letters.           *)
OnlyGet(method) == method = "GET"

Redirects(method) == method \in {"GET", "HEAD"}

isLikelyCodeSeven(path) == path.length \in 1..7 /\ path.base62

isLikelyCode(path) == path.length \in 1..64 /\ path.base62

RedirectRefuses ==
  /\ Alive /\ pc = "routed" /\ Redirectable
  /\ \/ ~Redirects(req.method) /\ Answer(405)
     \/ Redirects(req.method) /\ ~isLikelyCode(req.path) /\ Answer(404)
  /\ UNCHANGED <<req, upstream, main>>

RedirectAsks ==
  /\ Alive /\ pc = "routed" /\ Redirectable
  /\ Redirects(req.method) /\ isLikelyCode(req.path)
  /\ pc' = "upstream"
  /\ UNCHANGED <<req, upstream, status, main>>

RedirectReply ==
  /\ Alive /\ pc = "upstream" /\ upstream # "none" /\ Redirectable
  /\ Answer(CASE upstream = "OK" -> 302
              [] upstream = "NotFound" -> 404
              [] OTHER -> 502)
  /\ UNCHANGED <<req, upstream, main>>

----------------------------------------------------------------------------
(* main.                                                                   *)

Signal ==
  /\ main = "serving"
  /\ main' = "draining"
  /\ UNCHANGED <<req, pc, upstream, status>>

InFlight == pc \in {"routed", "upstream"}

(* Shutdown returns when no request is active.                             *)
Stop ==
  /\ main = "draining" /\ ~InFlight
  /\ main' = "stopped"
  /\ UNCHANGED <<req, pc, upstream, status>>

(* It runs out of time, and main returns its error.                        *)
CutOff ==
  /\ main = "draining" /\ InFlight
  /\ main' = "cut"
  /\ UNCHANGED <<req, pc, upstream, status>>

Handlers ==
  \/ Accept \/ Health \/ ConnectRefuses \/ Forward \/ Reply
  \/ RedirectRefuses \/ RedirectAsks \/ RedirectReply

Next == Handlers \/ ServiceAnswers \/ Signal \/ Stop \/ CutOff

Spec == Init /\ [][Next]_vars

----------------------------------------------------------------------------
(* The variables have their types.                                         *)
TypeOK ==
  /\ req \in Calls \cup Paths
  /\ pc \in {"idle", "routed", "upstream", "answered"}
  /\ upstream \in {"none", "emptyUrl"} \cup DOMAIN GrpcCodes
  /\ status \in 0..599 /\ (status # 0 <=> pc = "answered")
  /\ main \in {"serving", "draining", "stopped", "cut"}

(* A probe of the simulator (bad.go 32-57) is a request that is wrong.     *)
Probe ==
  \/ req.kind = "rpc" /\ (req.flaw # "none" \/ req.procedure = "DropAll")
  \/ req.kind = "path" /\ ~req.path.base62

(* Every probe is answered with a 4xx (bad.go 12-13), wherever it is       *)
(* refused: by the router, by Connect, by a service or by the redirect;    *)
(* unless the service breaks down.                                         *)
ProbesRejected ==
  Probe /\ (upstream # "none" => upstream \in Healthy) => status \in 400..499

(* No error of a call becomes a success, no refusal a fault of the server, *)
(* and only NotFound is answered 404.                                      *)
RpcFaultKept ==
  req.kind = "rpc" /\ upstream # "none" =>
    /\ status = 200 <=> upstream \in {"OK", "emptyUrl"}
    /\ status = 404 <=> upstream = "NotFound"
    /\ upstream \in {"InvalidArgument", "AlreadyExists", "ResourceExhausted", "Canceled"}
         => status \in 400..499
    /\ upstream \in {"Internal", "Unavailable", "DeadlineExceeded", "Unknown", "DataLoss"}
         => status \in 500..599

(* The two ways to GET /<code>, through the gateway and straight to the    *)
(* resolver, answer alike whatever Resolve returned, and a code that the   *)
(* generator can draw is never taken for anything else.                    *)
SameRedirect ==
  req.kind = "path" /\ ~req.healthz =>
    /\ status = R!ServeHTTP(req.method, req.path, IF upstream = "OK" THEN "url" ELSE upstream)
    /\ req.path = Generated /\ req.method = "GET" => upstream # "none"

(* A client learns whose fault it was, over Connect as over the redirect,  *)
(* and wherever the request went astray.                                   *)
FaultKept ==
  /\ TypeOK
  /\ pc = "answered" => ProbesRejected /\ RpcFaultKept /\ SameRedirect

(* When main stops cleanly, every request that was accepted is answered,   *)
(* so the connections to the services are closed under no call.            *)
CleanStop == main = "stopped" => ~InFlight
============================================================================

-------------------------- MODULE ResolverRedirect --------------------------
(***************************************************************************)
(* How the resolver answers GET /<code>                                    *)
(* (services/resolver/internal/httpserver/redirect.go): a pure function of *)
(* the request and of what Resolve returned.                               *)
(***************************************************************************)
EXTENDS Naturals

Methods == {"GET", "HEAD", "POST", "PUT", "DELETE", "OPTIONS"}

(* The paths that the code tells apart, as the text after the first slash: *)
(* its length and whether it is of letters and digits only.                *)
Path == [length : {0, 1, 7, 8, 64, 65}, base62 : BOOLEAN]

MaxCode == 64

isLikelyCode(path) == path.length \in 1..MaxCode /\ path.base62

Redirects(method) == method \in {"GET", "HEAD"}

(* A Resolve that succeeds gives a URL, which may be empty ("emptyUrl");   *)
(* otherwise a gRPC status code.  context.DeadlineExceeded as such never   *)
(* gets here, since Resolve makes every failed lookup an Internal status;  *)
(* the branch is there.                                                    *)
AfterResolve(result) ==
  CASE result = "url"               -> 302
    [] result = "NotFound"          -> 404
    [] result = "contextDeadline"   -> 504
    [] OTHER                        -> 502

ServeHTTP(method, path, result) ==
  CASE ~Redirects(method)                          -> 405
    [] Redirects(method) /\ ~isLikelyCode(path)    -> 404
    [] OTHER                                       -> AfterResolve(result)
============================================================================

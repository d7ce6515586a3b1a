---------------------------- MODULE ResolverCache ---------------------------
(***************************************************************************)
(* The resolver's SQLite table (services/resolver/internal/repo/sqlite.go) *)
(* and the handler that fills it from ShortURLCreated events               *)
(* (services/resolver/internal/consumer/consumer.go).  The file is on a    *)
(* volume that outlives the process.                                       *)
(***************************************************************************)
CONSTANTS Codes, Urls,
          NoCode,      (* the empty code                                   *)
          NoUrl        (* no row for a code                                *)

ASSUME CacheAssumption == NoCode \notin Codes /\ NoUrl \notin Urls

VARIABLE cache         (* the table short_urls: its long_url by code       *)

Event == [key : Codes \cup {NoCode}, code : Codes \cup {NoCode}, url : Urls]

CacheInit == cache = [c \in Codes |-> NoUrl]

(* Migrate at each start: CREATE TABLE IF NOT EXISTS.                      *)
Migrate == UNCHANGED cache

Upsert(c, u) == cache' = [cache EXCEPT ![c] = u]

Lookup(c) == cache[c]

(* The code of an event is its own, or else the key of the message.        *)
CodeOf(e) == IF e.code = NoCode THEN e.key ELSE e.code

RefusedEvent(e) == CodeOf(e) = NoCode

HandleCreated(e) == ~RefusedEvent(e) /\ Upsert(CodeOf(e), e.url)
============================================================================

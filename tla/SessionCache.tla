---------------------------- MODULE SessionCache ----------------------------
(***************************************************************************)
(* The resource server's cache of signed offers. A 402 challenge and the   *)
(* X-PAYMENT retry that answers it must see the same offer; the cache      *)
(* keys it by the session id both requests carry, in a Map whose insertion *)
(* order is the order of eviction. An offer is built and signed only       *)
(* after its entry is in the map, so that a second request of the session  *)
(* joins the build. Offers are numbered by their builds: each is salted by *)
(* its session and by the time, so no two are equal.                       *)
(***************************************************************************)
EXTENDS Naturals, Sequences, FiniteSets

CONSTANTS
  SessionIds,                  \* well-formed session ids
  FALLBACK_KEY,                \* the slot of every request without one
  SESSION_CACHE_TTL,
  MAX_SESSION_CACHE_ENTRIES

ASSUME SessionCacheAssumption ==
  /\ FALLBACK_KEY \notin SessionIds
  /\ SESSION_CACHE_TTL \in Nat \ {0} /\ MAX_SESSION_CACHE_ENTRIES \in Nat \ {0}

VARIABLES
  sessionCache,   \* the entries [key, build, expiresAt, after], no two of one key;
                  \* their order is kept as the keys inserted after each
  builds          \* what became of each build, in the order they were started

cacheVars == <<sessionCache, builds>>

CacheInit == sessionCache = {} /\ builds = <<>>

normalizeSessionId(header) == IF header \in SessionIds THEN header ELSE FALLBACK_KEY

(* An entry does not expire before its build has resolved.                 *)
Live(entry, now) == \A t \in entry.expiresAt : now < t

Keys(entries) == {e.key : e \in entries}

(* What is left of a Map when the others have been deleted.                *)
Remaining(entries) == {[e EXCEPT !.after = @ \cap Keys(entries)] : e \in entries}

pruneExpiredSessions(now) == Remaining({e \in sessionCache : Live(e, now)})

Insert(entries, entry) ==
  {[e EXCEPT !.after = @ \cup {entry.key}] : e \in Remaining(entries)}
    \cup {[entry EXCEPT !.after = {}]}

(* Mutant: a full map grows.                                               *)
setWithoutEviction(entries, entry, now) ==
  Insert({e \in entries : Live(e, now) /\ e.key # entry.key}, entry)

(* Mutant: a full map loses its newest entry.                              *)
setEvictingNewest(entries, entry, now) ==
  LET others == Remaining({e \in entries : Live(e, now) /\ e.key # entry.key})
  IN  Insert({e \in others : Cardinality({f \in others : e.key \in f.after})
                               < MAX_SESSION_CACHE_ENTRIES - 1}, entry)

(* Map.set: expired entries go, an entry of the same key moves to the end, *)
(* and a full map loses its oldest: those that too many come after.        *)
set(entries, entry, now) ==
  LET live == Remaining({e \in entries : Live(e, now)})
      others == {e \in live : e.key # entry.key}
  IN  Insert(IF others # live THEN others
             ELSE {e \in live : Cardinality(e.after) < MAX_SESSION_CACHE_ENTRIES - 1},
             entry)

Hits(key, now) == {e \in pruneExpiredSessions(now) : e.key = key}

(* The build whose offer a request gets.                                   *)
OfferFor(key, now) ==
  IF Hits(key, now) = {} THEN Len(builds) + 1 ELSE (CHOOSE e \in Hits(key, now) : TRUE).build

resolveRequirements(header, now) ==
  LET key == normalizeSessionId(header)
  IN  \/ /\ \E e \in Hits(key, now) :
              sessionCache' = set(pruneExpiredSessions(now), e, now)
         /\ UNCHANGED builds
      \/ /\ Hits(key, now) = {}
         /\ sessionCache' = set(pruneExpiredSessions(now),
                                [key |-> key, build |-> Len(builds) + 1, expiresAt |-> {},
                                 after |-> {}], now)
         /\ builds' = Append(builds, "building")

(* The lifetime starts when the offer is signed.                           *)
BuildSucceeds(now) ==
  \E b \in DOMAIN builds :
    /\ builds[b] = "building"
    /\ builds' = [builds EXCEPT ![b] = "built"]
    /\ sessionCache' =
         {IF e.build = b THEN [e EXCEPT !.expiresAt = {now + SESSION_CACHE_TTL}] ELSE e
            : e \in sessionCache}

(* A failed build leaves no entry behind; one that has replaced it stays.  *)
BuildFails ==
  \E b \in DOMAIN builds :
    /\ builds[b] = "building"
    /\ builds' = [builds EXCEPT ![b] = "failed"]
    /\ sessionCache' = Remaining({e \in sessionCache : e.build # b})

(* The map lives in memory.                                                *)
CacheRestart ==
  /\ sessionCache' = {}
  /\ builds' = [b \in DOMAIN builds |->
                  IF builds[b] = "building" THEN "failed" ELSE builds[b]]
=============================================================================

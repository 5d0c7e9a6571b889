----------------------------- MODULE PathCache ------------------------------
(***************************************************************************)
(* The sliding-TTL cache of query results (neuralfs-daemon/src/            *)
(* pathcache.rs) and the `find` requests and sweeper that use it (ipc.rs,  *)
(* lib.rs).  A find takes the time once, when it starts: it looks up and,   *)
(* after a search of any length, inserts with that instant.                *)
(*                                                                         *)
(* The results of a query are told by their size in bytes; 0 stands for an  *)
(* empty result.                                                           *)
(***************************************************************************)
EXTENDS Naturals, FiniteSets

CONSTANTS
    Query,     \* query strings
    Size,      \* entry_bytes of results, and 0
    CapBytes,  \* cap_bytes
    Ttl,       \* ttl, in ticks
    Finders,   \* concurrent find requests
    MaxTime,   \* bound: the clock
    None       \* no entry

Entry == [bytes : Nat, expires_at : Nat]

ASSUME PathCacheAssumption ==
    /\ None \notin Entry /\ Size \subseteq Nat /\ CapBytes \in Nat /\ Ttl \in Nat \ {0} /\ MaxTime \in Nat

VARIABLES
    map,          \* Inner.map: query -> [bytes, expires_at] or None
    total_bytes,  \* Inner.total_bytes
    clock,        \* Instant::now()
    find          \* locals of the find requests
vars == <<map, total_bytes, clock, find>>

Idle == [pc |-> "idle", query |-> None, at |-> 0]

Init ==
    /\ map = [q \in Query |-> None]
    /\ total_bytes = 0
    /\ clock = 0
    /\ find = [t \in Finders |-> Idle]

Cached(m) == {q \in Query : m[q] # None}
Only(m, qs) == [q \in Query |-> IF q \in qs THEN m[q] ELSE None]
Minus(m, qs) == Only(m, Query \ qs)

(* The bytes of the entries, and how many they are. *)
EntryBytes(m) == UNION {{q} \X (1 .. m[q].bytes) : q \in Cached(m)}
Load(m) == Cardinality(EntryBytes(m))

Expired(q, now) == map[q] # None /\ map[q].expires_at <= now

-----------------------------------------------------------------------------
Tick ==
    /\ clock < MaxTime
    /\ clock' = clock + 1
    /\ UNCHANGED <<map, total_bytes, find>>

FindStart(t) == \E q \in Query :
    /\ find[t].pc = "idle"
    /\ find' = [find EXCEPT ![t] = [pc |-> "get", query |-> q, at |-> clock]]
    /\ UNCHANGED <<map, total_bytes, clock>>

ExtendsTheExpiry(t, q) == map[q].expires_at + Ttl  \* mutant of Refreshed
Refreshed(t, q) == find[t].at + Ttl

(* get, alive: the timer starts again. *)
Hit(t) == LET q == find[t].query IN
    /\ find[t].pc = "get"
    /\ map[q] # None /\ ~Expired(q, find[t].at)
    /\ map' = [map EXCEPT ![q].expires_at = Refreshed(t, q)]
    /\ find' = [find EXCEPT ![t] = Idle]
    /\ UNCHANGED <<total_bytes, clock>>

SubtractsTwice(t) == LET q == find[t].query IN     \* mutant of Expire
    /\ find[t].pc = "get" /\ Expired(q, find[t].at)
    /\ map' = [map EXCEPT ![q] = None]
    /\ total_bytes' = total_bytes - 2 * map[q].bytes
    /\ find' = [find EXCEPT ![t].pc = "search"]
    /\ UNCHANGED clock

(* get, expired: the entry goes. *)
Expire(t) == LET q == find[t].query IN
    /\ find[t].pc = "get"
    /\ Expired(q, find[t].at)
    /\ map' = [map EXCEPT ![q] = None]
    /\ total_bytes' = total_bytes - map[q].bytes
    /\ find' = [find EXCEPT ![t].pc = "search"]
    /\ UNCHANGED clock

Miss(t) ==
    /\ find[t].pc = "get"
    /\ map[find[t].query] = None
    /\ find' = [find EXCEPT ![t].pc = "search"]
    /\ UNCHANGED <<map, total_bytes, clock>>

(* min_by_key over a HashMap: any of the entries with the earliest expiry. *)
LatestFirst(m) == {v \in Cached(m) :               \* mutant of Victims
                     \A q \in Cached(m) : m[v].expires_at >= m[q].expires_at}
Victims(m) == {v \in Cached(m) :
                 \A q \in Cached(m) : m[v].expires_at <= m[q].expires_at}

(* The eviction loop: from map m with the counter at n, the entries out[1],  *)
(* out[2], ... go one by one as long as s more bytes do not fit.            *)
Gone(out, i) == {out[j] : j \in 1 .. i}
Left(n, m, out, i) == n - Load(Only(m, Gone(out, i)))

Evicts(m, n, s, out, k) ==
    /\ \A i \in 1 .. k : /\ out[i] \in Victims(Minus(m, Gone(out, i - 1)))
                         /\ Left(n, m, out, i - 1) + s > CapBytes
    /\ Left(n, m, out, k) + s <= CapBytes \/ Cached(m) = Gone(out, k)

(* insert: an empty or an oversized result changes nothing.  Otherwise the  *)
(* entry that another find put there meanwhile goes first.                  *)
FindInsert(t) == \E s \in Size :
    /\ find[t].pc = "search"
    /\ IF s = 0 \/ s > CapBytes THEN UNCHANGED <<map, total_bytes>>
       ELSE LET q == find[t].query
                m == [map EXCEPT ![q] = None]
                n == total_bytes - Load(Only(map, {q}))
            IN  \E k \in 0 .. Cardinality(Cached(m)) : \E out \in [1 .. k -> Cached(m)] :
                  /\ Evicts(m, n, s, out, k)
                  /\ total_bytes' = Left(n, m, out, k) + s
                  /\ map' = [Minus(m, Gone(out, k)) EXCEPT ![q] =
                               [bytes |-> s, expires_at |-> find[t].at + Ttl]]
    /\ find' = [find EXCEPT ![t] = Idle]
    /\ UNCHANGED clock

LongDead(now) == {q \in Cached(map) : map[q].expires_at < now}  \* mutant of Dead
Dead(now) == {q \in Query : Expired(q, now)}

(* sweep, every half minute. *)
Sweep ==
    /\ Dead(clock) # {}
    /\ map' = Minus(map, Dead(clock))
    /\ total_bytes' = total_bytes - Load(Only(map, Dead(clock)))
    /\ UNCHANGED <<clock, find>>

Find(t) == Hit(t) \/ Expire(t) \/ Miss(t) \/ FindInsert(t)

Next == Tick \/ Sweep \/ \E t \in Finders : FindStart(t) \/ Find(t)

(* The sweeper is a task of its own that never ends. *)
Spec == Init /\ [][Next]_vars /\ WF_vars(Sweep)

-----------------------------------------------------------------------------
(* Every variable stays in its domain; total_bytes, a usize, never wraps.    *)
TypeOK ==
    /\ map \in [Query -> Entry \cup {None}]
    /\ total_bytes \in Nat /\ clock \in 0 .. MaxTime
    /\ find \in [Finders -> [pc : {"idle", "get", "search"}, query : Query \cup {None},
                             at : 0 .. MaxTime]]

(* The budget is "strictly enforced": the counter is the weight of the      *)
(* entries, through expiry, replacement, eviction and sweeps in any order,  *)
(* and stays within the cap.                                                *)
Budget == total_bytes = Load(map) /\ total_bytes <= CapBytes

(* "Each entry expires 5 minutes after its last use": none is ever booked   *)
(* to live longer than that from now on, however often it is refreshed.     *)
NeverOutlives == \A q \in Cached(map) : map[q].expires_at <= clock + Ttl

(* "Soonest-to-expire entries evicted first if it would overflow": an       *)
(* insert removes another entry only when all that stay expire no earlier,  *)
(* and not when the room was there without it.                              *)
EvictsForRoom ==
    [][\A t \in Finders : FindInsert(t) =>
         LET gone == {q \in Cached(map) \ {find[t].query} : map'[q] = None}
             kept == Cached(map) \ (gone \cup {find[t].query})
         IN  \A g \in gone :
               /\ \A k \in kept : map[g].expires_at <= map[k].expires_at
               /\ (\A h \in gone : map[h].expires_at <= map[g].expires_at)
                    => \E h \in gone : /\ map[h].expires_at = map[g].expires_at
                                       /\ total_bytes' + map[h].bytes > CapBytes]_vars

(* "A background sweeper drops expired entries", those of queries never     *)
(* repeated too.                                                            *)
ExpiredEntriesGo == \A q \in Query :
    Expired(q, clock) ~> ~Expired(q, clock)
=============================================================================

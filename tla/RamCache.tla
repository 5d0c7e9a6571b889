------------------------------ MODULE RamCache ------------------------------
(***************************************************************************)
(* The segmented byte-bounded cache of the volume                          *)
(* (neuralfs-fs/src/cache.rs): blocks and inodes enter the probation       *)
(* segment, a second access promotes them to the protected one.  Every     *)
(* operation runs under the cache's own mutex, so each is one action.      *)
(*                                                                         *)
(* A segment is the LinkedHashMap's order, least recent first.  A value is *)
(* its length.  The byte counters are kept apart from the entries, as in   *)
(* the code: u64 subtraction must never go below zero.                     *)
(***************************************************************************)
EXTENDS Naturals, Sequences, FiniteSets

CONSTANTS
    Key,   \* keys: block hashes or inode ids
    Length,  \* lengths of the values
    Caps   \* values of cap_bytes to create the cache with

ASSUME RamCacheAssumption == Length \subseteq Nat /\ Caps \subseteq Nat

VARIABLES c  \* [prob, prot: Seq([key, len]), bytes_prob, bytes_prot, cap_bytes]

Cap == IF c.cap_bytes > 1 THEN c.cap_bytes ELSE 1
AllOfIt == Cap                                   \* mutant of ProtectedCap
ProtectedCap == LET n == (c.cap_bytes \div 10) * 8 IN IF n > 1 THEN n ELSE 1

Entries(seg) == {seg[i] : i \in DOMAIN seg}
KeysOf(seg) == {e.key : e \in Entries(seg)}
First(seg, n) == SubSeq(seg, 1, n)
Rest(seg, n) == SubSeq(seg, n + 1, Len(seg))

(* The bytes a segment holds, key by key, and how many they are.            *)
BytesOf(seg) == UNION {{e.key} \X (1 .. e.len) : e \in Entries(seg)}
Weight(seg) == Cardinality(BytesOf(seg))

(* remove of a LinkedHashMap, and the length of what it removed. *)
At(seg, k) == CHOOSE i \in DOMAIN seg : seg[i].key = k
Without(seg, k) == IF k \in KeysOf(seg) THEN First(seg, At(seg, k) - 1) \o Rest(seg, At(seg, k))
                   ELSE seg
LenIn(seg, k) == IF k \in KeysOf(seg) THEN seg[At(seg, k)].len ELSE 0

RamInit == \E n \in Caps :
    c = [prob |-> <<>>, prot |-> <<>>, bytes_prob |-> 0, bytes_prot |-> 0, cap_bytes |-> n]

-----------------------------------------------------------------------------
(* Cache s after n turns of the loop of enforce_protected_cap: pop_front of *)
(* the protected segment, each to the end of probation.                     *)
Demoted(s, n) == LET w == Weight(First(s.prot, n)) IN
    [s EXCEPT !.prot = Rest(@, n), !.bytes_prot = @ - w,
              !.prob = @ \o First(s.prot, n), !.bytes_prob = @ + w]

(* The loop ends after the first turn that leaves no more than the cap.     *)
EnforceProtectedCap(s, n) ==
    /\ Demoted(s, n).bytes_prot <= ProtectedCap \/ n = Len(s.prot)
    /\ \A m \in 0 .. n - 1 : Demoted(s, m).bytes_prot > ProtectedCap

(* After n turns of enforce_total_cap: pop_front of probation and, when     *)
(* that is empty, of the protected segment.                                 *)
Popped(s, i, j) ==
    [s EXCEPT !.prob = Rest(@, i), !.bytes_prob = @ - Weight(First(s.prob, i)),
              !.prot = Rest(@, j), !.bytes_prot = @ - Weight(First(s.prot, j))]
HotFirst(s, n) == LET j == IF n < Len(s.prot) THEN n ELSE Len(s.prot) IN  \* mutant of Evicted
    Popped(s, n - j, j)
Evicted(s, n) == LET i == IF n < Len(s.prob) THEN n ELSE Len(s.prob) IN
    Popped(s, i, n - i)

Fits(s) == s.bytes_prob + s.bytes_prot <= Cap
EnforceTotalCap(s, n) ==
    /\ Fits(Evicted(s, n)) \/ n = Len(s.prob) + Len(s.prot)
    /\ \A m \in 0 .. n - 1 : ~Fits(Evicted(s, m))

Turns(s) == 0 .. Len(s.prob) + Len(s.prot)

Dropped(s, k) ==
    [s EXCEPT !.prob = Without(@, k), !.bytes_prob = @ - LenIn(s.prob, k),
              !.prot = Without(@, k), !.bytes_prot = @ - LenIn(s.prot, k)]

Put(s, k, l) == [s EXCEPT !.prob = Append(@, [key |-> k, len |-> l]), !.bytes_prob = @ + l]

-----------------------------------------------------------------------------
(* get: a hit in the protected segment refreshes its recency ... *)
Refresh(k) ==
    /\ k \in KeysOf(c.prot)
    /\ c' = [c EXCEPT !.prot = Append(Without(@, k), [key |-> k, len |-> LenIn(@, k)])]

(* ... a hit in probation is promoted, which may demote others ... *)
Moved(k) == LET l == LenIn(c.prob, k) IN
    [c EXCEPT !.prob = Without(@, k), !.bytes_prob = @ - l,
              !.prot = Append(@, [key |-> k, len |-> l]), !.bytes_prot = @ + l]
CountsItTwice(k) ==                             \* mutant of Promote
    /\ k \in KeysOf(c.prob) \ KeysOf(c.prot)
    /\ LET m == [Moved(k) EXCEPT !.bytes_prob = c.bytes_prob] IN
       \E d \in 0 .. Len(c.prot) + 1 : \E n \in Turns(c) :
          /\ EnforceProtectedCap(m, d) /\ EnforceTotalCap(Demoted(m, d), n)
          /\ c' = Evicted(Demoted(m, d), n)
Promote(k) ==
    /\ k \in KeysOf(c.prob) \ KeysOf(c.prot)
    /\ \E d \in 0 .. Len(c.prot) + 1 : \E n \in Turns(c) :
          /\ EnforceProtectedCap(Moved(k), d)
          /\ EnforceTotalCap(Demoted(Moved(k), d), n)
          /\ c' = Evicted(Demoted(Moved(k), d), n)

(* ... and a miss changes nothing. *)
Get(k) == Refresh(k) \/ Promote(k)

Unbounded(k, l) == c' = Put(Dropped(c, k), k, l)  \* mutant of Insert
Insert(k, l) == LET s == Put(Dropped(c, k), k, l) IN
    \E n \in Turns(s) : EnforceTotalCap(s, n) /\ c' = Evicted(s, n)

Invalidate(k) == c' = Dropped(c, k)

Clear == c' = [c EXCEPT !.prob = <<>>, !.prot = <<>>, !.bytes_prob = 0, !.bytes_prot = 0]

RamNext ==
    \/ \E k \in Key : Get(k) \/ Invalidate(k)
    \/ \E k \in Key, l \in Length : Insert(k, l)
    \/ Clear

RamSpec == RamInit /\ [][RamNext]_c

-----------------------------------------------------------------------------
(* The counters say what the segments weigh, and no key is in both or in    *)
(* one twice, so no subtraction of a length can wrap (get, invalidate, the  *)
(* two loops).                                                              *)
Distinct(seg) == \A i, j \in DOMAIN seg : seg[i].key = seg[j].key => i = j
Accounted ==
    /\ c.bytes_prob = Weight(c.prob) /\ c.bytes_prot = Weight(c.prot)
    /\ Distinct(c.prob) /\ Distinct(c.prot)
    /\ KeysOf(c.prob) \cap KeysOf(c.prot) = {}

(* "The total resident size never exceeds `cap` bytes", and the protected   *)
(* segment keeps to its share.                                              *)
WithinCap == Weight(c.prob) + Weight(c.prot) <= Cap /\ Weight(c.prot) <= ProtectedCap

Resident == KeysOf(c.prob) \cup KeysOf(c.prot)

(* A hit moves entries between the segments and evicts none, although get   *)
(* enforces both caps.                                                      *)
HitsEvictNothing == [][\A k \in Key : Get(k) => Resident' = Resident]_c

(* "it survives eviction pressure that churns through once-touched data":   *)
(* an insert never removes a protected entry of another key.                *)
ChurnSparesProtected ==
    [][\A k \in Key, l \in Length :
          Insert(k, l) => KeysOf(c.prot)' = KeysOf(c.prot) \ {k}]_c

(* "The protected segment is itself capped (default 80% of total) so that a *)
(* stream of new data can always be admitted without starving": what fits   *)
(* in the fifth that is left is resident after its insert.                  *)
NewDataIsAdmitted ==
    [][\A k \in Key, l \in Length :
          Insert(k, l) /\ 5 * l <= Cap => k \in Resident']_c
=============================================================================

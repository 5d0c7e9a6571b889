------------------------------- MODULE PathFs -------------------------------
(***************************************************************************)
(* What a volume promises a client, with no inode in sight: a file system  *)
(* is a map from paths (sequences of names) to what is there.  The empty   *)
(* path is the root directory.  A snapshot is such a map, frozen.          *)
(***************************************************************************)
EXTENDS Naturals, Sequences, SequencesExt

CONSTANTS Name, Content, SnapName, MaxLen, Dir, NoSnap, Nobody

VARIABLES
    fs,    \* path -> content of the file there, or Dir
    snap,  \* snapshot name -> map, or NoSnap
    held   \* the subtree a resolved path denotes, or Nobody
vars == <<fs, snap, held>>

Path == UNION {[1 .. n -> Name] : n \in 1 .. MaxLen}

Above(p) == {SubSeq(p, 1, n) : n \in 0 .. Len(p) - 1}
Passable(m, p) == \A a \in Above(p) : a \in DOMAIN m => m[a] = Dir

(* m without p and what is under it. *)
Cut(m, p) == [q \in {q \in DOMAIN m : ~IsPrefix(p, q)} |-> m[q]]

(* m with the tree s at p, and directories above it. *)
Graft(m, p, s) == LET c == Cut(m, p) IN
    [q \in DOMAIN c \cup Above(p) \cup {p \o r : r \in DOMAIN s} |->
        IF IsPrefix(p, q) THEN s[SubSeq(q, Len(p) + 1, Len(q))]
        ELSE IF q \in DOMAIN c THEN c[q] ELSE Dir]

(* The tree at p. *)
Sub(m, p) == LET under == {q \in DOMAIN m : IsPrefix(p, q)} IN
    [r \in {SubSeq(q, Len(p) + 1, Len(q)) : q \in under} |-> m[p \o r]]

Leaf(x) == [r \in {<<>>} |-> x]

Init == fs = Leaf(Dir) /\ snap = [n \in SnapName |-> NoSnap] /\ held = Nobody

(* A file or a fresh directory at p replaces whatever was there. *)
Make(p, x) ==
    /\ UNCHANGED <<held, snap>>
    /\ Passable(fs, p)
    /\ fs' = Graft(fs, p, Leaf(x))

Delete(p) ==
    /\ UNCHANGED <<held, snap>>
    /\ p \in DOMAIN fs
    /\ fs' = Cut(fs, p)

Snapshot(n) == snap' = [snap EXCEPT ![n] = fs] /\ UNCHANGED <<fs, held>>
Rollback(n) == snap[n] # NoSnap /\ fs' = snap[n] /\ UNCHANGED <<held, snap>>

(* A lookup takes effect at one moment, whatever happens before it is used. *)
Resolve(p) == held = Nobody /\ held' = Sub(fs, p) /\ UNCHANGED <<fs, snap>>
Release == held # Nobody /\ held' = Nobody /\ UNCHANGED <<fs, snap>>

(* rename puts what it resolved at q, then removes p. *)
Move(p, q) ==
    /\ held # Nobody /\ held' = Nobody /\ UNCHANGED snap
    /\ Passable(fs, q)
    /\ LET m == Graft(fs, q, held) IN p \in DOMAIN m /\ fs' = Cut(m, p)

Next ==
    \/ Release
    \/ \E n \in SnapName : Snapshot(n) \/ Rollback(n)
    \/ \E p \in Path, x \in Content \cup {Dir} : Make(p, x)
    \/ \E p \in Path : Resolve(p) \/ Delete(p)
    \/ \E p, q \in Path : Move(p, q)

Spec == Init /\ [][Next]_vars
=============================================================================

------------------------------- MODULE GcHeap -------------------------------
(***************************************************************************)
(* mudlle's semi-generational copying collector (alloc.c), object by       *)
(* object.  Generation 0 holds everything mutable and whatever is new;     *)
(* generation 1 holds immutable objects only, so no pointer ever leads     *)
(* from generation 1 to generation 0 and no write barrier is needed.       *)
(*                                                                         *)
(* A minor collection copies what the roots reach in generation 0; a major *)
(* collection compacts generation 1 with generation 0 as roots; a new      *)
(* major collection moves everything to a larger block.  When one leads to *)
(* the next depends on the space left, which GcSpace models; here it is a  *)
(* free choice.  So is the order in which copied objects are scanned,      *)
(* which decides what a minor collection can find to be immutable.         *)
(***************************************************************************)
CONSTANTS Obj, Roots, Fields, NULL, GONE           \* see Heap

ASSUME HeapAssumption == NULL \notin Obj /\ GONE \notin Obj /\ NULL # GONE

VARIABLES
  kind, flags, data, target, root, weak_refs,      \* see Heap
  gen,      \* generation of each object
  coll,     \* the running collection: "minor", "major" or "new_major"
  phase,    \* how far it is; "run" when the program runs
  kept,     \* objects that it forwarded, or that stay where they are
  scanned,  \* kept objects whose fields have been forwarded
  pending,  \* weak references it still has to look at
  client    \* who called garbage_collect()

H == INSTANCE Heap

collector == <<gen, coll, phase, kept, scanned, pending, client>>
vars == <<kind, flags, data, target, root, weak_refs,
          gen, coll, phase, kept, scanned, pending, client>>

Init ==
  /\ H!Init
  /\ gen = [o \in Obj |-> 0]
  /\ coll = "minor" /\ phase = "run" /\ client = "allocate"
  /\ kept = {} /\ scanned = {} /\ pending = {}

Exists(o) == kind[o] # "none"

Program == phase = "run" /\ H!Program /\ UNCHANGED collector

(***************************************************************************)
(* Forwarding.                                                             *)
(***************************************************************************)
\* The objects that collection c may move or drop.
From(c) == {o \in Obj : Exists(o) /\ CASE c = "minor" -> gen[o] = 0
                                       [] c = "major" -> gen[o] = 1
                                       [] c = "new_major" -> TRUE}

\* minor_forward(), major_forward(): what is not moved yet is moved; a minor
\* collection moves immutable objects to generation 1.
\* Mutant: what is read-only counts as immutable.
NewGenerations_Readonly(c, S) ==
  [o \in Obj |-> IF o \in S /\ c = "minor" /\ H!readonlyp(o) THEN 1 ELSE gen[o]]

NewGenerations(c, S) ==
  [o \in Obj |-> IF o \in S /\ c = "minor" /\ H!immutablep(o) THEN 1 ELSE gen[o]]

Forward(c, S, old) ==
  LET moved == (S \cap From(c)) \ old IN
  /\ kept' = old \cup moved
  /\ gen' = NewGenerations(c, moved)

\* Every collection starts from the roots.  A major collection leaves
\* generation 0 in place and takes all of it as roots.
\* Mutant: a major collection takes generation 1 for reachable too.
StaysInPlace_Old(c) == {o \in Obj : c = "major" /\ Exists(o)}

StaysInPlace(c) == {o \in Obj : c = "major" /\ Exists(o) /\ gen[o] = 0}

Start(c) ==
  /\ coll' = c /\ phase' = "gen0"
  /\ Forward(c, {root[r] : r \in Roots} \cap Obj, StaysInPlace(c))
  /\ scanned' = {} /\ pending' = {}

garbage_collect(who) ==
  /\ phase = "run"
  /\ Start("minor")
  /\ client' = who
  /\ UNCHANGED <<kind, flags, data, target, root, weak_refs>>

Unscanned(g) == {o \in kept \ scanned : gen[o] = g}

(***************************************************************************)
(* Scanning.  Generation 0 first, then generation 1, each until nothing    *)
(* unscanned is left in it; the code never returns to generation 0.        *)
(***************************************************************************)
FoundImmutable(o) ==
  /\ kind[o] = "record" /\ flags[o] = {"readonly"}
  /\ \A p \in H!Pointers(o) : gen'[p] = 1

scan_gen0(o) ==                                  \* minor_scan(), scan()
  /\ phase = "gen0" /\ o \in Unscanned(0)
  /\ Forward(coll, H!Pointers(o), kept)
  /\ flags' = IF coll = "minor" /\ FoundImmutable(o)
                THEN H!AddFlag("immutable", {o}) ELSE flags
  /\ scanned' = scanned \cup {o}
  /\ UNCHANGED <<kind, data, target, root, weak_refs, coll, phase, pending, client>>

\* Mutant: generation 0 is given up before all of it has been scanned.
gen0_scanned_Early ==
  /\ phase = "gen0"
  /\ phase' = "gen1"
  /\ UNCHANGED <<kind, flags, data, target, root, weak_refs, gen, coll, kept,
                 scanned, pending, client>>

gen0_scanned ==
  /\ phase = "gen0" /\ Unscanned(0) = {}
  /\ phase' = "gen1"
  /\ UNCHANGED <<kind, flags, data, target, root, weak_refs, gen, coll, kept,
                 scanned, pending, client>>

scan_gen1(o) ==                                  \* major_scan()
  /\ phase = "gen1" /\ o \in Unscanned(1)
  /\ Forward(coll, H!Pointers(o), kept)
  /\ scanned' = scanned \cup {o}
  /\ UNCHANGED <<kind, flags, data, target, root, weak_refs, coll, phase, pending, client>>

gen1_scanned ==
  /\ phase = "gen1" /\ Unscanned(1) = {}
  /\ phase' = "weak"
  /\ pending' = weak_refs
  /\ UNCHANGED <<kind, flags, data, target, root, weak_refs, gen, coll, kept,
                 scanned, client>>

(***************************************************************************)
(* Weak references, once everything reachable has been kept.               *)
(***************************************************************************)
\* Mutant: whatever could have been dropped is taken to be lost.
Lost_Movable(v) == v \in From(coll)

Lost(v) == v \in From(coll) \ kept

\* Mutant: the list is not advanced past the reference.
forward_weak_ref_Rescans(w) ==
  /\ phase = "weak" /\ w \in pending
  /\ IF Lost(w)
       THEN weak_refs' = weak_refs \ {w} /\ UNCHANGED target
       ELSE /\ target' = IF Lost(target[w]) THEN [target EXCEPT ![w] = GONE] ELSE target
            /\ UNCHANGED weak_refs
  /\ UNCHANGED <<pending, kind, flags, data, root, gen, coll, phase, kept,
                 scanned, client>>

\* Mutant: a reference that was itself dropped stays on the list.
forward_weak_ref_Leaks(w) ==
  /\ phase = "weak" /\ w \in pending
  /\ pending' = pending \ {w}
  /\ target' = IF Lost(target[w]) THEN [target EXCEPT ![w] = GONE] ELSE target
  /\ UNCHANGED <<weak_refs, kind, flags, data, root, gen, coll, phase, kept,
                 scanned, client>>

\* Mutant: a collection only looks at references whose object it just lost
\* from generation 0.
forward_weak_ref_YoungOnly(w) ==
  /\ phase = "weak" /\ w \in pending
  /\ pending' = pending \ {w}
  /\ IF Lost(w)
       THEN weak_refs' = weak_refs \ {w} /\ UNCHANGED target
       ELSE /\ target' = IF Lost(target[w]) /\ gen[target[w]] = 0
                           THEN [target EXCEPT ![w] = GONE] ELSE target
            /\ UNCHANGED weak_refs
  /\ UNCHANGED <<kind, flags, data, root, gen, coll, phase, kept, scanned, client>>

forward_weak_ref(w) ==
  /\ phase = "weak" /\ w \in pending
  /\ pending' = pending \ {w}
  /\ IF Lost(w)
       THEN weak_refs' = weak_refs \ {w} /\ UNCHANGED target
       ELSE /\ target' = IF Lost(target[w]) THEN [target EXCEPT ![w] = GONE] ELSE target
            /\ UNCHANGED weak_refs
  /\ UNCHANGED <<kind, flags, data, root, gen, coll, phase, kept, scanned, client>>

(***************************************************************************)
(* The end of a collection: what was not kept is gone.  The program goes   *)
(* on, or a more thorough collection follows.                              *)
(***************************************************************************)
Dropped == From(coll) \ kept

Drop ==
  /\ kind' = H!Forget(Dropped, kind, "none")
  /\ flags' = H!Forget(Dropped, flags, {})
  /\ data' = H!Forget(Dropped, data, H!Empty)
  /\ target' = H!Forget(Dropped, target, NULL)
  /\ UNCHANGED <<root, weak_refs>>

Finished == phase = "weak" /\ pending = {}

back_to_client ==
  /\ Finished /\ Drop
  /\ gen' = H!Forget(Dropped, gen, 0)
  /\ phase' = IF client = "detect" THEN "detect" ELSE "run"
  /\ coll' = "minor" /\ client' = "allocate"
  /\ kept' = {} /\ scanned' = {}
  /\ UNCHANGED pending

\* The dropped objects are gone before the next collection starts; it needs
\* one more step because it starts from the heap that this one left.
next_collection(c) ==
  /\ Finished /\ Drop
  /\ \/ coll = "minor" /\ c = "major"
     \/ coll = "major" /\ c = "new_major"
  /\ gen' = H!Forget(Dropped, gen, 0)
  /\ coll' = c /\ phase' = "roots"
  /\ kept' = {} /\ scanned' = {}
  /\ UNCHANGED <<pending, client>>

forward_roots ==
  /\ phase = "roots"
  /\ Start(coll)
  /\ UNCHANGED <<kind, flags, data, target, root, weak_refs, client>>

\* detect_immutability(): after garbage_collect(0), try_make_immutable() on all
\* of generation 0, over and over until nothing changes.
Detected ==
  {o \in Obj : \A I \in SUBSET Obj :
     /\ {p \in Obj : "immutable" \in flags[p]} \subseteq I
     /\ \A p \in Obj : /\ kind[p] = "record" /\ gen[p] = 0 /\ H!readonlyp(p)
                       /\ H!Pointers(p) \ {p} \subseteq I
                       => p \in I
     => o \in I}

detect_immutability ==
  /\ phase = "detect"
  /\ flags' = H!AddFlag("immutable", Detected)
  /\ phase' = "run"
  /\ UNCHANGED <<kind, data, target, root, weak_refs, gen, coll, kept, scanned,
                 pending, client>>

Collector ==
  \/ \E o \in Obj : scan_gen0(o) \/ scan_gen1(o)
  \/ gen0_scanned
  \/ gen1_scanned
  \/ \E w \in weak_refs : forward_weak_ref(w)
  \/ back_to_client
  \/ \E c \in {"major", "new_major"} : next_collection(c)
  \/ forward_roots
  \/ detect_immutability

Next ==
  \/ Program
  \/ \E who \in {"allocate", "detect"} : garbage_collect(who)
  \/ Collector

Spec == Init /\ [][Next]_vars

(***************************************************************************)
(* Properties.                                                             *)
(***************************************************************************)
\* Types of the variables.
TypeOK ==
  /\ kind \in [Obj -> {"none", "record", "weak"}]
  /\ flags \in [Obj -> SUBSET {"readonly", "immutable"}]
  /\ data \in [Obj -> [Fields -> H!Value]]
  /\ target \in [Obj -> H!Value]
  /\ root \in [Roots -> H!Value]
  /\ weak_refs \subseteq Obj
  /\ gen \in [Obj -> {0, 1}]
  /\ coll \in {"minor", "major", "new_major"}
  /\ phase \in {"run", "roots", "gen0", "gen1", "weak", "detect"}
  /\ scanned \subseteq kept /\ kept \subseteq Obj /\ pending \subseteq weak_refs
  /\ client \in {"allocate", "detect"}

\* The comment on OBJ_IMMUTABLE (mvalues.h): an immutable object contains
\* only pointers to other immutable objects.
ImmutableClosed ==
  \A o \in Obj : Exists(o) /\ H!immutablep(o) => \A p \in H!Pointers(o) : H!immutablep(p)

\* The collector has no write barrier: while the program runs, generation 1
\* must be immutable and never point to generation 0.
GenerationsSeparate ==
  phase = "run" =>
    \A o \in Obj : gen[o] = 1 => /\ H!immutablep(o)
                                 /\ \A p \in H!Pointers(o) : gen[p] = 1

\* No root, no object (not even a dead one, which the next major collection
\* still scans) and no weak reference leads to an object that is gone.
NoDangling ==
  LET ok(v) == v \in Obj => Exists(v) IN
  /\ \A r \in Roots : ok(root[r])
  /\ \A o \in Obj : Exists(o) => \A f \in Fields : ok(data[o][f])
  /\ \A w \in weak_refs : ok(w) /\ ok(target[w])

\* The two-pass scan is complete: when weak references are processed nothing
\* that was copied still holds pointers to the old space.
AllScanned == phase = "weak" => kept \subseteq scanned

\* The weak reference list holds exactly the weak reference objects: cbfree()
\* has run once for each one that is gone and for no other.
WeakListed == phase = "run" => weak_refs = {o \in Obj : kind[o] = "weak"}

\* A major collection, new or not, leaves no garbage behind, and no weak
\* reference to an object that only weak references reach.
Exact == Finished /\ coll # "minor" =>
  /\ kept = H!Live
  /\ \A w \in weak_refs : target[w] \in Obj => target[w] \in H!Live

\* Nothing the program can see tells that there is a collector.
ImplementsHeap == H!Spec
=============================================================================

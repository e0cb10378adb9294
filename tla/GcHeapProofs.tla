---------------------------- MODULE GcHeapProofs ----------------------------
(***************************************************************************)
(* Proofs about GcHeap, for any number of objects, roots and fields: the   *)
(* collector keeps its two generations apart, leaves nothing dangling and  *)
(* no garbage behind, and implements Heap.                                 *)
(***************************************************************************)
EXTENDS GcHeap, TLAPS

Collecting == phase \in {"gen0", "gen1", "weak"}

Old(o) == gen[o] = 1

(***************************************************************************)
(* The inductive invariant.                                                *)
(***************************************************************************)
\* What does not exist is blank; only read-only records are immutable, and
\* only immutable objects are old.
Tidy ==
  \A o \in Obj : /\ ~Exists(o) => flags[o] = {} /\ data[o] = H!Empty /\ gen[o] = 0
                 /\ H!immutablep(o) => kind[o] = "record" /\ H!readonlyp(o)
                 /\ Old(o) => H!immutablep(o)

\* The collector's variables are empty where they do not count.
Phases ==
  /\ ~Collecting => kept = {} /\ scanned = {}
  /\ phase # "weak" => pending = {}
  /\ phase \in {"run", "detect"} => coll = "minor"
  /\ phase = "roots" => coll # "minor"

\* What an immutable object points to is old, or becomes old before a minor
\* collection is done with the object: it was immutable before the collection
\* started, so it can only be forwarded to generation 1.
Separate ==
  \A o \in Obj : \A p \in H!Pointers(o) :
    /\ coll = "minor" /\ H!immutablep(o) =>
         Old(p) \/ (p \notin kept /\ o \notin scanned /\ (Old(o) => o \in kept))
    /\ coll # "minor" /\ Old(o) => Old(p)

\* Nothing that the scan has passed leads to an object that it would drop.
Passed ==
  Collecting =>
    /\ \A r \in Roots : ~Lost(root[r])
    /\ \A o \in scanned : \A p \in H!Pointers(o) : ~Lost(p)
    /\ coll = "major" => StaysInPlace("major") \subseteq kept
    /\ phase \in {"gen1", "weak"} => Unscanned(0) = {}
    /\ phase = "weak" => kept \subseteq scanned

\* The scan keeps nothing that the program cannot reach.
Needed ==
  /\ kept \subseteq H!Live
  /\ coll = "major" => StaysInPlace("major") \subseteq H!Live

\* A weak reference is listed unless this collection has dropped it; one that
\* the collection has looked at stays, and so does its object.
Listed ==
  /\ \A w \in weak_refs : kind[w] = "weak"
  /\ \A o \in Obj : kind[o] = "weak" => o \in weak_refs \/ (phase = "weak" /\ Lost(o))
  /\ phase = "weak" => \A w \in weak_refs \ pending : ~Lost(w) /\ ~Lost(target[w])

GcInv == /\ TypeOK /\ Tidy /\ Phases /\ NoDangling /\ ImmutableClosed
         /\ Separate /\ Passed /\ Needed /\ Listed

-----------------------------------------------------------------------------
(***************************************************************************)
(* Objects and what they lead to.                                          *)
(***************************************************************************)
LEMMA PointersIn ==
  ASSUME NEW o, NEW p \in H!Pointers(o)
  PROVE  p \in Obj /\ \E f \in Fields : p = data[o][f]
BY DEF H!Pointers

LEMMA PointerTo ==
  ASSUME NEW o, NEW f \in Fields, data[o][f] \in Obj
  PROVE  data[o][f] \in H!Pointers(o)
BY DEF H!Pointers

LEMMA LiveIn == H!Live \subseteq Obj /\ \A r \in Roots : root[r] \in Obj => root[r] \in H!Live
BY DEF H!Live, H!Reach

\* What a live object leads to is live.
LEMMA LiveClosed ==
  ASSUME NEW o \in H!Live
  PROVE  H!Pointers(o) \subseteq H!Live
<1> DEFINE S == {root[r] : r \in Roots} \cap Obj
<1> SUFFICES ASSUME NEW p \in H!Pointers(o), NEW C \in SUBSET Obj, S \subseteq C, H!Closed(C)
             PROVE  p \in C
  BY PointersIn DEF H!Live, H!Reach
<1>1. o \in C
  BY DEF H!Live, H!Reach
<1> QED BY <1>1 DEF H!Closed

\* Any closed set that the roots lead into holds what is live.
LEMMA LiveLeast ==
  ASSUME NEW C \in SUBSET Obj, \A r \in Roots : root[r] \in Obj => root[r] \in C,
         \A o \in C : H!Pointers(o) \subseteq C
  PROVE  H!Live \subseteq C
<1>1. {root[r] : r \in Roots} \cap Obj \subseteq C /\ H!Closed(C)
  BY DEF H!Closed
<1> QED BY <1>1 DEF H!Live, H!Reach

\* What happens to objects that are not live does not change what is.
LEMMA LiveSame ==
  ASSUME UNCHANGED root, \A o \in H!Live : data'[o] = data[o]
  PROVE  H!Live' = H!Live
<1> DEFINE L == H!Live
           M == H!Live'
           S == {root[r] : r \in Roots} \cap Obj
<1>1. \A o \in L : H!Pointers(o)' = H!Pointers(o)
  BY DEF H!Pointers
<1>2. /\ L = {o \in Obj : \A C \in SUBSET Obj : S \subseteq C /\ H!Closed(C) => o \in C}
      /\ M = {o \in Obj : \A C \in SUBSET Obj :
                             S \subseteq C /\ (\A q \in C : H!Pointers(q)' \subseteq C) => o \in C}
  BY DEF H!Live, H!Reach, H!Closed
<1>3. \A C : H!Closed(C) <=> \A o \in C : H!Pointers(o) \subseteq C
  BY DEF H!Closed
<1>4. L \in SUBSET Obj /\ S \subseteq L /\ \A o \in L : H!Pointers(o) \subseteq L
  BY LiveIn, LiveClosed
<1> HIDE DEF L, M, S
<1>5. M \subseteq L
  <2>1. \A q \in L : H!Pointers(q)' \subseteq L
    BY <1>1, <1>4
  <2> QED BY <1>2, <1>4, <2>1
<1>6. L \subseteq M
  <2> SUFFICES ASSUME NEW C \in SUBSET Obj, S \subseteq C, NEW o \in L,
                      \A q \in C : H!Pointers(q)' \subseteq C
               PROVE  o \in C
    BY <1>2
  <2>1. \A q \in C \cap L : H!Pointers(q) \subseteq C \cap L
    BY <1>1, <1>4
  <2>2. C \cap L \in SUBSET Obj /\ S \subseteq C \cap L /\ H!Closed(C \cap L)
    BY <1>3, <1>4, <2>1
  <2> QED BY <1>2, <2>2
<1> QED BY <1>5, <1>6 DEF L, M

\* nothing leads to an object that is gone
NoneGone(k, d, t, rt, wr) ==
  /\ \A r \in Roots : rt[r] \in Obj => k[rt[r]] # "none"
  /\ \A o \in Obj : k[o] # "none" => \A f \in Fields : d[o][f] \in Obj => k[d[o][f]] # "none"
  /\ \A w \in wr : /\ w \in Obj => k[w] # "none"
                   /\ t[w] \in Obj => k[t[w]] # "none"

LEMMA DanglingIs == NoDangling <=> NoneGone(kind, data, target, root, weak_refs)
BY DEF NoDangling, NoneGone, Exists

LEMMA DanglingNext == NoDangling' <=> NoneGone(kind', data', target', root', weak_refs')
BY DEF NoDangling, NoneGone, Exists

(***************************************************************************)
(* What a collection may move or drop.                                     *)
(***************************************************************************)
Collections == {"minor", "major", "new_major"}

\* object v is one that collection c has not kept
Dropping(v, c, k, g, kp) ==
  /\ v \in Obj /\ k[v] # "none" /\ v \notin kp
  /\ c = "minor" => g[v] = 0
  /\ c = "major" => g[v] = 1

LEMMA FromIs ==
  ASSUME NEW c \in Collections, NEW v
  PROVE  v \in From(c) <=> /\ v \in Obj /\ Exists(v)
                           /\ c = "minor" => gen[v] = 0
                           /\ c = "major" => gen[v] = 1
<1>1. CASE c = "minor"
  BY <1>1 DEF From
<1>2. CASE c = "major"
  BY <1>2 DEF From
<1>3. CASE c = "new_major"
  BY <1>3 DEF From
<1> QED BY <1>1, <1>2, <1>3 DEF Collections

LEMMA LostIs ==
  ASSUME coll \in Collections
  PROVE  /\ \A v : Lost(v) <=> Dropping(v, coll, kind, gen, kept)
         /\ Dropped = {v \in Obj : Dropping(v, coll, kind, gen, kept)}
<1>1. \A v : Lost(v) <=> Dropping(v, coll, kind, gen, kept)
  BY FromIs DEF Lost, Dropping, Exists
<1> QED BY <1>1 DEF Dropped, Lost, Dropping

LEMMA LostNext ==
  ASSUME coll' \in Collections
  PROVE  \A v : Lost(v)' <=> Dropping(v, coll', kind', gen', kept')
<1>1. CASE coll' = "minor"
  BY <1>1 DEF Lost, From, Dropping, Exists
<1>2. CASE coll' = "major"
  BY <1>2 DEF Lost, From, Dropping, Exists
<1>3. CASE coll' = "new_major"
  BY <1>3 DEF Lost, From, Dropping, Exists
<1> QED BY <1>1, <1>2, <1>3 DEF Collections

LEMMA RootsNext ==
  ASSUME coll' \in Collections
  PROVE  \A r \in Roots : Lost(root[r])' <=> Dropping(root'[r], coll', kind', gen', kept')
<1>1. CASE coll' = "minor"
  BY <1>1 DEF Lost, From, Dropping, Exists
<1>2. CASE coll' = "major"
  BY <1>2 DEF Lost, From, Dropping, Exists
<1>3. CASE coll' = "new_major"
  BY <1>3 DEF Lost, From, Dropping, Exists
<1> QED BY <1>1, <1>2, <1>3 DEF Collections

LEMMA TargetsNext ==
  ASSUME coll' \in Collections
  PROVE  \A w : Lost(target[w])' <=> Dropping(target'[w], coll', kind', gen', kept')
<1>1. CASE coll' = "minor"
  BY <1>1 DEF Lost, From, Dropping, Exists
<1>2. CASE coll' = "major"
  BY <1>2 DEF Lost, From, Dropping, Exists
<1>3. CASE coll' = "new_major"
  BY <1>3 DEF Lost, From, Dropping, Exists
<1> QED BY <1>1, <1>2, <1>3 DEF Collections

\* What a collection keeps, leaves in place or finds missing leads to nothing
\* that it drops.
LEMMA KeptLeads ==
  ASSUME GcInv, phase = "weak", NEW o \in Obj, ~Lost(o), NEW p \in H!Pointers(o)
  PROVE  ~Lost(p)
<1>1. p \in Obj /\ coll \in Collections
  BY PointersIn DEF GcInv, TypeOK, Collections
<1>2. CASE o \in kept
  BY <1>1, <1>2 DEF GcInv, Passed, Collecting
<1>3. CASE o \notin kept /\ ~Exists(o)
  <2>1. data[o] = H!Empty
    BY <1>3 DEF GcInv, Tidy
  <2>2. PICK f \in Fields : p = data[o][f]
    BY PointersIn
  <2>3. p = NULL
    BY <2>1, <2>2 DEF H!Empty
  <2> QED BY <1>1, <2>3, HeapAssumption
<1>4. CASE o \notin kept /\ Exists(o)
  <2>1. ~Dropping(o, coll, kind, gen, kept)
    BY <1>1, LostIs
  <2>2. gen[o] \in {0, 1}
    BY DEF GcInv, TypeOK
  <2>3. coll # "new_major"
    BY <1>4, <2>1 DEF Dropping, Exists, Collections
  <2>4. CASE coll = "minor"
    <3>1. Old(o) /\ H!immutablep(o)
      BY <1>4, <2>1, <2>2, <2>4 DEF Dropping, Exists, GcInv, Tidy, Old
    <3>2. Old(p)
      BY <1>4, <2>4, <3>1 DEF GcInv, Separate
    <3>3. ~Dropping(p, coll, kind, gen, kept)
      BY <2>4, <3>2 DEF Dropping, Old
    <3> QED BY <1>1, <3>3, LostIs
  <2>5. CASE coll = "major"
    <3>1. o \in StaysInPlace("major")
      BY <1>4, <2>1, <2>2, <2>5 DEF Dropping, Exists, StaysInPlace
    <3> QED BY <1>4, <2>5, <3>1 DEF GcInv, Passed, Collecting
  <2> QED BY <1>1, <2>3, <2>4, <2>5 DEF Collections
<1> QED BY <1>2, <1>3, <1>4

\* So it drops nothing that the program can reach.
LEMMA LiveKept ==
  ASSUME GcInv, phase = "weak", NEW v \in H!Live
  PROVE  ~Lost(v)
<1> DEFINE C == {o \in Obj : ~Lost(o)}
<1>1. \A r \in Roots : root[r] \in Obj => root[r] \in C
  BY DEF GcInv, Passed, Collecting
<1>2. ASSUME NEW o \in C, NEW p \in H!Pointers(o)
      PROVE  p \in C
  BY <1>2, KeptLeads, PointersIn
<1> HIDE DEF C
<1>3. C \in SUBSET Obj
  BY DEF C
<1>4. H!Live \subseteq C
  BY <1>1, <1>2, <1>3, LiveLeast
<1> QED BY <1>4 DEF C

-----------------------------------------------------------------------------
(***************************************************************************)
(* The program's steps, between collections.                               *)
(***************************************************************************)
HeapTypes ==
  /\ kind \in [Obj -> {"none", "record", "weak"}]
  /\ flags \in [Obj -> SUBSET {"readonly", "immutable"}]
  /\ data \in [Obj -> [Fields -> H!Value]]
  /\ target \in [Obj -> H!Value]
  /\ root \in [Roots -> H!Value]
  /\ weak_refs \subseteq Obj

\* what the invariant says when no collection is under way
RunInv ==
  /\ HeapTypes /\ gen \in [Obj -> {0, 1}] /\ Tidy /\ NoDangling /\ ImmutableClosed
  /\ \A o \in Obj : Old(o) => \A p \in H!Pointers(o) : Old(p)
  /\ weak_refs = {o \in Obj : kind[o] = "weak"}

LEMMA RunFacts ==
  ASSUME GcInv, phase \in {"run", "detect"}
  PROVE  RunInv
<1>1. coll = "minor" /\ kept = {} /\ scanned = {}
  BY DEF GcInv, Phases, Collecting
<1>2. HeapTypes /\ gen \in [Obj -> {0, 1}]
  BY DEF GcInv, TypeOK, HeapTypes
<1>3. \A o \in Obj : Old(o) => \A p \in H!Pointers(o) : Old(p)
  BY <1>1 DEF GcInv, Separate, Tidy
<1>4. weak_refs = {o \in Obj : kind[o] = "weak"}
  BY <1>2 DEF GcInv, Listed, HeapTypes
<1> QED BY <1>2, <1>3, <1>4 DEF GcInv, RunInv

LEMMA RunStep ==
  ASSUME GcInv, phase \in {"run", "detect"}, RunInv', phase' = "run",
         UNCHANGED <<gen, coll, kept, scanned, pending, client>>
  PROVE  GcInv'
<1>1. /\ coll = "minor" /\ kept = {} /\ scanned = {} /\ pending = {}
      /\ client \in {"allocate", "detect"}
  BY DEF GcInv, Phases, Collecting, TypeOK
<1>2. UNCHANGED <<gen, coll, kept, scanned, pending, client>> /\ phase' = "run"
  OBVIOUS
<1>3. TypeOK'
  BY <1>1, <1>2 DEF RunInv, HeapTypes, TypeOK
<1>4. Phases' /\ Passed'
  BY <1>1, <1>2 DEF Phases, Passed, Collecting
<1>5. Separate'
  BY <1>1, <1>2 DEF RunInv, Separate, Old
<1>6. Needed'
  BY <1>1, <1>2 DEF Needed
<1>7. Listed'
  BY <1>2 DEF RunInv, Listed
<1> QED BY <1>3, <1>4, <1>5, <1>6, <1>7 DEF GcInv, RunInv

LEMMA RootChange ==
  ASSUME RunInv, NEW r \in Roots, NEW v \in H!Value, v \in Obj => Exists(v),
         root' = [root EXCEPT ![r] = v], UNCHANGED <<kind, flags, data, target, weak_refs, gen>>
  PROVE  RunInv'
<1>1. HeapTypes'
  BY DEF RunInv, HeapTypes, H!Value
<1>2. NoneGone(kind, data, target, root, weak_refs)
  BY DanglingIs DEF RunInv
<1>3. NoDangling'
  <2>1. \A s \in Roots : root'[s] \in Obj => kind[root'[s]] # "none"
    <3>1. \A s \in Roots : root'[s] = v \/ root'[s] = root[s]
      BY DEF RunInv, HeapTypes
    <3> QED BY <1>2, <3>1 DEF NoneGone, Exists
  <2>2. NoneGone(kind, data, target, root', weak_refs)
    BY <1>2, <2>1 DEF NoneGone
  <2> QED BY <2>2, DanglingNext
<1>4. \A o : H!Pointers(o)' = H!Pointers(o) /\ H!immutablep(o)' = H!immutablep(o)
             /\ H!readonlyp(o)' = H!readonlyp(o) /\ Exists(o)' = Exists(o) /\ Old(o)' = Old(o)
  BY DEF H!Pointers, H!immutablep, H!readonlyp, Exists, Old
<1>5. Tidy' /\ ImmutableClosed'
  BY <1>4 DEF RunInv, Tidy, ImmutableClosed, H!Empty
<1>6. \A o \in Obj : Old(o)' => \A p \in H!Pointers(o)' : Old(p)'
  BY <1>4 DEF RunInv
<1> QED BY <1>1, <1>3, <1>5, <1>6 DEF RunInv

\* Flags that are added to objects: an object becomes immutable only with all
\* that it leads to.
LEMMA FlagsAdded ==
  ASSUME RunInv, UNCHANGED <<kind, data, target, root, weak_refs, gen>>,
         flags' \in [Obj -> SUBSET {"readonly", "immutable"}],
         \A o \in Obj : flags[o] \subseteq flags'[o] /\ (~Exists(o) => flags'[o] = {}),
         \A o \in Obj : "immutable" \in flags'[o] \ flags[o] =>
           /\ kind[o] = "record" /\ "readonly" \in flags'[o]
           /\ \A p \in H!Pointers(o) : "immutable" \in flags'[p]
  PROVE  RunInv'
<1>1. HeapTypes'
  BY DEF RunInv, HeapTypes, H!Value
<1>2. \A o : H!Pointers(o)' = H!Pointers(o) /\ Exists(o)' = Exists(o) /\ Old(o)' = Old(o)
  BY DEF H!Pointers, Exists, Old
<1>3. NoDangling'
  BY <1>2 DEF RunInv, NoDangling, Exists
<1>4. \A o \in Obj : /\ H!immutablep(o)' <=> "immutable" \in flags'[o]
                     /\ H!readonlyp(o)' <=> "readonly" \in flags'[o]
                     /\ H!immutablep(o) <=> "immutable" \in flags[o]
                     /\ H!readonlyp(o) <=> "readonly" \in flags[o]
  BY DEF H!immutablep, H!readonlyp
<1>5. Tidy'
  <2> SUFFICES ASSUME NEW o \in Obj
               PROVE  /\ ~Exists(o)' => flags'[o] = {} /\ data'[o] = H!Empty' /\ gen'[o] = 0
                      /\ H!immutablep(o)' => kind'[o] = "record" /\ H!readonlyp(o)'
                      /\ Old(o)' => H!immutablep(o)'
    BY DEF Tidy
  <2>1. H!Empty' = H!Empty
    BY DEF H!Empty
  <2> QED BY <1>2, <1>4, <2>1 DEF RunInv, Tidy
<1>6. ImmutableClosed'
  <2> SUFFICES ASSUME NEW o \in Obj, Exists(o), "immutable" \in flags'[o], NEW p \in H!Pointers(o)
               PROVE  "immutable" \in flags'[p]
    BY <1>2, <1>4, PointersIn DEF ImmutableClosed
  <2> QED BY <1>4, PointersIn DEF RunInv, ImmutableClosed
<1>7. \A o \in Obj : Old(o)' => \A p \in H!Pointers(o)' : Old(p)'
  BY <1>2 DEF RunInv
<1> QED BY <1>1, <1>3, <1>5, <1>6, <1>7 DEF RunInv

\* A new object, with contents that exist
LEMMA Allocated ==
  ASSUME RunInv, NEW o \in Obj, NEW r \in Roots, NEW k \in {"record", "weak"},
         NEW fl \in SUBSET {"readonly", "immutable"}, NEW d \in [Fields -> H!Value],
         NEW t \in H!Value, H!allocate(o, k, fl, d, t, r), UNCHANGED gen,
         \A f \in Fields : d[f] \in Obj => Exists(d[f]), t \in Obj => Exists(t),
         "immutable" \in fl =>
           k = "record" /\ "readonly" \in fl /\ \A f \in Fields : H!immutablep(d[f]),
         weak_refs' = IF k = "weak" THEN weak_refs \cup {o} ELSE weak_refs
  PROVE  RunInv'
<1>1. /\ kind[o] = "none" /\ kind' = [kind EXCEPT ![o] = k]
      /\ flags' = [flags EXCEPT ![o] = fl] /\ data' = [data EXCEPT ![o] = d]
      /\ target' = [target EXCEPT ![o] = t] /\ root' = [root EXCEPT ![r] = o]
  BY DEF H!allocate
<1>2. /\ kind'[o] = k /\ flags'[o] = fl /\ data'[o] = d /\ target'[o] = t /\ root'[r] = o
      /\ \A q \in Obj \ {o} : /\ kind'[q] = kind[q] /\ flags'[q] = flags[q]
                              /\ data'[q] = data[q] /\ target'[q] = target[q]
      /\ \A s \in Roots \ {r} : root'[s] = root[s]
  BY <1>1 DEF RunInv, HeapTypes
<1>3. NoneGone(kind, data, target, root, weak_refs)
  BY DanglingIs DEF RunInv
<1>4. HeapTypes'
  BY <1>1 DEF RunInv, HeapTypes, H!Value
<1>5. /\ Exists(o)' /\ \A q \in Obj : Exists(q) => q # o /\ Exists(q)'
      /\ \A q \in Obj \ {o} : Exists(q)' = Exists(q)
  BY <1>1, <1>2 DEF Exists
<1>6. H!Pointers(o)' = {d[f] : f \in Fields} \cap Obj
      /\ \A q \in Obj \ {o} : H!Pointers(q)' = H!Pointers(q)
  BY <1>2 DEF H!Pointers
<1>7. \A q \in Obj \ {o} : \A p \in H!Pointers(q) : p \in Obj \ {o} /\ Exists(p)
  <2> SUFFICES ASSUME NEW q \in Obj \ {o}, NEW p \in H!Pointers(q)
               PROVE  p \in Obj \ {o} /\ Exists(p)
    OBVIOUS
  <2>1. PICK f \in Fields : p = data[q][f] /\ p \in Obj
    BY PointersIn
  <2>2. CASE Exists(q)
    BY <1>5, <2>1, <2>2 DEF RunInv, NoDangling
  <2>3. CASE ~Exists(q)
    <3>1. p = NULL
      BY <2>1, <2>3 DEF RunInv, Tidy, H!Empty
    <3> QED BY <2>1, <3>1, HeapAssumption
  <2> QED BY <2>2, <2>3
<1>8. NoDangling'
  <2> USE DEF Exists
  <2>1. \A s \in Roots : root'[s] \in Obj => kind'[root'[s]] # "none"
    BY <1>2, <1>5, <1>3 DEF NoneGone
  <2>2. ASSUME NEW q \in Obj, kind'[q] # "none", NEW f \in Fields, data'[q][f] \in Obj
        PROVE  kind'[data'[q][f]] # "none"
    <3>1. CASE q = o
      BY <1>2, <1>5, <2>2, <3>1
    <3>2. CASE q # o
      BY <1>2, <1>5, <1>3, <2>2, <3>2 DEF NoneGone
    <3> QED BY <3>1, <3>2
  <2>3. ASSUME NEW w \in weak_refs'
        PROVE  /\ w \in Obj => kind'[w] # "none"
               /\ target'[w] \in Obj => kind'[target'[w]] # "none"
    <3>1. CASE w = o
      BY <1>2, <1>5, <3>1
    <3>2. CASE w # o
      <4>1. w \in weak_refs /\ w \in Obj
        BY <2>3, <3>2 DEF RunInv, HeapTypes
      <4> QED BY <1>2, <1>5, <1>3, <3>2, <4>1 DEF NoneGone
    <3> QED BY <3>1, <3>2
  <2>4. NoneGone(kind', data', target', root', weak_refs')
    BY <2>1, <2>2, <2>3 DEF NoneGone
  <2> QED BY <2>4, DanglingNext
<1>9. Tidy'
  <2> SUFFICES ASSUME NEW q \in Obj
               PROVE  /\ ~Exists(q)' => flags'[q] = {} /\ data'[q] = H!Empty' /\ gen'[q] = 0
                      /\ H!immutablep(q)' => kind'[q] = "record" /\ H!readonlyp(q)'
                      /\ Old(q)' => H!immutablep(q)'
    BY DEF Tidy
  <2>1. CASE q = o
    <3>1. ~Old(o)
      BY <1>1 DEF RunInv, Tidy, Exists, Old
    <3> QED BY <1>2, <1>5, <2>1, <3>1 DEF H!immutablep, H!readonlyp, Old
  <2>2. CASE q # o
    <3>1. H!Empty' = H!Empty /\ Old(q)' = Old(q)
      BY DEF H!Empty, Old
    <3> QED BY <1>2, <1>5, <2>2, <3>1 DEF RunInv, Tidy, H!immutablep, H!readonlyp
  <2> QED BY <2>1, <2>2
<1>10. ImmutableClosed'
  <2> SUFFICES ASSUME NEW q \in Obj, Exists(q)', "immutable" \in flags'[q],
                      NEW p \in H!Pointers(q)'
               PROVE  p \in Obj => "immutable" \in flags'[p]
    BY DEF ImmutableClosed, H!immutablep
  <2>1. CASE q = o
    <3>1. PICK f \in Fields : p = d[f] /\ p \in Obj
      BY <1>6, <2>1
    <3>2. Exists(p) /\ H!immutablep(p)
      BY <1>2, <2>1, <3>1
    <3> QED BY <1>2, <1>5, <3>1, <3>2 DEF H!immutablep
  <2>2. CASE q # o
    <3>1. p \in H!Pointers(q) /\ p \in Obj \ {o} /\ "immutable" \in flags[q] /\ Exists(q)
      BY <1>2, <1>5, <1>6, <1>7, <2>2
    <3> QED BY <1>2, <3>1 DEF RunInv, ImmutableClosed, H!immutablep
  <2> QED BY <2>1, <2>2
<1>11. \A q \in Obj : Old(q)' => \A p \in H!Pointers(q)' : Old(p)'
  <2>1. ~Old(o)
    BY <1>1 DEF RunInv, Tidy, Exists, Old
  <2> QED BY <1>6, <2>1 DEF RunInv, Old
<1>12. weak_refs' = {q \in Obj : kind'[q] = "weak"}
  BY <1>1, <1>2 DEF RunInv
<1> QED BY <1>4, <1>8, <1>9, <1>10, <1>11, <1>12 DEF RunInv

LEMMA FieldSet ==
  ASSUME RunInv, NEW r \in Roots, NEW f \in Fields, NEW s \in Roots, H!set(r, f, s),
         UNCHANGED gen
  PROVE  RunInv'
<1> DEFINE q == root[r]
           v == root[s]
<1>1. /\ q \in Obj /\ kind[q] = "record" /\ "readonly" \notin flags[q]
      /\ data' = [data EXCEPT ![q][f] = v]
      /\ UNCHANGED <<kind, flags, target, root, weak_refs, gen>>
  BY DEF H!set, H!IsRecord, H!readonlyp
<1>2. v \in H!Value /\ (v \in Obj => kind[v] # "none") /\ data \in [Obj -> [Fields -> H!Value]]
  BY DEF RunInv, HeapTypes, NoDangling, Exists
<1>3. NoneGone(kind, data, target, root, weak_refs)
  BY DanglingIs DEF RunInv
<1> HIDE DEF q, v
<1>4. /\ data' \in [Obj -> [Fields -> H!Value]]
      /\ \A o \in Obj : o # q => data'[o] = data[o]
      /\ \A o \in Obj, g \in Fields : data'[o][g] = data[o][g] \/ (o = q /\ data'[o][g] = v)
  BY <1>1, <1>2
<1>5. HeapTypes'
  BY <1>1, <1>4 DEF RunInv, HeapTypes, H!Value
<1>6. NoDangling'
  <2>1. NoneGone(kind, data', target, root, weak_refs)
    BY <1>1, <1>2, <1>3, <1>4 DEF NoneGone
  <2> QED BY <1>1, <2>1, DanglingNext
<1>7. \A o : /\ H!immutablep(o)' = H!immutablep(o) /\ H!readonlyp(o)' = H!readonlyp(o)
             /\ Exists(o)' = Exists(o) /\ Old(o)' = Old(o)
  BY <1>1 DEF H!immutablep, H!readonlyp, Exists, Old
<1>8. ~H!immutablep(q) /\ ~Old(q) /\ Exists(q)
  BY <1>1 DEF RunInv, Tidy, H!readonlyp, Exists
<1>9. \A o \in Obj : o # q => H!Pointers(o)' = H!Pointers(o)
  BY <1>4 DEF H!Pointers
<1>10. Tidy'
  <2> SUFFICES ASSUME NEW o \in Obj
               PROVE  /\ ~Exists(o)' => flags'[o] = {} /\ data'[o] = H!Empty' /\ gen'[o] = 0
                      /\ H!immutablep(o)' => kind'[o] = "record" /\ H!readonlyp(o)'
                      /\ Old(o)' => H!immutablep(o)'
    BY DEF Tidy
  <2>1. H!Empty' = H!Empty
    BY DEF H!Empty
  <2> QED BY <1>1, <1>4, <1>7, <1>8, <2>1 DEF RunInv, Tidy
<1>11. ImmutableClosed'
  BY <1>1, <1>7, <1>8, <1>9 DEF RunInv, ImmutableClosed
<1>12. \A o \in Obj : Old(o)' => \A p \in H!Pointers(o)' : Old(p)'
  BY <1>7, <1>8, <1>9 DEF RunInv
<1> QED BY <1>1, <1>5, <1>6, <1>10, <1>11, <1>12 DEF RunInv

\* What rprotect() makes immutable leads to nothing else.
LEMMA Protected ==
  ASSUME RunInv, NEW v \in Obj, NEW o \in H!RYes(v), "immutable" \notin flags[o]
  PROVE  /\ o \in Obj /\ kind[o] = "record" /\ o \in H!Visited(v)
         /\ \A p \in H!Pointers(o) : p \in H!RYes(v)
<1> DEFINE Inside(u, C) == u \in C /\ \A p \in C : ~H!immutablep(p) => H!Pointers(p) \subseteq C
<1>1. \A u : H!Visited(u) = {q \in Obj : \A C \in SUBSET Obj : Inside(u, C) => q \in C}
  BY DEF H!Visited
<1>2. \A u \in Obj : u \in H!Visited(u)
  BY <1>1
<1>3. ASSUME NEW u \in Obj, NEW q \in H!Visited(u), ~H!immutablep(q), NEW p \in H!Pointers(q)
      PROVE  p \in H!Visited(u)
  <2>1. q \in Obj /\ p \in Obj
    BY <1>1, <1>3, PointersIn
  <2>2. \A C \in SUBSET Obj : Inside(u, C) => p \in C
    BY <1>1, <1>3
  <2> QED BY <1>1, <2>1, <2>2
<1>4. ASSUME NEW u \in Obj, NEW q \in H!Visited(u)
      PROVE  H!Visited(q) \subseteq H!Visited(u)
  <2>1. H!Visited(u) \in SUBSET Obj
    BY <1>1
  <2>2. Inside(q, H!Visited(u))
    BY <1>3, <1>4
  <2> QED BY <1>1, <2>1, <2>2
<1> HIDE DEF Inside
<1>5. /\ o \in Obj /\ o \in H!Visited(v) /\ H!Leafless(o)
      /\ H!Leafless(v) \/ \A q \in H!Visited(o) : ~H!OnCycle(q)
  BY <1>1 DEF H!RYes
<1>6. kind[o] = "record"
  BY <1>2, <1>5 DEF H!Leafless, H!immutablep
<1>7. ASSUME NEW p \in H!Pointers(o)
      PROVE  p \in H!RYes(v)
  <2>1. p \in Obj /\ p \in H!Visited(o) /\ p \in H!Visited(v)
    BY <1>2, <1>3, <1>5, PointersIn DEF H!immutablep
  <2>2. H!Visited(p) \subseteq H!Visited(o)
    BY <1>4, <1>5, <2>1
  <2>3. H!Leafless(p) /\ (H!Leafless(v) \/ \A q \in H!Visited(p) : ~H!OnCycle(q))
    BY <1>5, <2>2 DEF H!Leafless
  <2> QED BY <2>1, <2>3 DEF H!RYes
<1> QED BY <1>5, <1>6, <1>7

LEMMA ProgramKeeps ==
  ASSUME RunInv, H!Program, UNCHANGED gen
  PROVE  RunInv'
<1>1. ASSUME NEW o \in Obj, NEW r \in Roots, H!allocate_record(o, r)
      PROVE  RunInv'
  <2>1. /\ H!allocate(o, "record", {}, H!Empty, NULL, r) /\ UNCHANGED weak_refs
        /\ H!Empty \in [Fields -> H!Value] /\ NULL \in H!Value /\ NULL \notin Obj
        /\ \A f \in Fields : H!Empty[f] = NULL
    BY <1>1, HeapAssumption DEF H!allocate_record, H!Empty, H!Value
  <2> QED BY <2>1, Allocated
<1>2. ASSUME NEW o \in Obj, NEW r \in Roots, NEW from \in [Fields -> Roots], H!pcons(o, r, from)
      PROVE  RunInv'
  <2> DEFINE d == [f \in Fields |-> root[from[f]]]
             fl == {"readonly"} \cup {i \in {"immutable"} : \A f \in Fields : H!immutablep(d[f])}
  <2>1. H!allocate(o, "record", fl, d, NULL, r) /\ UNCHANGED weak_refs
    BY <1>2 DEF H!pcons
  <2>2. d \in [Fields -> H!Value] /\ \A f \in Fields : d[f] \in Obj => Exists(d[f])
    BY DEF RunInv, HeapTypes, NoDangling
  <2>3. /\ fl \in SUBSET {"readonly", "immutable"} /\ "readonly" \in fl
        /\ "immutable" \in fl => \A f \in Fields : H!immutablep(d[f])
    OBVIOUS
  <2>4. NULL \in H!Value /\ NULL \notin Obj
    BY HeapAssumption DEF H!Value
  <2> HIDE DEF d, fl
  <2> QED BY <2>1, <2>2, <2>3, <2>4, Allocated
<1>3. ASSUME NEW o \in Obj, NEW r \in Roots, NEW s \in Roots, H!weak_ref(o, r, s)
      PROVE  RunInv'
  <2>1. /\ H!allocate(o, "weak", {}, H!Empty, root[s], r) /\ weak_refs' = weak_refs \cup {o}
        /\ H!Empty \in [Fields -> H!Value] /\ NULL \notin Obj
        /\ \A f \in Fields : H!Empty[f] = NULL
    BY <1>3, HeapAssumption DEF H!weak_ref, H!Empty, H!Value
  <2>2. root[s] \in H!Value /\ (root[s] \in Obj => Exists(root[s]))
    BY DEF RunInv, HeapTypes, NoDangling
  <2> QED BY <2>1, <2>2, Allocated
<1>4. ASSUME NEW r \in Roots, NEW s \in Roots, H!weak_deref(r, s)
      PROVE  RunInv'
  <2>1. /\ root[s] \in Obj /\ kind[root[s]] = "weak" /\ root' = [root EXCEPT ![r] = target[root[s]]]
        /\ UNCHANGED <<kind, flags, data, target, weak_refs>>
    BY <1>4 DEF H!weak_deref
  <2>2. root[s] \in weak_refs /\ target[root[s]] \in H!Value
    BY <2>1 DEF RunInv, HeapTypes
  <2>3. target[root[s]] \in Obj => Exists(target[root[s]])
    BY <2>2 DEF RunInv, NoDangling
  <2> QED BY <2>1, <2>2, <2>3, RootChange
<1>5. ASSUME NEW r \in Roots, NEW s \in Roots, NEW f \in Fields, H!get(r, s, f)
      PROVE  RunInv'
  <2>1. /\ root[s] \in Obj /\ kind[root[s]] = "record"
        /\ root' = [root EXCEPT ![r] = data[root[s]][f]]
        /\ UNCHANGED <<kind, flags, data, target, weak_refs>>
    BY <1>5 DEF H!get, H!IsRecord
  <2>2. data[root[s]][f] \in H!Value
    BY <2>1 DEF RunInv, HeapTypes
  <2>3. data[root[s]][f] \in Obj => Exists(data[root[s]][f])
    BY <2>1 DEF RunInv, NoDangling, Exists
  <2> QED BY <2>1, <2>2, <2>3, RootChange
<1>6. ASSUME NEW r \in Roots, NEW s \in Roots, NEW f \in Fields, H!set(r, f, s)
      PROVE  RunInv'
  BY <1>6, FieldSet
<1>7. ASSUME NEW r \in Roots, H!drop(r)
      PROVE  RunInv'
  <2>1. NULL \in H!Value /\ NULL \notin Obj
    BY HeapAssumption DEF H!Value
  <2> QED BY <1>7, <2>1, RootChange DEF H!drop
<1>8. ASSUME NEW r \in Roots, H!protect(r)
      PROVE  RunInv'
  <2>1. /\ root[r] \in Obj /\ UNCHANGED <<kind, data, target, root, weak_refs>>
        /\ flags' = [o \in Obj |-> IF o \in {root[r]} THEN flags[o] \cup {"readonly"} ELSE flags[o]]
    BY <1>8 DEF H!protect, H!AddFlag
  <2>2. Exists(root[r]) /\ flags \in [Obj -> SUBSET {"readonly", "immutable"}]
    BY <2>1 DEF RunInv, NoDangling, HeapTypes
  <2>3. \A o \in Obj : flags[o] \subseteq flags'[o] /\ (~Exists(o) => flags'[o] = {})
    BY <2>1, <2>2 DEF RunInv, Tidy
  <2>4. flags' \in [Obj -> SUBSET {"readonly", "immutable"}]
    BY <2>1, <2>2
  <2>5. \A o \in Obj : "immutable" \notin flags'[o] \ flags[o]
    BY <2>1
  <2> QED BY <2>1, <2>3, <2>4, <2>5, FlagsAdded
<1>9. ASSUME NEW r \in Roots, H!check_immutable(r)
      PROVE  RunInv'
  <2> DEFINE q == root[r]
  <2>1. /\ q \in Obj /\ UNCHANGED <<kind, data, target, root, weak_refs>>
        /\ kind[q] = "record" /\ flags[q] = {"readonly"}
        /\ \A p \in H!Pointers(q) \ {q} : "immutable" \in flags[p]
        /\ flags' = [o \in Obj |-> IF o \in {q} THEN flags[o] \cup {"immutable"} ELSE flags[o]]
    BY <1>9, PointersIn DEF H!check_immutable, H!CanBeImmutable, H!AddFlag, H!immutablep
  <2> HIDE DEF q
  <2>2. flags \in [Obj -> SUBSET {"readonly", "immutable"}]
    BY DEF RunInv, HeapTypes
  <2>3. \A o \in Obj : flags[o] \subseteq flags'[o] /\ (~Exists(o) => flags'[o] = {})
    BY <2>1, <2>2 DEF RunInv, Tidy, Exists
  <2>4. flags' \in [Obj -> SUBSET {"readonly", "immutable"}]
    BY <2>1, <2>2
  <2>5. ASSUME NEW o \in Obj, "immutable" \in flags'[o] \ flags[o]
        PROVE  /\ kind[o] = "record" /\ "readonly" \in flags'[o]
               /\ \A p \in H!Pointers(o) : "immutable" \in flags'[p]
    <3>1. o = q
      BY <2>1, <2>5
    <3>2. \A p \in H!Pointers(q) : p \in Obj
      BY PointersIn
    <3> QED BY <2>1, <3>1, <3>2
  <2> QED BY <2>1, <2>3, <2>4, <2>5, FlagsAdded
<1>10. ASSUME NEW r \in Roots, H!rprotect(r)
       PROVE  RunInv'
  <2> DEFINE v == root[r]
  <2>1. /\ v \in Obj /\ UNCHANGED <<kind, data, target, root, weak_refs>>
        /\ flags' = [o \in Obj |->
                       flags[o] \cup {fl \in {"readonly"} : o \in H!Visited(v)}
                                \cup {fl \in {"immutable"} : o \in H!RYes(v)}]
    BY <1>10 DEF H!rprotect
  <2>2. flags \in [Obj -> SUBSET {"readonly", "immutable"}] /\ kind[v] # "none"
    BY <2>1 DEF RunInv, HeapTypes, NoDangling, Exists
  <2> HIDE DEF v
  <2>3. \A o \in H!Visited(v) : Exists(o)
    <3> DEFINE C == {o \in Obj : Exists(o)}
    <3>1. \A p \in C : H!Pointers(p) \subseteq C
      BY PointersIn DEF RunInv, NoDangling
    <3>2. C \in SUBSET Obj /\ v \in C
      BY <2>1, <2>2 DEF Exists
    <3>3. \A o \in H!Visited(v) : o \in C
      <4> HIDE DEF C
      <4> QED BY <3>1, <3>2 DEF H!Visited
    <3> QED BY <3>3
  <2>4. H!RYes(v) \subseteq H!Visited(v)
    BY DEF H!RYes
  <2>5. \A o \in Obj : /\ "immutable" \in flags'[o] <=> "immutable" \in flags[o] \/ o \in H!RYes(v)
                       /\ "readonly" \in flags'[o] <=> "readonly" \in flags[o] \/ o \in H!Visited(v)
    BY <2>1
  <2>6. \A o \in Obj : flags[o] \subseteq flags'[o] /\ (~Exists(o) => flags'[o] = {})
    <3> TAKE o \in Obj
    <3>1. flags[o] \subseteq flags'[o]
      BY <2>1
    <3>2. ASSUME ~Exists(o) PROVE flags'[o] = {}
      <4>1. flags[o] = {} /\ o \notin H!Visited(v) /\ o \notin H!RYes(v)
        BY <2>3, <2>4, <3>2 DEF RunInv, Tidy
      <4> QED BY <2>1, <4>1
    <3> QED BY <3>1, <3>2
  <2>7. flags' \in [Obj -> SUBSET {"readonly", "immutable"}]
    BY <2>1, <2>2
  <2>8. ASSUME NEW o \in Obj, "immutable" \in flags'[o] \ flags[o]
        PROVE  /\ kind[o] = "record" /\ "readonly" \in flags'[o]
               /\ \A p \in H!Pointers(o) : "immutable" \in flags'[p]
    <3>1. o \in H!RYes(v) /\ "immutable" \notin flags[o]
      BY <2>5, <2>8
    <3>2. /\ kind[o] = "record" /\ o \in H!Visited(v)
          /\ \A p \in H!Pointers(o) : p \in H!RYes(v)
      BY <2>1, <3>1, Protected
    <3> QED BY <2>5, <3>2, PointersIn
  <2> QED BY <2>1, <2>6, <2>7, <2>8, FlagsAdded
<1> QED BY <1>1, <1>2, <1>3, <1>4, <1>5, <1>6, <1>7, <1>8, <1>9, <1>10 DEF H!Program

LEMMA ProgramStep == GcInv /\ Program => GcInv'
<1> SUFFICES ASSUME GcInv, Program PROVE GcInv'
  OBVIOUS
<1>1. /\ phase = "run" /\ phase' = "run" /\ H!Program
      /\ UNCHANGED <<gen, coll, kept, scanned, pending, client>>
  BY DEF Program, collector
<1>2. RunInv'
  BY <1>1, RunFacts, ProgramKeeps
<1> QED BY <1>1, <1>2, RunStep

-----------------------------------------------------------------------------
(***************************************************************************)
(* Forwarding.                                                             *)
(***************************************************************************)
LEMMA ForwardFacts ==
  ASSUME TypeOK, NEW c \in Collections, NEW S, NEW old \in SUBSET Obj, Forward(c, S, old)
  PROVE  /\ \A v : v \in kept' <=> v \in old \/ (v \in S /\ v \in From(c))
         /\ kept' \in SUBSET Obj /\ gen' \in [Obj -> {0, 1}]
         /\ \A o \in Obj : gen'[o] = 1 <=>
              Old(o) \/ /\ c = "minor" /\ o \in S /\ o \in From(c) /\ o \notin old
                        /\ H!immutablep(o)
         /\ c # "minor" => gen' = gen
<1> DEFINE moved == (S \cap From(c)) \ old
<1>1. kept' = old \cup moved /\ moved \in SUBSET Obj
  BY FromIs DEF Forward
<1>2. gen' = [o \in Obj |-> IF o \in moved /\ c = "minor" /\ H!immutablep(o) THEN 1 ELSE gen[o]]
  BY DEF Forward, NewGenerations
<1>3. gen \in [Obj -> {0, 1}]
  BY DEF TypeOK
<1>4. \A v : v \in moved <=> v \in S /\ v \in From(c) /\ v \notin old
  OBVIOUS
<1> HIDE DEF moved
<1>5. c # "minor" => gen' = gen
  BY <1>2, <1>3
<1>6. gen' \in [Obj -> {0, 1}]
  BY <1>2, <1>3
<1>7. \A o \in Obj : gen'[o] = 1 <=> Old(o) \/ (o \in moved /\ c = "minor" /\ H!immutablep(o))
  BY <1>2, <1>3 DEF Old
<1> QED BY <1>1, <1>4, <1>5, <1>6, <1>7

\* The start of a collection, from the program or after a weaker one
LEMMA StartStep ==
  ASSUME GcInv, NEW c \in Collections, Start(c), client' \in {"allocate", "detect"},
         UNCHANGED <<kind, flags, data, target, root, weak_refs>>,
         \/ phase = "run" /\ c = "minor"
         \/ phase = "roots" /\ c = coll
  PROVE  GcInv'
<1>1. /\ kept = {} /\ scanned = {} /\ c = coll
      /\ coll' = c /\ phase' = "gen0" /\ scanned' = {} /\ pending' = {}
  BY DEF GcInv, Phases, Collecting, Start
<1> DEFINE R == {root[r] : r \in Roots} \cap Obj
           old == StaysInPlace(c)
<1>2. TypeOK /\ old \in SUBSET Obj /\ Forward(c, R, old)
  BY DEF GcInv, StaysInPlace, Start
<1>3. R \subseteq H!Live /\ \A r \in Roots : root[r] \in Obj => root[r] \in R
  BY LiveIn
<1> HIDE DEF R
<1>4. \A o \in old : c = "major" /\ Exists(o) /\ ~Old(o)
  BY DEF StaysInPlace, Old
<1>5. c = "major" => old = StaysInPlace("major")
  OBVIOUS
<1> HIDE DEF old
<1>6. /\ \A v : v \in kept' <=> v \in old \/ (v \in R /\ v \in From(c))
      /\ kept' \in SUBSET Obj /\ gen' \in [Obj -> {0, 1}]
      /\ \A o \in Obj : gen'[o] = 1 <=>
           Old(o) \/ (c = "minor" /\ o \in R /\ o \in From(c) /\ o \notin old /\ H!immutablep(o))
      /\ c # "minor" => gen' = gen
  BY <1>2, ForwardFacts
<1>7. \A o \in Obj : gen'[o] = 1 => Old(o) \/ (H!immutablep(o) /\ o \in kept' /\ Exists(o))
  BY <1>6, FromIs
<1>8. \A o : /\ H!Pointers(o)' = H!Pointers(o) /\ Exists(o)' = Exists(o)
             /\ H!immutablep(o)' = H!immutablep(o) /\ H!readonlyp(o)' = H!readonlyp(o)
             /\ (Old(o)' <=> gen'[o] = 1)
  BY DEF H!Pointers, Exists, H!immutablep, H!readonlyp, Old
<1>9. TypeOK'
  BY <1>1, <1>6 DEF GcInv, TypeOK, H!Value, Collections
<1>10. Tidy'
  <2> SUFFICES ASSUME NEW o \in Obj
               PROVE  /\ ~Exists(o)' => flags'[o] = {} /\ data'[o] = H!Empty' /\ gen'[o] = 0
                      /\ H!immutablep(o)' => kind'[o] = "record" /\ H!readonlyp(o)'
                      /\ Old(o)' => H!immutablep(o)'
    BY DEF Tidy
  <2>1. H!Empty' = H!Empty /\ gen'[o] \in {0, 1}
    BY <1>6 DEF H!Empty
  <2> QED BY <1>7, <1>8, <2>1 DEF GcInv, Tidy, Old
<1>11. NoDangling' /\ ImmutableClosed'
  BY <1>8 DEF GcInv, NoDangling, ImmutableClosed
<1>12. Phases'
  BY <1>1 DEF Phases, Collecting
<1>13. Separate'
  <2> SUFFICES ASSUME NEW o \in Obj, NEW p \in H!Pointers(o)
               PROVE  /\ c = "minor" /\ H!immutablep(o) =>
                           gen'[p] = 1 \/ (p \notin kept' /\ (gen'[o] = 1 => o \in kept'))
                      /\ c # "minor" /\ gen'[o] = 1 => gen'[p] = 1
    BY <1>1, <1>8, PointersIn DEF Separate
  <2>1. p \in Obj
    BY PointersIn
  <2>2. ASSUME c = "minor", H!immutablep(o)
        PROVE  gen'[p] = 1 \/ (p \notin kept' /\ (gen'[o] = 1 => o \in kept'))
    <3>1. Old(p) \/ ~Old(o)
      BY <1>1, <2>2 DEF GcInv, Separate
    <3>2. H!immutablep(p) /\ old = {}
      BY <1>4, <2>2, <2>1 DEF GcInv, Tidy, ImmutableClosed, Exists
    <3> QED BY <1>6, <1>7, <2>1, <2>2, <3>1, <3>2
  <2>3. c # "minor" /\ Old(o) => Old(p)
    BY <1>1 DEF GcInv, Separate
  <2> QED BY <1>6, <2>2, <2>3 DEF Old
<1>14. Passed'
  <2>1. coll' \in Collections
    BY <1>1
  <2>2. ASSUME NEW r \in Roots
        PROVE  ~Dropping(root[r], c, kind, gen', kept')
    <3>1. root[r] \in Obj => root[r] \in R
      BY <1>3
    <3> DEFINE v == root[r]
    <3>2. v \in Obj => gen[v] \in {0, 1} /\ gen'[v] \in {0, 1} /\ (Old(v) => gen'[v] = 1)
      BY <1>2, <1>6 DEF TypeOK
    <3>3. c # "minor" => gen' = gen
      BY <1>6
    <3> HIDE DEF v
    <3>4. Dropping(v, c, kind, gen', kept') => v \in From(c)
      BY <3>2, <3>3, FromIs DEF Dropping, Exists, Old
    <3>5. v \in R /\ v \in From(c) => v \in kept'
      BY <1>6
    <3> QED BY <3>1, <3>4, <3>5 DEF Dropping, v
  <2>3. \A r \in Roots : ~Lost(root[r])'
    BY <1>1, <2>1, <2>2, RootsNext
  <2>4. c = "major" => StaysInPlace("major")' \subseteq kept'
    BY <1>5, <1>6, <1>8 DEF StaysInPlace, Exists
  <2> QED BY <1>1, <2>3, <2>4 DEF Passed
<1>15. Needed'
  <2>1. H!Live' = H!Live
    BY LiveSame
  <2>2. c = "major" => old \subseteq H!Live
    BY <1>1, <1>5 DEF GcInv, Needed
  <2>3. kept' \subseteq H!Live
    BY <1>3, <1>4, <1>6, <2>2
  <2>4. c = "major" => StaysInPlace("major")' = StaysInPlace("major")
    BY <1>6 DEF StaysInPlace, Exists
  <2> QED BY <1>1, <1>5, <2>1, <2>2, <2>3, <2>4 DEF Needed
<1>16. Listed'
  <2>1. /\ \A w \in weak_refs : kind[w] = "weak"
        /\ \A o \in Obj : kind[o] = "weak" => o \in weak_refs
    BY DEF GcInv, Listed
  <2> QED BY <1>1, <2>1 DEF Listed
<1> QED BY <1>9, <1>10, <1>11, <1>12, <1>13, <1>14, <1>15, <1>16 DEF GcInv

-----------------------------------------------------------------------------
(***************************************************************************)
(* Scanning.                                                               *)
(***************************************************************************)
\* what a minor collection may find out about the object it scans
FoundClosed(o) ==
  /\ coll = "minor" /\ kind[o] = "record" /\ flags[o] = {"readonly"}
  /\ \A p \in H!Pointers(o) : gen'[p] = 1
  /\ flags' = [q \in Obj |-> IF q = o THEN flags[q] \cup {"immutable"} ELSE flags[q]]

LEMMA ScanStep ==
  ASSUME GcInv, phase \in {"gen0", "gen1"}, NEW o \in kept, o \notin scanned,
         phase = "gen1" => Old(o),
         Forward(coll, H!Pointers(o), kept), scanned' = scanned \cup {o},
         UNCHANGED <<kind, data, target, root, weak_refs, coll, phase, pending, client>>,
         flags' = flags \/ FoundClosed(o)
  PROVE  GcInv'
<1> DEFINE S == H!Pointers(o)
<1>1. TypeOK /\ coll \in Collections /\ kept \in SUBSET Obj /\ o \in Obj /\ scanned \subseteq kept
  BY DEF GcInv, TypeOK, Collections
<1>2. /\ \A v : v \in kept' <=> v \in kept \/ (v \in S /\ v \in From(coll))
      /\ kept' \in SUBSET Obj /\ gen' \in [Obj -> {0, 1}]
      /\ \A q \in Obj : gen'[q] = 1 <=>
           Old(q) \/ /\ coll = "minor" /\ q \in S /\ q \in From(coll) /\ q \notin kept
                     /\ H!immutablep(q)
      /\ coll # "minor" => gen' = gen
  BY <1>1, ForwardFacts
<1>3. \A q \in Obj : gen'[q] = 1 => Old(q) \/ (H!immutablep(q) /\ q \in kept' /\ Exists(q))
  BY <1>1, <1>2, FromIs
<1>4. /\ flags' \in [Obj -> SUBSET {"readonly", "immutable"}]
      /\ \A q \in Obj : q # o => flags'[q] = flags[q]
      /\ flags'[o] = flags[o] \/ /\ coll = "minor" /\ kind[o] = "record"
                                 /\ "immutable" \in flags'[o] /\ "readonly" \in flags'[o]
                                 /\ \A p \in S : gen'[p] = 1
  BY <1>1 DEF TypeOK, FoundClosed
<1>5. \A q : /\ H!Pointers(q)' = H!Pointers(q) /\ Exists(q)' = Exists(q)
             /\ (Old(q)' <=> gen'[q] = 1)
             /\ (q \in Obj => /\ H!immutablep(q)' <=> "immutable" \in flags'[q]
                              /\ H!immutablep(q) <=> "immutable" \in flags[q]
                              /\ H!readonlyp(q)' <=> "readonly" \in flags'[q]
                              /\ H!readonlyp(q) <=> "readonly" \in flags[q])
  BY DEF H!Pointers, Exists, H!immutablep, H!readonlyp, Old
<1>6. TypeOK'
  BY <1>1, <1>2, <1>4 DEF TypeOK, H!Value
<1>7. Tidy'
  <2> SUFFICES ASSUME NEW q \in Obj
               PROVE  /\ ~Exists(q)' => flags'[q] = {} /\ data'[q] = H!Empty' /\ gen'[q] = 0
                      /\ H!immutablep(q)' => kind'[q] = "record" /\ H!readonlyp(q)'
                      /\ Old(q)' => H!immutablep(q)'
    BY DEF Tidy
  <2>1. /\ ~Exists(q) => flags[q] = {} /\ data[q] = H!Empty /\ gen[q] = 0
        /\ H!immutablep(q) => kind[q] = "record" /\ H!readonlyp(q)
        /\ Old(q) => H!immutablep(q)
    BY DEF GcInv, Tidy
  <2>2. H!Empty' = H!Empty /\ gen'[q] \in {0, 1}
    BY <1>2 DEF H!Empty
  <2>3. ~Exists(q) => gen'[q] = 0 /\ flags'[q] = {}
    <3>1. ~Exists(q) /\ q = o => flags'[o] = flags[o]
      BY <1>4 DEF Exists
    <3> QED BY <1>3, <1>4, <2>1, <2>2, <3>1 DEF Old
  <2>4. H!immutablep(q) => H!immutablep(q)'
    BY <1>4, <1>5
  <2>5. H!immutablep(q)' => kind'[q] = "record" /\ H!readonlyp(q)'
    BY <1>4, <1>5, <2>1
  <2> QED BY <1>3, <1>5, <2>1, <2>2, <2>3, <2>4, <2>5
<1>8. NoDangling'
  BY <1>5 DEF GcInv, NoDangling
<1>9. ImmutableClosed'
  <2> SUFFICES ASSUME NEW q \in Obj, Exists(q), "immutable" \in flags'[q],
                      NEW p \in H!Pointers(q)
               PROVE  "immutable" \in flags'[p]
    BY <1>5, PointersIn DEF ImmutableClosed
  <2>1. p \in Obj /\ \A u \in Obj : "immutable" \in flags[u] => "immutable" \in flags'[u]
    BY <1>4, PointersIn
  <2>2. CASE "immutable" \in flags[q]
    BY <1>5, <2>1, <2>2 DEF GcInv, ImmutableClosed
  <2>3. CASE "immutable" \notin flags[q]
    <3>1. q = o /\ gen'[p] = 1
      BY <1>4, <2>3
    <3>2. Old(p) => H!immutablep(p)
      BY <2>1 DEF GcInv, Tidy
    <3> QED BY <1>3, <1>5, <2>1, <3>1, <3>2
  <2> QED BY <2>2, <2>3
<1>10. Phases'
  BY DEF GcInv, Phases, Collecting
<1>11. Separate'
  <2> SUFFICES ASSUME NEW q \in Obj, NEW p \in H!Pointers(q)
               PROVE  /\ coll = "minor" /\ "immutable" \in flags'[q] =>
                           \/ gen'[p] = 1
                           \/ p \notin kept' /\ q \notin scanned' /\ (gen'[q] = 1 => q \in kept')
                      /\ coll # "minor" /\ gen'[q] = 1 => gen'[p] = 1
    BY <1>5, PointersIn DEF Separate
  <2>1. p \in Obj
    BY PointersIn
  <2>2. ASSUME coll = "minor", "immutable" \in flags'[q]
        PROVE  \/ gen'[p] = 1
               \/ p \notin kept' /\ q \notin scanned' /\ (gen'[q] = 1 => q \in kept')
    <3>1. CASE "immutable" \notin flags[q]
      BY <1>4, <2>2, <3>1
    <3>2. CASE "immutable" \in flags[q]
      <4>1. Exists(q) /\ H!immutablep(p) /\ Exists(p)
        <5>1. Exists(q)
          BY <1>5, <3>2 DEF GcInv, Tidy, Exists
        <5>2. H!immutablep(p)
          BY <1>5, <3>2, <5>1 DEF GcInv, ImmutableClosed
        <5>3. Exists(p)
          BY <2>1, <5>1, PointersIn DEF GcInv, NoDangling
        <5> QED BY <5>1, <5>2, <5>3
      <4>2. Old(p) \/ (p \notin kept /\ q \notin scanned /\ (Old(q) => q \in kept))
        BY <1>5, <2>2, <3>2 DEF GcInv, Separate
      <4>3. Old(p) => gen'[p] = 1
        BY <1>2, <2>1
      <4>4. p \notin kept /\ p \in kept' => gen'[p] = 1
        BY <1>2, <2>1, <2>2, <4>1
      <4>5. gen'[q] = 1 => Old(q) \/ q \in kept'
        BY <1>3
      <4>6. q \in kept => q \in kept'
        BY <1>2
      <4>7. q = o /\ p \notin kept' => gen'[p] = 1
        <5>1. q = o /\ p \notin kept' => p \notin From(coll)
          BY <1>2
        <5>2. gen[p] \in {0, 1}
          BY <1>1, <2>1 DEF TypeOK
        <5> QED BY <1>1, <2>1, <2>2, <4>1, <4>3, <5>1, <5>2, FromIs DEF Old
      <4> QED BY <4>2, <4>3, <4>4, <4>5, <4>6, <4>7
    <3> QED BY <3>1, <3>2
  <2>3. coll # "minor" /\ Old(q) => Old(p)
    BY DEF GcInv, Separate
  <2> QED BY <1>2, <2>2, <2>3 DEF Old
<1>12. Passed'
  <2>1. ASSUME NEW v, Dropping(v, coll, kind, gen', kept')
        PROVE  ~(v \in S) /\ Lost(v)
    <3>1. v \in Obj /\ v \notin kept' /\ v \notin kept
      BY <1>2, <2>1 DEF Dropping
    <3>2. /\ gen[v] \in {0, 1} /\ gen'[v] \in {0, 1} /\ (Old(v) => gen'[v] = 1)
          /\ coll # "minor" => gen' = gen
      BY <1>1, <1>2, <3>1 DEF TypeOK
    <3>3. v \in From(coll)
      BY <1>1, <2>1, <3>2, FromIs DEF Dropping, Exists, Old
    <3> QED BY <1>2, <3>1, <3>3 DEF Lost
  <2>2. \A v : Lost(v)' => ~(v \in S) /\ Lost(v)
    BY <1>1, <2>1, LostNext
  <2>3. \A r \in Roots : ~Lost(root[r])'
    BY <1>1, <2>1, RootsNext DEF GcInv, Passed, Collecting
  <2>4. \A q \in scanned' : \A p \in H!Pointers(q)' : ~Lost(p)'
    BY <1>5, <2>2 DEF GcInv, Passed, Collecting
  <2>5. coll = "major" => StaysInPlace("major")' \subseteq kept'
    BY <1>2 DEF GcInv, Passed, Collecting, StaysInPlace, Exists
  <2>6. ASSUME phase = "gen1", NEW q \in kept', gen'[q] = 0
        PROVE  q \in scanned'
    <3>1. q \in Obj /\ ~Old(q)
      BY <1>2, <2>6
    <3>2. CASE q \in kept
      <4>1. gen[q] = 0
        BY <1>1, <3>1 DEF TypeOK, Old
      <4> QED BY <2>6, <3>2, <4>1 DEF GcInv, Passed, Collecting, Unscanned
    <3>3. CASE q \notin kept
      <4>1. q \in S /\ q \in From(coll)
        BY <1>2, <3>3
      <4>2. Old(o) /\ Exists(o) /\ H!immutablep(o)
        BY <1>1, <2>6 DEF GcInv, Tidy, Exists, Old
      <4>3. H!immutablep(q)
        BY <1>1, <4>1, <4>2 DEF GcInv, ImmutableClosed
      <4>4. coll # "minor"
        BY <1>2, <2>6, <3>1, <3>3, <4>1, <4>3
      <4> QED BY <1>1, <3>1, <4>1, <4>2, <4>4 DEF GcInv, Separate
    <3> QED BY <3>2, <3>3
  <2>7. phase = "gen1" => Unscanned(0)' = {}
    BY <2>6 DEF Unscanned
  <2> QED BY <2>3, <2>4, <2>5, <2>7 DEF Passed
<1>13. Needed'
  <2>1. H!Live' = H!Live
    BY LiveSame
  <2>2. kept' \subseteq H!Live
    <3>1. o \in H!Live /\ kept \subseteq H!Live
      BY DEF GcInv, Needed
    <3>2. S \subseteq H!Live
      BY <3>1, LiveClosed
    <3> HIDE DEF S
    <3> QED BY <1>2, <3>1, <3>2
  <2>3. coll = "major" => StaysInPlace("major")' \subseteq H!Live
    BY <1>2 DEF GcInv, Needed, StaysInPlace, Exists
  <2> QED BY <2>1, <2>2, <2>3 DEF Needed
<1>14. Listed'
  BY DEF GcInv, Listed
<1> QED BY <1>6, <1>7, <1>8, <1>9, <1>10, <1>11, <1>12, <1>13, <1>14 DEF GcInv

LEMMA ScanGen0 == ASSUME NEW o \in Obj PROVE GcInv /\ scan_gen0(o) => GcInv'
<1> SUFFICES ASSUME GcInv, scan_gen0(o) PROVE GcInv'
  OBVIOUS
<1>1. flags' = flags \/ FoundClosed(o)
  BY DEF scan_gen0, FoundImmutable, FoundClosed, H!AddFlag
<1>2. o \in kept /\ o \notin scanned /\ phase = "gen0" /\ scanned' = scanned \cup {o}
      /\ UNCHANGED <<kind, data, target, root, weak_refs, coll, phase, pending, client>>
      /\ Forward(coll, H!Pointers(o), kept)
  BY DEF scan_gen0, Unscanned
<1> QED BY <1>1, <1>2, ScanStep

LEMMA ScanGen1 == ASSUME NEW o \in Obj PROVE GcInv /\ scan_gen1(o) => GcInv'
<1> SUFFICES ASSUME GcInv, scan_gen1(o) PROVE GcInv'
  OBVIOUS
<1>1. flags' = flags
  BY DEF scan_gen1
<1>2. o \in kept /\ o \notin scanned /\ phase = "gen1" /\ scanned' = scanned \cup {o} /\ Old(o)
      /\ UNCHANGED <<kind, data, target, root, weak_refs, coll, phase, pending, client>>
      /\ Forward(coll, H!Pointers(o), kept)
  BY DEF scan_gen1, Unscanned, Old
<1> QED BY <1>1, <1>2, ScanStep

LEMMA Gen0Scanned == GcInv /\ gen0_scanned => GcInv'
<1> SUFFICES ASSUME GcInv, gen0_scanned PROVE GcInv'
  OBVIOUS
<1>1. /\ phase = "gen0" /\ Unscanned(0) = {} /\ phase' = "gen1"
      /\ UNCHANGED <<kind, flags, data, target, root, weak_refs, gen, coll, kept,
                     scanned, pending, client>>
  BY DEF gen0_scanned
<1>2. H!Live' = H!Live
  BY <1>1, LiveSame
<1>3. TypeOK' /\ Tidy' /\ Phases' /\ NoDangling' /\ ImmutableClosed' /\ Separate'
  BY <1>1 DEF GcInv, TypeOK, H!Value, Tidy, H!Empty, Phases, Collecting, NoDangling, Exists,
              ImmutableClosed, Separate, H!Pointers, H!immutablep, H!readonlyp, Old
<1>4. Passed'
  <2>1. \A v : Lost(v)' <=> Lost(v)
    BY <1>1 DEF Lost, From, Exists
  <2>2. \A r \in Roots : Lost(root[r])' <=> Lost(root[r])
    BY <1>1 DEF Lost, From, Exists
  <2>3. StaysInPlace("major")' = StaysInPlace("major") /\ Unscanned(0)' = Unscanned(0)
    BY <1>1 DEF StaysInPlace, Exists, Unscanned
  <2>4. \A o : H!Pointers(o)' = H!Pointers(o)
    BY <1>1 DEF H!Pointers
  <2> QED BY <1>1, <2>1, <2>2, <2>3, <2>4 DEF GcInv, Passed, Collecting
<1>5. Needed'
  BY <1>1, <1>2 DEF GcInv, Needed, StaysInPlace, Exists
<1>6. Listed'
  BY <1>1 DEF GcInv, Listed
<1> QED BY <1>3, <1>4, <1>5, <1>6 DEF GcInv

LEMMA Gen1Scanned == GcInv /\ gen1_scanned => GcInv'
<1> SUFFICES ASSUME GcInv, gen1_scanned PROVE GcInv'
  OBVIOUS
<1>1. /\ phase = "gen1" /\ Unscanned(1) = {} /\ phase' = "weak" /\ pending' = weak_refs
      /\ UNCHANGED <<kind, flags, data, target, root, weak_refs, gen, coll, kept,
                     scanned, client>>
  BY DEF gen1_scanned
<1>2. H!Live' = H!Live
  BY <1>1, LiveSame
<1>3. TypeOK' /\ Tidy' /\ Phases' /\ NoDangling' /\ ImmutableClosed' /\ Separate'
  BY <1>1 DEF GcInv, TypeOK, H!Value, Tidy, H!Empty, Phases, Collecting, NoDangling, Exists,
              ImmutableClosed, Separate, H!Pointers, H!immutablep, H!readonlyp, Old
<1>4. Passed'
  <2>1. \A v : Lost(v)' <=> Lost(v)
    BY <1>1 DEF Lost, From, Exists
  <2>2. \A r \in Roots : Lost(root[r])' <=> Lost(root[r])
    BY <1>1 DEF Lost, From, Exists
  <2>3. StaysInPlace("major")' = StaysInPlace("major") /\ Unscanned(0)' = Unscanned(0)
    BY <1>1 DEF StaysInPlace, Exists, Unscanned
  <2>4. \A o : H!Pointers(o)' = H!Pointers(o)
    BY <1>1 DEF H!Pointers
  <2>5. kept \subseteq scanned
    <3>1. \A o \in kept : gen[o] \in {0, 1}
      BY DEF GcInv, TypeOK
    <3> QED BY <1>1, <3>1 DEF GcInv, Passed, Collecting, Unscanned
  <2> QED BY <1>1, <2>1, <2>2, <2>3, <2>4, <2>5 DEF GcInv, Passed, Collecting
<1>5. Needed'
  BY <1>1, <1>2 DEF GcInv, Needed, StaysInPlace, Exists
<1>6. Listed'
  BY <1>1 DEF GcInv, Listed
<1> QED BY <1>3, <1>4, <1>5, <1>6 DEF GcInv

-----------------------------------------------------------------------------
(***************************************************************************)
(* Weak references.                                                        *)
(***************************************************************************)
LEMMA WeakStep == ASSUME NEW w \in weak_refs PROVE GcInv /\ forward_weak_ref(w) => GcInv'
<1> SUFFICES ASSUME GcInv, forward_weak_ref(w) PROVE GcInv'
  OBVIOUS
<1>1. /\ phase = "weak" /\ w \in pending /\ pending' = pending \ {w}
      /\ IF Lost(w)
           THEN weak_refs' = weak_refs \ {w} /\ UNCHANGED target
           ELSE /\ target' = IF Lost(target[w]) THEN [target EXCEPT ![w] = GONE] ELSE target
                /\ UNCHANGED weak_refs
      /\ UNCHANGED <<kind, flags, data, root, gen, coll, phase, kept, scanned, client>>
  BY DEF forward_weak_ref
<1>2. H!Live' = H!Live
  BY <1>1, LiveSame
<1>3. /\ coll \in Collections /\ GONE \in H!Value /\ GONE \notin Obj
      /\ w \in Obj /\ target \in [Obj -> H!Value] /\ target' \in [Obj -> H!Value]
      /\ \A v \in Obj : target'[v] = target[v] \/ (v = w /\ target'[v] = GONE)
  BY <1>1, HeapAssumption DEF GcInv, TypeOK, H!Value, Collections
<1>4. TypeOK'
  BY <1>1, <1>3 DEF GcInv, TypeOK, H!Value
<1>5. Tidy' /\ Phases' /\ ImmutableClosed' /\ Separate'
  BY <1>1 DEF GcInv, Tidy, H!Empty, Phases, Collecting, Exists,
              ImmutableClosed, Separate, H!Pointers, H!immutablep, H!readonlyp, Old
<1>6. NoDangling'
  <2>1. NoneGone(kind, data, target, root, weak_refs)
    BY DanglingIs DEF GcInv
  <2>2. weak_refs' \subseteq weak_refs /\ weak_refs \subseteq Obj
    BY <1>1 DEF GcInv, TypeOK
  <2>3. NoneGone(kind, data, target', root, weak_refs')
    BY <1>3, <2>1, <2>2 DEF NoneGone
  <2> QED BY <1>1, <2>3, DanglingNext
<1>7. \A v : Lost(v)' <=> Lost(v)
  BY <1>1 DEF Lost, From, Exists
<1>8. Passed'
  <2>1. \A r \in Roots : Lost(root[r])' <=> Lost(root[r])
    BY <1>1 DEF Lost, From, Exists
  <2>2. StaysInPlace("major")' = StaysInPlace("major") /\ Unscanned(0)' = Unscanned(0)
    BY <1>1 DEF StaysInPlace, Exists, Unscanned
  <2>3. \A o : H!Pointers(o)' = H!Pointers(o)
    BY <1>1 DEF H!Pointers
  <2> QED BY <1>1, <1>7, <2>1, <2>2, <2>3 DEF GcInv, Passed, Collecting
<1>9. Needed'
  BY <1>1, <1>2 DEF GcInv, Needed, StaysInPlace, Exists
<1>10. Listed'
  <2>1. \A v : Lost(v) <=> Dropping(v, coll, kind, gen, kept)
    BY <1>3, LostIs
  <2>2. ASSUME NEW u \in weak_refs', u \notin pending'
        PROVE  ~Lost(u) /\ ~Dropping(target'[u], coll, kind, gen, kept)
    <3>1. CASE u = w
      <4>1. ~Lost(w)
        BY <1>1, <2>2, <3>1
      <4>2. target' = IF Lost(target[w]) THEN [target EXCEPT ![w] = GONE] ELSE target
        BY <1>1, <4>1
      <4>3. CASE Lost(target[w])
        BY <1>3, <3>1, <4>1, <4>2, <4>3 DEF Dropping
      <4>4. CASE ~Lost(target[w])
        BY <2>1, <3>1, <4>1, <4>2, <4>4
      <4> QED BY <4>3, <4>4
    <3>2. CASE u # w
      <4>1. u \in weak_refs \ pending /\ u \in Obj
        BY <1>1, <2>2, <3>2 DEF GcInv, TypeOK
      <4>2. ~Lost(u) /\ ~Lost(target[u]) /\ target'[u] = target[u]
        BY <1>1, <1>3, <3>2, <4>1 DEF GcInv, Listed
      <4> QED BY <2>1, <4>2
    <3> QED BY <3>1, <3>2
  <2>3. \A u \in weak_refs' \ pending' : ~Lost(u)' /\ ~Lost(target[u])'
    <3>1. coll' \in Collections
      BY <1>1, <1>3
    <3>2. \A u : Lost(target[u])' <=> Dropping(target'[u], coll', kind', gen', kept')
      BY <3>1, TargetsNext
    <3> QED BY <1>1, <1>7, <2>2, <3>2
  <2>4. \A u \in weak_refs' : u \in weak_refs
    BY <1>1
  <2>5. \A o \in Obj : kind[o] = "weak" => o \in weak_refs' \/ Lost(o)
    BY <1>1 DEF GcInv, Listed
  <2> QED BY <1>1, <1>7, <2>3, <2>4, <2>5 DEF GcInv, Listed
<1> QED BY <1>4, <1>5, <1>6, <1>8, <1>9, <1>10 DEF GcInv

-----------------------------------------------------------------------------
(***************************************************************************)
(* The end of a collection.                                                *)
(***************************************************************************)
\* What is dropped was of no use to anybody.
LEMMA DropFacts ==
  ASSUME GcInv, Finished
  PROVE  /\ Dropped \subseteq Obj /\ Dropped \cap H!Live = {}
         /\ \A w \in weak_refs : w \notin Dropped /\ target[w] \notin Dropped
         /\ \A r \in Roots : root[r] \notin Dropped
         /\ \A o \in Obj \ Dropped : H!Pointers(o) \cap Dropped = {}
         /\ coll = "minor" => \A o \in Obj \ Dropped : Exists(o) /\ ~Old(o) => o \in kept
         /\ \A o \in Obj \ Dropped : Old(o) => \A p \in H!Pointers(o) : Old(p)
<1>1. phase = "weak" /\ pending = {} /\ coll \in Collections /\ kept \subseteq scanned
  BY DEF Finished, GcInv, TypeOK, Passed, Collecting, Collections
<1>2. \A v : v \in Dropped <=> Lost(v)
  BY DEF Dropped, Lost
<1>3. \A v : v \in Dropped => v \in Obj
  BY <1>1, LostIs
<1>4. Dropped \cap H!Live = {}
  BY <1>1, <1>2, LiveKept
<1>5. \A w \in weak_refs : ~Lost(w) /\ ~Lost(target[w])
  BY <1>1 DEF GcInv, Listed
<1>6. \A r \in Roots : ~Lost(root[r])
  BY <1>1 DEF GcInv, Passed, Collecting
<1>7. ASSUME NEW o \in Obj \ Dropped
      PROVE  H!Pointers(o) \cap Dropped = {}
  <2> SUFFICES ASSUME NEW p \in H!Pointers(o) PROVE ~Lost(p)
    BY <1>2
  <2>1. ~Lost(o)
    BY <1>2
  <2> QED BY <1>1, <2>1, KeptLeads
<1>8. ASSUME coll = "minor", NEW o \in Obj \ Dropped, Exists(o), ~Old(o)
      PROVE  o \in kept
  <2>1. gen[o] \in {0, 1}
    BY DEF GcInv, TypeOK
  <2>2. o \in From(coll)
    BY <1>1, <1>8, <2>1, FromIs DEF Old
  <2> QED BY <1>8, <2>2 DEF Dropped
<1>9. ASSUME NEW o \in Obj \ Dropped, Old(o), NEW p \in H!Pointers(o)
      PROVE  Old(p)
  <2>1. H!immutablep(o)
    BY <1>9 DEF GcInv, Tidy
  <2>2. coll = "minor" => Old(p) \/ (o \notin scanned /\ o \in kept)
    BY <1>9, <2>1 DEF GcInv, Separate
  <2>3. coll # "minor" => Old(p)
    BY <1>9 DEF GcInv, Separate
  <2> QED BY <1>1, <2>2, <2>3
<1> QED BY <1>2, <1>3, <1>4, <1>5, <1>6, <1>7, <1>8, <1>9

LEMMA DropStep ==
  ASSUME GcInv, Finished, Drop, gen' = H!Forget(Dropped, gen, 0),
         kept' = {}, scanned' = {}, pending' = {}, client' \in {"allocate", "detect"},
         \/ phase' \in {"run", "detect"} /\ coll' = "minor"
         \/ phase' = "roots" /\ coll' = "major" /\ coll = "minor"
         \/ phase' = "roots" /\ coll' = "new_major"
  PROVE  GcInv'
<1> DEFINE D == Dropped
<1>1. /\ D \subseteq Obj /\ D \cap H!Live = {}
      /\ \A w \in weak_refs : w \notin D /\ target[w] \notin D
      /\ \A r \in Roots : root[r] \notin D
      /\ \A o \in Obj \ D : H!Pointers(o) \cap D = {}
      /\ coll = "minor" => \A o \in Obj \ D : Exists(o) /\ ~Old(o) => o \in kept
      /\ \A o \in Obj \ D : Old(o) => \A p \in H!Pointers(o) : Old(p)
  BY DropFacts
<1>2. /\ kind' = [o \in Obj |-> IF o \in D THEN "none" ELSE kind[o]]
      /\ flags' = [o \in Obj |-> IF o \in D THEN {} ELSE flags[o]]
      /\ data' = [o \in Obj |-> IF o \in D THEN H!Empty ELSE data[o]]
      /\ target' = [o \in Obj |-> IF o \in D THEN NULL ELSE target[o]]
      /\ gen' = [o \in Obj |-> IF o \in D THEN 0 ELSE gen[o]]
      /\ UNCHANGED <<root, weak_refs>>
  BY DEF Drop, H!Forget
<1> HIDE DEF D
<1>3. \A o \in Obj \ D : /\ kind'[o] = kind[o] /\ flags'[o] = flags[o] /\ data'[o] = data[o]
                         /\ target'[o] = target[o] /\ gen'[o] = gen[o]
  BY <1>2
<1>4. \A o \in D : /\ kind'[o] = "none" /\ flags'[o] = {} /\ data'[o] = H!Empty /\ gen'[o] = 0
  BY <1>1, <1>2
<1>5. H!Live' = H!Live
  <2>1. \A o \in H!Live : o \in Obj \ D
    BY <1>1, LiveIn
  <2> QED BY <1>2, <1>3, <2>1, LiveSame
<1>6. /\ \A o \in Obj \ D : H!Pointers(o)' = H!Pointers(o)
      /\ \A o \in D : H!Pointers(o)' = {}
  <2>1. \A o \in Obj \ D : H!Pointers(o)' = H!Pointers(o)
    BY <1>3 DEF H!Pointers
  <2>2. \A o \in D : \A f \in Fields : data'[o][f] = NULL
    BY <1>4 DEF H!Empty
  <2> QED BY <2>1, <2>2, HeapAssumption DEF H!Pointers
<1>7. TypeOK'
  <2>1. H!Empty \in [Fields -> H!Value] /\ NULL \in H!Value
    BY DEF H!Empty, H!Value
  <2> HIDE DEF H!Empty
  <2> QED BY <1>2, <2>1 DEF GcInv, TypeOK, H!Value
<1>8. Tidy'
  <2> SUFFICES ASSUME NEW o \in Obj
               PROVE  /\ ~Exists(o)' => flags'[o] = {} /\ data'[o] = H!Empty' /\ gen'[o] = 0
                      /\ H!immutablep(o)' => kind'[o] = "record" /\ H!readonlyp(o)'
                      /\ Old(o)' => H!immutablep(o)'
    BY DEF Tidy
  <2>1. H!Empty' = H!Empty
    BY DEF H!Empty
  <2>2. CASE o \in D
    BY <1>4, <2>1, <2>2 DEF Old, H!immutablep
  <2>3. CASE o \notin D
    BY <1>3, <2>1, <2>3 DEF GcInv, Tidy, Old, H!immutablep, H!readonlyp, Exists
  <2> QED BY <2>2, <2>3
<1>9. Phases'
  BY DEF Phases, Collecting
<1>10. NoDangling'
  <2>1. NoneGone(kind, data, target, root, weak_refs)
    BY DanglingIs DEF GcInv
  <2>2. \A r \in Roots : root[r] \in Obj => kind'[root[r]] # "none"
    BY <1>1, <1>3, <2>1 DEF NoneGone
  <2>3. ASSUME NEW o \in Obj, kind'[o] # "none", NEW f \in Fields, data'[o][f] \in Obj
        PROVE  kind'[data'[o][f]] # "none"
    <3>1. o \in Obj \ D /\ data'[o] = data[o] /\ kind[o] # "none"
      BY <1>3, <1>4, <2>3
    <3>2. data[o][f] \in H!Pointers(o)
      BY <2>3, <3>1, PointerTo
    <3>3. data[o][f] \in Obj \ D
      BY <1>1, <2>3, <3>1, <3>2
    <3> QED BY <1>3, <2>1, <3>1, <3>3 DEF NoneGone
  <2>4. ASSUME NEW w \in weak_refs
        PROVE  /\ w \in Obj => kind'[w] # "none"
               /\ target'[w] \in Obj => kind'[target'[w]] # "none"
    <3>1. w \in Obj \ D /\ target'[w] = target[w] /\ target[w] \notin D
      BY <1>1, <1>3 DEF GcInv, TypeOK
    <3> QED BY <1>3, <2>1, <3>1 DEF NoneGone
  <2>5. NoneGone(kind', data', target', root', weak_refs')
    BY <1>2, <2>2, <2>3, <2>4 DEF NoneGone
  <2> QED BY <2>5, DanglingNext
<1>11. ImmutableClosed'
  <2> SUFFICES ASSUME NEW o \in Obj, kind'[o] # "none", "immutable" \in flags'[o],
                      NEW p \in H!Pointers(o)'
               PROVE  p \in Obj => "immutable" \in flags'[p]
    BY DEF ImmutableClosed, H!immutablep, Exists
  <2>1. o \in Obj \ D
    BY <1>4
  <2>2. p \in H!Pointers(o) /\ p \in Obj \ D
    BY <1>1, <1>6, <2>1, PointersIn
  <2>3. "immutable" \in flags[p]
    BY <1>3, <2>1, <2>2 DEF GcInv, ImmutableClosed, H!immutablep, Exists
  <2> QED BY <1>3, <2>2, <2>3
<1>12. Separate'
  <2>1. ASSUME NEW o \in Obj, NEW p \in H!Pointers(o)', gen'[o] = 1
        PROVE  gen'[p] = 1
    <3>1. o \in Obj \ D
      BY <1>4, <2>1
    <3>2. p \in H!Pointers(o) /\ p \in Obj \ D
      BY <1>1, <1>6, <3>1, PointersIn
    <3> QED BY <1>1, <1>3, <2>1, <3>1, <3>2 DEF Old
  <2> QED BY <2>1 DEF Separate, Old
<1>13. Passed'
  BY DEF Passed, Collecting
<1>14. Needed'
  <2>1. ASSUME coll = "minor", NEW o \in StaysInPlace("major")'
        PROVE  o \in H!Live
    <3>1. o \in Obj /\ kind'[o] # "none" /\ gen'[o] = 0
      BY DEF StaysInPlace, Exists
    <3>2. o \in Obj \ D /\ Exists(o) /\ ~Old(o)
      BY <1>3, <1>4, <3>1 DEF Exists, Old
    <3> QED BY <1>1, <2>1, <3>2 DEF GcInv, Needed
  <2> QED BY <1>5, <2>1 DEF Needed
<1>15. Listed'
  <2>1. \A w \in weak_refs : kind'[w] = "weak"
    BY <1>1, <1>3 DEF GcInv, Listed, TypeOK
  <2>2. ASSUME NEW o \in Obj, kind'[o] = "weak"
        PROVE  o \in weak_refs
    <3>1. o \notin D /\ kind[o] = "weak"
      BY <1>3, <1>4, <2>2
    <3> QED BY <3>1 DEF GcInv, Listed, D, Dropped, Lost
  <2> QED BY <1>2, <2>1, <2>2 DEF Listed
<1> QED BY <1>7, <1>8, <1>9, <1>10, <1>11, <1>12, <1>13, <1>14, <1>15 DEF GcInv

LEMMA BackToClient == GcInv /\ back_to_client => GcInv'
<1> SUFFICES ASSUME GcInv, back_to_client PROVE GcInv'
  OBVIOUS
<1>1. /\ Finished /\ Drop /\ gen' = H!Forget(Dropped, gen, 0)
      /\ phase' \in {"run", "detect"} /\ coll' = "minor" /\ client' = "allocate"
      /\ kept' = {} /\ scanned' = {} /\ pending' = {}
  BY DEF back_to_client, Finished
<1> QED BY <1>1, DropStep

LEMMA NextCollection ==
  ASSUME NEW c \in {"major", "new_major"} PROVE GcInv /\ next_collection(c) => GcInv'
<1> SUFFICES ASSUME GcInv, next_collection(c) PROVE GcInv'
  OBVIOUS
<1>1. /\ Finished /\ Drop /\ gen' = H!Forget(Dropped, gen, 0)
      /\ phase' = "roots" /\ coll' = c /\ (c = "major" => coll = "minor")
      /\ client' \in {"allocate", "detect"} /\ kept' = {} /\ scanned' = {} /\ pending' = {}
  BY DEF next_collection, Finished, GcInv, TypeOK
<1> QED BY <1>1, DropStep

LEMMA Starts ==
  /\ \A who \in {"allocate", "detect"} : GcInv /\ garbage_collect(who) => GcInv'
  /\ GcInv /\ forward_roots => GcInv'
<1>1. ASSUME NEW who \in {"allocate", "detect"}, GcInv, garbage_collect(who)
      PROVE  GcInv'
  <2>1. /\ phase = "run" /\ Start("minor") /\ client' = who /\ "minor" \in Collections
        /\ UNCHANGED <<kind, flags, data, target, root, weak_refs>>
    BY <1>1 DEF garbage_collect, Collections
  <2>2. client' \in {"allocate", "detect"}
    BY <1>1, <2>1
  <2> QED BY <1>1, <2>1, <2>2, StartStep
<1>2. ASSUME GcInv, forward_roots
      PROVE  GcInv'
  <2>1. coll \in Collections /\ client \in {"allocate", "detect"}
    BY <1>2 DEF GcInv, TypeOK, Collections
  <2> QED BY <1>2, <2>1, StartStep DEF forward_roots
<1> QED BY <1>1, <1>2

(***************************************************************************)
(* detect_immutability().                                                  *)
(***************************************************************************)
\* Each object it finds leads only to immutable ones and others it finds.
LEMMA DetectedFacts ==
  ASSUME NEW o \in Detected, "immutable" \notin flags[o]
  PROVE  /\ o \in Obj /\ kind[o] = "record" /\ H!readonlyp(o)
         /\ H!Pointers(o) \subseteq Detected
<1> DEFINE Rule(p, I) == /\ kind[p] = "record" /\ gen[p] = 0 /\ H!readonlyp(p)
                         /\ H!Pointers(p) \ {p} \subseteq I
           Found(I) == /\ {p \in Obj : "immutable" \in flags[p]} \subseteq I
                       /\ \A p \in Obj : Rule(p, I) => p \in I
           I0 == {p \in Detected : "immutable" \in flags[p] \/ Rule(p, Detected)}
<1>1. Detected = {p \in Obj : \A I \in SUBSET Obj : Found(I) => p \in I}
  BY DEF Detected
<1>2. Found(Detected)
  <2>1. ASSUME NEW p \in Obj, Rule(p, Detected)
        PROVE  p \in Detected
    <3> SUFFICES ASSUME NEW I \in SUBSET Obj, Found(I) PROVE p \in I
      BY <1>1
    <3>1. Detected \subseteq I
      BY <1>1
    <3>2. Rule(p, I)
      BY <2>1, <3>1
    <3> QED BY <3>2
  <2>2. ASSUME NEW p \in Obj, "immutable" \in flags[p] PROVE p \in Detected
    BY <1>1, <2>2
  <2> HIDE DEF Rule
  <2> QED BY <2>1, <2>2
<1>3. Found(I0)
  <2>1. I0 \subseteq Detected
    OBVIOUS
  <2>2. \A p \in Obj : Rule(p, I0) => Rule(p, Detected)
    BY <2>1
  <2> QED BY <1>2, <2>2
<1>4. I0 \in SUBSET Obj
  BY <1>1
<1>5. o \in I0
  <2> HIDE DEF Found, I0
  <2> QED BY <1>1, <1>3, <1>4
<1> QED BY <1>1, <1>5

LEMMA DetectStep == GcInv /\ detect_immutability => GcInv'
<1> SUFFICES ASSUME GcInv, detect_immutability PROVE GcInv'
  OBVIOUS
<1>1. /\ phase = "detect" /\ phase' = "run"
      /\ flags' = [o \in Obj |-> IF o \in Detected THEN flags[o] \cup {"immutable"} ELSE flags[o]]
      /\ UNCHANGED <<kind, data, target, root, weak_refs, gen, coll, kept, scanned,
                     pending, client>>
  BY DEF detect_immutability, H!AddFlag
<1>2. RunInv
  BY <1>1, RunFacts
<1>3. flags \in [Obj -> SUBSET {"readonly", "immutable"}]
  BY <1>2 DEF RunInv, HeapTypes
<1>4. \A o \in Obj : "immutable" \notin flags[o] /\ o \in Detected =>
        kind[o] = "record" /\ "readonly" \in flags[o] /\ H!Pointers(o) \subseteq Detected
  BY DetectedFacts DEF H!readonlyp
<1>5. flags' \in [Obj -> SUBSET {"readonly", "immutable"}]
  BY <1>1, <1>3
<1>6. \A o \in Obj : flags[o] \subseteq flags'[o] /\ (~Exists(o) => flags'[o] = {})
  <2> TAKE o \in Obj
  <2>1. flags[o] \subseteq flags'[o]
    BY <1>1
  <2>2. ~Exists(o) => flags[o] = {} /\ o \notin Detected
    BY <1>2, <1>4 DEF RunInv, Tidy, Exists
  <2> QED BY <1>1, <2>1, <2>2
<1>7. ASSUME NEW o \in Obj, "immutable" \in flags'[o] \ flags[o]
      PROVE  /\ kind[o] = "record" /\ "readonly" \in flags'[o]
             /\ \A p \in H!Pointers(o) : "immutable" \in flags'[p]
  <2>1. o \in Detected /\ "immutable" \notin flags[o]
    BY <1>1, <1>7
  <2> QED BY <1>1, <1>4, <2>1, PointersIn
<1>8. RunInv'
  BY <1>1, <1>2, <1>5, <1>6, <1>7, FlagsAdded
<1> QED BY <1>1, <1>8, RunStep

-----------------------------------------------------------------------------
(***************************************************************************)
(* The invariant.                                                          *)
(***************************************************************************)
LEMMA GcInit == Init => GcInv
<1> SUFFICES ASSUME Init PROVE GcInv
  OBVIOUS
<1>1. /\ kind = [o \in Obj |-> "none"] /\ flags = [o \in Obj |-> {}]
      /\ data = [o \in Obj |-> H!Empty] /\ target = [o \in Obj |-> NULL]
      /\ root = [r \in Roots |-> NULL] /\ weak_refs = {}
      /\ gen = [o \in Obj |-> 0] /\ coll = "minor" /\ phase = "run" /\ client = "allocate"
      /\ kept = {} /\ scanned = {} /\ pending = {}
  BY DEF Init, H!Init
<1>2. NULL \in H!Value /\ H!Empty \in [Fields -> H!Value] /\ \A f \in Fields : H!Empty[f] = NULL
  BY DEF H!Value, H!Empty
<1>3. ASSUME NEW o \in Obj
      PROVE  ~Exists(o) /\ ~H!immutablep(o) /\ ~Old(o) /\ kind[o] # "weak"
  <2>1. kind[o] = "none" /\ flags[o] = {} /\ gen[o] = 0
    BY <1>1
  <2> QED BY <2>1 DEF Exists, H!immutablep, Old
<1>4. TypeOK
  <2> HIDE DEF H!Value, H!Empty
  <2> QED BY <1>1, <1>2 DEF TypeOK
<1>5. Tidy
  <2> SUFFICES ASSUME NEW o \in Obj
               PROVE  flags[o] = {} /\ data[o] = H!Empty /\ gen[o] = 0
    BY <1>3, Zenon DEF Tidy
  <2>1. flags[o] = {} /\ gen[o] = 0
    BY <1>1
  <2>2. data[o] = H!Empty
    BY <1>1, Zenon
  <2> QED BY <2>1, <2>2
<1>6. Phases /\ Passed /\ Needed
  BY <1>1 DEF Phases, Passed, Needed, Collecting
<1>7. NoDangling /\ ImmutableClosed
  BY <1>1, <1>3, HeapAssumption DEF NoDangling, ImmutableClosed
<1>8. Separate
  BY <1>1, <1>3 DEF Separate
<1>9. Listed
  BY <1>1, <1>3 DEF Listed
<1> QED BY <1>4, <1>5, <1>6, <1>7, <1>8, <1>9 DEF GcInv

LEMMA GcSame == GcInv /\ UNCHANGED vars => GcInv'
<1> SUFFICES ASSUME GcInv, UNCHANGED vars PROVE GcInv'
  OBVIOUS
<1>1. UNCHANGED <<kind, flags, data, target, root, weak_refs, gen, coll, phase, kept,
                  scanned, pending, client>>
  BY DEF vars
<1>2. H!Live' = H!Live
  BY <1>1, LiveSame
<1>3. TypeOK' /\ Tidy' /\ Phases' /\ NoDangling' /\ ImmutableClosed' /\ Separate'
  BY <1>1 DEF GcInv, TypeOK, H!Value, Tidy, H!Empty, Phases, Collecting, NoDangling, Exists,
              ImmutableClosed, Separate, H!Pointers, H!immutablep, H!readonlyp, Old
<1>4. /\ \A v : Lost(v)' <=> Lost(v)
      /\ \A r \in Roots : Lost(root[r])' <=> Lost(root[r])
      /\ \A w : Lost(target[w])' <=> Lost(target[w])
  BY <1>1 DEF Lost, From, Exists
<1>5. /\ StaysInPlace("major")' = StaysInPlace("major") /\ Unscanned(0)' = Unscanned(0)
      /\ \A o : H!Pointers(o)' = H!Pointers(o)
  BY <1>1 DEF StaysInPlace, Exists, Unscanned, H!Pointers
<1>6. Passed'
  BY <1>1, <1>4, <1>5 DEF GcInv, Passed, Collecting
<1>7. Needed'
  BY <1>1, <1>2, <1>5 DEF GcInv, Needed
<1>8. Listed'
  BY <1>1, <1>4 DEF GcInv, Listed
<1> QED BY <1>3, <1>6, <1>7, <1>8 DEF GcInv

LEMMA GcNext == GcInv /\ [Next]_vars => GcInv'
<1> SUFFICES ASSUME GcInv, [Next]_vars PROVE GcInv'
  OBVIOUS
<1>1. CASE Program
  BY <1>1, ProgramStep
<1>2. CASE \E who \in {"allocate", "detect"} : garbage_collect(who)
  BY <1>2, Starts
<1>3. ASSUME NEW o \in Obj, scan_gen0(o) PROVE GcInv'
  BY <1>3, ScanGen0
<1>4. ASSUME NEW o \in Obj, scan_gen1(o) PROVE GcInv'
  BY <1>4, ScanGen1
<1>5. CASE gen0_scanned
  BY <1>5, Gen0Scanned
<1>6. CASE gen1_scanned
  BY <1>6, Gen1Scanned
<1>7. ASSUME NEW w \in weak_refs, forward_weak_ref(w) PROVE GcInv'
  BY <1>7, WeakStep
<1>8. CASE back_to_client
  BY <1>8, BackToClient
<1>9. ASSUME NEW c \in {"major", "new_major"}, next_collection(c) PROVE GcInv'
  BY <1>9, NextCollection
<1>10. CASE forward_roots
  BY <1>10, Starts
<1>11. CASE detect_immutability
  BY <1>11, DetectStep
<1>12. CASE UNCHANGED vars
  BY <1>12, GcSame
<1> QED BY <1>1, <1>2, <1>3, <1>4, <1>5, <1>6, <1>7, <1>8, <1>9, <1>10, <1>11, <1>12
        DEF Next, Collector

\* Whatever the program and the collector do, the heap stays in order.
THEOREM GcSafety == Spec => []GcInv
<1>1. Init => GcInv
  BY GcInit
<1>2. GcInv /\ [Next]_vars => GcInv'
  BY GcNext
<1> QED BY <1>1, <1>2, PTL DEF Spec

(***************************************************************************)
(* What follows from it.                                                   *)
(***************************************************************************)
\* Nothing that the program or a later collection may follow leads to memory
\* that the collector gave up.
THEOREM HeapIntact == Spec => []NoDangling
<1>1. GcInv => NoDangling
  BY DEF GcInv
<1> QED BY <1>1, GcSafety, PTL

\* An immutable object contains only immutable objects, also in the middle of
\* a collection: the comment on OBJ_IMMUTABLE (mvalues.h).
THEOREM ImmutableAllTheWay == Spec => []ImmutableClosed
<1>1. GcInv => ImmutableClosed
  BY DEF GcInv
<1> QED BY <1>1, GcSafety, PTL

\* The collector needs no write barrier.
THEOREM NoBarrierNeeded == Spec => []GenerationsSeparate
<1>1. GcInv => GenerationsSeparate
  <2> SUFFICES ASSUME GcInv, phase = "run", NEW o \in Obj, gen[o] = 1
               PROVE  H!immutablep(o) /\ \A p \in H!Pointers(o) : gen[p] = 1
    BY DEF GenerationsSeparate
  <2>1. RunInv
    BY RunFacts
  <2> QED BY <2>1 DEF RunInv, Tidy, Old
<1> QED BY <1>1, GcSafety, PTL

\* The list holds the weak references that exist, so each one is finalised
\* once.
THEOREM WeakReferencesListed == Spec => []WeakListed
<1>1. GcInv => WeakListed
  BY RunFacts DEF WeakListed, RunInv
<1> QED BY <1>1, GcSafety, PTL

\* The scan is complete.
THEOREM ScanComplete == Spec => []AllScanned
<1>1. GcInv => AllScanned
  BY DEF GcInv, Passed, Collecting, AllScanned
<1> QED BY <1>1, GcSafety, PTL

\* A major collection keeps what is live and nothing else, and no weak
\* reference is left to an object that only weak references reach.
THEOREM CollectionExact == Spec => []Exact
<1>1. GcInv => Exact
  <2> SUFFICES ASSUME GcInv, Finished, coll # "minor"
               PROVE  /\ kept = H!Live
                      /\ \A w \in weak_refs : target[w] \in Obj => target[w] \in H!Live
    BY DEF Exact
  <2>1. phase = "weak" /\ pending = {} /\ coll \in Collections
    BY DEF Finished, GcInv, TypeOK, Collections
  <2>2. ASSUME NEW v \in Obj, Exists(v), ~Lost(v)
        PROVE  v \in kept
    <3>1. CASE v \in From(coll)
      BY <2>2, <3>1 DEF Lost
    <3>2. CASE v \notin From(coll)
      <4>1. coll = "major" /\ gen[v] # 1
        BY <2>1, <2>2, <3>2, FromIs DEF Collections
      <4>2. v \in StaysInPlace("major")
        BY <2>2, <4>1 DEF GcInv, TypeOK, StaysInPlace
      <4> QED BY <2>1, <4>1, <4>2 DEF GcInv, Passed, Collecting
    <3> QED BY <3>1, <3>2
  <2>3. \A v \in H!Live : v \in Obj /\ Exists(v)
    <3> DEFINE C == {o \in Obj : Exists(o)}
    <3>1. \A r \in Roots : root[r] \in Obj => root[r] \in C
      BY DEF GcInv, NoDangling
    <3>2. ASSUME NEW o \in C, NEW p \in H!Pointers(o)
          PROVE  p \in C
      BY PointersIn DEF GcInv, NoDangling
    <3>3. C \in SUBSET Obj
      OBVIOUS
    <3>4. H!Live \subseteq C
      <4> HIDE DEF C
      <4> QED BY <3>1, <3>2, <3>3, LiveLeast
    <3> QED BY <3>4
  <2>4. kept = H!Live
    BY <2>1, <2>2, <2>3, LiveKept DEF GcInv, Needed
  <2>5. ASSUME NEW w \in weak_refs, target[w] \in Obj
        PROVE  target[w] \in H!Live
    <3>1. Exists(target[w]) /\ ~Lost(target[w])
      BY <2>1, <2>5 DEF GcInv, NoDangling, Listed
    <3> QED BY <2>2, <2>4, <2>5, <3>1
  <2> QED BY <2>4, <2>5
<1> QED BY <1>1, GcSafety, PTL

-----------------------------------------------------------------------------
(***************************************************************************)
(* The collector implements Heap: each of its steps is one of the memory   *)
(* manager's, or nothing that the program can see.                         *)
(***************************************************************************)
LEMMA Unseen == UNCHANGED <<kind, flags, data, target, root, weak_refs>> => UNCHANGED H!heap
BY DEF H!heap

\* What a minor collection finds out about an object
LEMMA ScanManages ==
  ASSUME GcInv, NEW o \in Obj, scan_gen0(o)
  PROVE  H!Next \/ UNCHANGED H!heap
<1>1. UNCHANGED <<kind, data, target, root, weak_refs>>
  BY DEF scan_gen0
<1>2. CASE coll = "minor" /\ FoundImmutable(o)
  <2>1. /\ kind[o] = "record" /\ flags[o] = {"readonly"} /\ \A p \in H!Pointers(o) : gen'[p] = 1
        /\ flags' = H!AddFlag("immutable", {o})
    BY <1>2 DEF scan_gen0, FoundImmutable
  <2>2. ASSUME NEW p \in H!Pointers(o), p # o
        PROVE  H!immutablep(p)
    <3>1. p \in Obj /\ gen'[p] = 1 /\ flags'[p] = flags[p]
      BY <2>1, <2>2, PointersIn DEF H!AddFlag
    <3>2. GcInv'
      BY ScanGen0
    <3>3. H!immutablep(p)'
      BY <3>1, <3>2 DEF GcInv, Tidy, Old
    <3> QED BY <3>1, <3>3 DEF H!immutablep
  <2>3. H!MakeImmutable({o})
    <3>1. H!readonlyp(o)
      BY <2>1 DEF H!readonlyp
    <3> QED BY <1>1, <2>1, <2>2, <3>1 DEF H!MakeImmutable
  <2> QED BY <2>3 DEF H!Next, H!Manager
<1>3. CASE ~(coll = "minor" /\ FoundImmutable(o))
  <2>1. flags' = flags
    BY <1>3 DEF scan_gen0
  <2> QED BY <1>1, <2>1, Unseen
<1> QED BY <1>2, <1>3

\* A weak reference that is dropped, or whose object is
LEMMA WeakManages ==
  ASSUME GcInv, NEW w \in weak_refs, forward_weak_ref(w)
  PROVE  H!Next \/ UNCHANGED H!heap
<1>1. /\ phase = "weak" /\ UNCHANGED <<kind, flags, data, root>>
      /\ IF Lost(w)
           THEN weak_refs' = weak_refs \ {w} /\ UNCHANGED target
           ELSE /\ target' = IF Lost(target[w]) THEN [target EXCEPT ![w] = GONE] ELSE target
                /\ UNCHANGED weak_refs
  BY DEF forward_weak_ref
<1>2. \A v : Lost(v) => v \in Obj \ H!Live
  <2>1. coll \in Collections
    BY DEF GcInv, TypeOK, Collections
  <2>2. \A v : Lost(v) => v \in Obj
    BY <2>1, LostIs DEF Dropping
  <2> QED BY <1>1, <2>2, LiveKept
<1>3. CASE Lost(w)
  <2>1. H!Finalize(w)
    BY <1>1, <1>2, <1>3 DEF H!Finalize
  <2> QED BY <2>1 DEF H!Next, H!Manager
<1>4. CASE ~Lost(w) /\ Lost(target[w])
  <2>1. H!ClearWeak(w)
    BY <1>1, <1>2, <1>4 DEF H!ClearWeak
  <2> QED BY <2>1 DEF H!Next, H!Manager
<1>5. CASE ~Lost(w) /\ ~Lost(target[w])
  BY <1>1, <1>5, Unseen
<1> QED BY <1>3, <1>4, <1>5

\* What is not kept
LEMMA DropManages ==
  ASSUME GcInv, Finished, Drop
  PROVE  H!Next
<1> DEFINE D == Dropped
<1>1. /\ D \subseteq Obj /\ D \cap H!Live = {}
      /\ \A w \in weak_refs : w \notin D /\ target[w] \notin D
      /\ \A o \in Obj \ D : H!Pointers(o) \cap D = {}
  BY DropFacts
<1>2. /\ kind' = H!Forget(D, kind, "none") /\ flags' = H!Forget(D, flags, {})
      /\ data' = H!Forget(D, data, H!Empty) /\ target' = H!Forget(D, target, NULL)
      /\ UNCHANGED <<root, weak_refs>>
  BY DEF Drop
<1> HIDE DEF D
<1>3. D \cap (H!Live \cup weak_refs) = {}
  BY <1>1
<1>4. H!Reclaim(D)
  BY <1>1, <1>2, <1>3 DEF H!Reclaim
<1> QED BY <1>1, <1>4 DEF H!Next, H!Manager

\* What detect_immutability() finds out
LEMMA DetectManages ==
  ASSUME GcInv, detect_immutability
  PROVE  H!Next
<1>1. flags' = H!AddFlag("immutable", Detected) /\ UNCHANGED <<kind, data, target, root, weak_refs>>
  BY DEF detect_immutability
<1>2. Detected \subseteq Obj
  BY DEF Detected
<1>3. ASSUME NEW o \in Detected
      PROVE  /\ kind[o] = "record" /\ H!readonlyp(o)
             /\ \A p \in H!Pointers(o) : p \in Detected \/ H!immutablep(p)
  <2>1. CASE "immutable" \in flags[o]
    <3>1. H!immutablep(o) /\ o \in Obj
      BY <1>2, <2>1 DEF H!immutablep
    <3>2. kind[o] = "record" /\ H!readonlyp(o)
      BY <3>1 DEF GcInv, Tidy
    <3>3. Exists(o)
      BY <3>2 DEF Exists
    <3> QED BY <3>1, <3>2, <3>3 DEF GcInv, ImmutableClosed
  <2>2. CASE "immutable" \notin flags[o]
    BY <2>2, DetectedFacts
  <2> QED BY <2>1, <2>2
<1>4. H!MakeImmutable(Detected)
  BY <1>1, <1>3 DEF H!MakeImmutable
<1> QED BY <1>2, <1>4 DEF H!Next, H!Manager

LEMMA StepManages == GcInv /\ [Next]_vars => [H!Next]_(H!heap)
<1> SUFFICES ASSUME GcInv, [Next]_vars PROVE H!Next \/ UNCHANGED H!heap
  OBVIOUS
<1>1. CASE Program
  BY <1>1 DEF Program, H!Next
<1>2. ASSUME NEW who \in {"allocate", "detect"}, garbage_collect(who)
      PROVE  UNCHANGED H!heap
  BY <1>2, Unseen DEF garbage_collect
<1>3. ASSUME NEW o \in Obj, scan_gen0(o)
      PROVE  H!Next \/ UNCHANGED H!heap
  BY <1>3, ScanManages
<1>4. ASSUME NEW o \in Obj, scan_gen1(o)
      PROVE  UNCHANGED H!heap
  BY <1>4, Unseen DEF scan_gen1
<1>5. CASE gen0_scanned \/ gen1_scanned
  BY <1>5, Unseen DEF gen0_scanned, gen1_scanned
<1>6. ASSUME NEW w \in weak_refs, forward_weak_ref(w)
      PROVE  H!Next \/ UNCHANGED H!heap
  BY <1>6, WeakManages
<1>7. CASE back_to_client
  BY <1>7, DropManages DEF back_to_client
<1>8. ASSUME NEW c \in {"major", "new_major"}, next_collection(c)
      PROVE  H!Next
  BY <1>8, DropManages DEF next_collection
<1>9. CASE forward_roots
  BY <1>9, Unseen DEF forward_roots
<1>10. CASE detect_immutability
  BY <1>10, DetectManages
<1>11. CASE UNCHANGED vars
  BY <1>11, Unseen DEF vars
<1> QED BY <1>1, <1>2, <1>3, <1>4, <1>5, <1>6, <1>7, <1>8, <1>9, <1>10, <1>11
        DEF Next, Collector

\* The program cannot tell that there is a collector.
THEOREM Refinement == Spec => ImplementsHeap
<1>1. Init => H!Init
  BY DEF Init
<1>2. GcInv /\ [Next]_vars => [H!Next]_(H!heap)
  BY StepManages
<1> QED BY <1>1, <1>2, GcSafety, PTL DEF Spec, ImplementsHeap, H!Spec
=============================================================================

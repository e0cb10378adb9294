-------------------------------- MODULE Heap --------------------------------
(***************************************************************************)
(* What mudlle's heap promises to the program: a graph of objects that the *)
(* program changes, where memory comes back only from objects it can no    *)
(* longer reach, weak references are cleared only when their object is     *)
(* unreachable, and immutability only spreads over closed sets of          *)
(* read-only objects.  There are no generations and no collections here;   *)
(* GcHeap implements this specification.                                   *)
(***************************************************************************)
CONSTANTS
  Obj,     \* object names
  Roots,   \* protected C variables (GCPRO, static roots, call stack)
  Fields,  \* fields of a record
  NULL,    \* any value that is not a pointer
  GONE     \* static_gone, what a cleared weak reference holds

VARIABLES
  kind,      \* "none" (no such object), "record" or "weak"
  flags,     \* OBJ_READONLY and OBJ_IMMUTABLE
  data,      \* fields of records
  target,    \* struct mweak_ref.v
  root,      \* values of the roots
  weak_refs  \* the list of weak references that the collector knows

heap == <<kind, flags, data, target, root, weak_refs>>

Value   == Obj \cup {NULL, GONE}
Unused  == {o \in Obj : kind[o] = "none"}
Empty   == [f \in Fields |-> NULL]

\* mtemps, pairs, vectors, symbols, ...: everything that scan() looks into.
Pointers(o)  == {data[o][f] : f \in Fields} \cap Obj
readonlyp(v)  == v \in Obj => "readonly" \in flags[v]
immutablep(v) == v \in Obj => "immutable" \in flags[v]

\* The objects found by following fields (never weak references) from S.
Closed(C) == \A o \in C : Pointers(o) \subseteq C
Reach(S)  == {o \in Obj : \A C \in SUBSET Obj : S \subseteq C /\ Closed(C) => o \in C}
Live      == Reach({root[r] : r \in Roots} \cap Obj)

Init ==
  /\ kind = [o \in Obj |-> "none"]
  /\ flags = [o \in Obj |-> {}]
  /\ data = [o \in Obj |-> Empty]
  /\ target = [o \in Obj |-> NULL]
  /\ root = [r \in Roots |-> NULL]
  /\ weak_refs = {}

(***************************************************************************)
(* The program.                                                            *)
(***************************************************************************)
allocate(o, k, fl, d, t, r) ==
  /\ kind[o] = "none"
  /\ kind' = [kind EXCEPT ![o] = k]
  /\ flags' = [flags EXCEPT ![o] = fl]
  /\ data' = [data EXCEPT ![o] = d]
  /\ target' = [target EXCEPT ![o] = t]
  /\ root' = [root EXCEPT ![r] = o]

allocate_record(o, r) ==
  /\ allocate(o, "record", {}, Empty, NULL, r)
  /\ UNCHANGED weak_refs

\* A read-only object made from the values of roots; it is immutable at once
\* when everything it contains is.
pcons(o, r, from) ==
  LET d == [f \in Fields |-> root[from[f]]] IN
  /\ allocate(o, "record",
              {"readonly"} \cup {i \in {"immutable"} : \A f \in Fields : immutablep(d[f])},
              d, NULL, r)
  /\ UNCHANGED weak_refs

weak_ref(o, r, s) ==
  /\ allocate(o, "weak", {}, Empty, root[s], r)
  /\ weak_refs' = weak_refs \cup {o}

weak_deref(r, s) ==
  /\ root[s] \in Obj /\ kind[root[s]] = "weak"
  /\ root' = [root EXCEPT ![r] = target[root[s]]]
  /\ UNCHANGED <<kind, flags, data, target, weak_refs>>

IsRecord(v) == v \in Obj /\ kind[v] = "record"

get(r, s, f) ==
  /\ IsRecord(root[s])
  /\ root' = [root EXCEPT ![r] = data[root[s]][f]]
  /\ UNCHANGED <<kind, flags, data, target, weak_refs>>

set(r, f, s) ==
  /\ IsRecord(root[r]) /\ ~readonlyp(root[r])
  /\ data' = [data EXCEPT ![root[r]][f] = root[s]]
  /\ UNCHANGED <<kind, flags, target, root, weak_refs>>

drop(r) ==
  /\ root' = [root EXCEPT ![r] = NULL]
  /\ UNCHANGED <<kind, flags, data, target, weak_refs>>

AddFlag(fl, S) == [o \in Obj |-> IF o \in S THEN flags[o] \cup {fl} ELSE flags[o]]

protect(r) ==
  /\ root[r] \in Obj
  /\ flags' = AddFlag("readonly", {root[r]})
  /\ UNCHANGED <<kind, data, target, root, weak_refs>>

\* Mutant: the object's contents are not looked at.
CanBeImmutable_Shallow(o) == kind[o] = "record" /\ flags[o] = {"readonly"}

\* The test of try_make_immutable(): nothing mutable inside, but for itself.
CanBeImmutable(o) ==
  /\ kind[o] = "record" /\ flags[o] = {"readonly"}
  /\ \A p \in Pointers(o) \ {o} : immutablep(p)

check_immutable(r) ==
  /\ root[r] \in Obj /\ CanBeImmutable(root[r])
  /\ flags' = AddFlag("immutable", {root[r]})
  /\ UNCHANGED <<kind, data, target, root, weak_refs>>

\* rprotect() makes everything up to the first immutable objects read-only.
\* The parts that hold no mutable leaf become immutable, those on a cycle of
\* several objects only if there is no such leaf anywhere.
Visited(v)   == {o \in Obj : \A C \in SUBSET Obj :
                   /\ v \in C
                   /\ \A p \in C : ~immutablep(p) => Pointers(p) \subseteq C
                   => o \in C}
Leafless(v)  == \A o \in Visited(v) : kind[o] = "record" \/ immutablep(o)
OnCycle(o)   == \E p \in Pointers(o) \ {o} : ~immutablep(p) /\ o \in Visited(p)
RYes(v)      == {o \in Visited(v) : /\ Leafless(o)
                                    /\ \/ Leafless(v)
                                       \/ \A p \in Visited(o) : ~OnCycle(p)}
rprotect(r) ==
  /\ root[r] \in Obj
  /\ flags' = [o \in Obj |->
                 flags[o] \cup {fl \in {"readonly"} : o \in Visited(root[r])}
                          \cup {fl \in {"immutable"} : o \in RYes(root[r])}]
  /\ UNCHANGED <<kind, data, target, root, weak_refs>>

Program ==
  \/ \E o \in Obj, r \in Roots :
       \/ allocate_record(o, r)
       \/ \E from \in [Fields -> Roots] : pcons(o, r, from)
       \/ \E s \in Roots : weak_ref(o, r, s)
  \/ \E r, s \in Roots : weak_deref(r, s)
  \/ \E r, s \in Roots, f \in Fields : get(r, s, f) \/ set(r, f, s)
  \/ \E r \in Roots : drop(r) \/ protect(r) \/ check_immutable(r) \/ rprotect(r)

(***************************************************************************)
(* What the memory manager may do behind the program's back.               *)
(***************************************************************************)
MakeImmutable(S) ==
  /\ \A o \in S : /\ kind[o] = "record" /\ readonlyp(o)
                  /\ \A p \in Pointers(o) : p \in S \/ immutablep(p)
  /\ flags' = AddFlag("immutable", S)
  /\ UNCHANGED <<kind, data, target, root, weak_refs>>

ClearWeak(w) ==
  /\ w \in weak_refs /\ target[w] \in Obj \ Live
  /\ target' = [target EXCEPT ![w] = GONE]
  /\ UNCHANGED <<kind, flags, data, root, weak_refs>>

Finalize(w) ==                                     \* the reference's cbfree()
  /\ w \in weak_refs \ Live
  /\ weak_refs' = weak_refs \ {w}
  /\ UNCHANGED <<kind, flags, data, target, root>>

Forget(S, fn, v) == [o \in Obj |-> IF o \in S THEN v ELSE fn[o]]

Reclaim(S) ==
  /\ S \cap (Live \cup weak_refs) = {}
  /\ \A w \in weak_refs : target[w] \notin S
  /\ \A o \in Obj \ S : Pointers(o) \cap S = {}
  /\ kind' = Forget(S, kind, "none")
  /\ flags' = Forget(S, flags, {})
  /\ data' = Forget(S, data, Empty)
  /\ target' = Forget(S, target, NULL)
  /\ UNCHANGED <<root, weak_refs>>

Manager ==
  \/ \E S \in SUBSET Obj : MakeImmutable(S) \/ Reclaim(S)
  \/ \E w \in weak_refs : ClearWeak(w) \/ Finalize(w)

Next == Program \/ Manager

Spec == Init /\ [][Next]_heap
=============================================================================

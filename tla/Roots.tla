------------------------------- MODULE Roots --------------------------------
(***************************************************************************)
(* Objects that C code holds, and objects it gives back (alloc.c).  A C    *)
(* variable is protected by gcpro or is a static root, an object in a C    *)
(* structure by a dynpro, the local variables of an interpreted function   *)
(* by its frame: a vector, and the variables in it.  The vector is given   *)
(* back by gc_free() when the function returns, and handed out again by    *)
(* gc_allocate() and allocate_locals(); the variables are not, for         *)
(* closures may have captured them.  A collection copies what is held,     *)
(* updates who holds it and forgets the free lists.  Here a block is held  *)
(* or not; what blocks point to is otherwise in GcHeap.                    *)
(***************************************************************************)
EXTENDS Integers, SequencesExt

CONSTANTS CVars, roots,      \* C variables, and the static roots in their order
          Nodes, Maybe,     \* dynpros, and those used with maybe_dynpro()
          HEAD, UNLINKED,
          FREE_SIZES,       \* 12 in the code
          Sizes,            \* how many fields an object, and locals a function, may have
          Capacity,         \* words of generation 0
          MaxRunning, MaxProtected   \* bounds on the stacks

VARIABLES heap,         \* generation 0: the blocks in the order of allocation
          free_lists,   \* for each size the place of a free block, or 0
          locals,       \* of each running function with locals, their vector and then they
          bases,        \* for each running function how much of locals is before its own
          gcpro,        \* the protected variables, the last one first to go
          var,          \* what each C variable points to
          dyn           \* the dynpros, a list in both directions

root_vars == <<heap, free_lists, locals, bases, gcpro, var, dyn>>

RootsAssumptions ==
  /\ roots \in Seq(CVars)
  /\ IsFiniteSet(Nodes) /\ Maybe \subseteq Nodes /\ HEAD \notin Nodes \cup {UNLINKED} /\ UNLINKED \notin Nodes
  /\ FREE_SIZES \in Nat /\ Sizes \subseteq Nat

\* `who' is history: everyone who holds this very object
Block(n, r) == [len |-> n, free |-> FALSE, next |-> 0, who |-> {r}]
Unheld(h, R) == [p \in DOMAIN h |-> [h[p] EXCEPT !.who = @ \ R]]
HeldAt(h, p, r) == [q \in DOMAIN h |-> [h[q] EXCEPT !.who = IF q = p THEN @ \cup {r} ELSE @ \ {r}]]
With(h, p, b) == [q \in DOMAIN h |-> IF q = p THEN b ELSE h[q]]
Var(v) == <<"var", v>>
Dyn(d) == <<"dyn", d>>
Local(i) == <<"frame", i>>
Words(h) == LET upto[n \in 0..Len(h)] == IF n = 0 THEN 0 ELSE upto[n - 1] + 1 + h[n].len
            IN upto[Len(h)]
Protected(g) == ToSet(roots) \cup ToSet(g)
Linked == {d \in Nodes : dyn[d].next # UNLINKED}

RootsInit ==
  /\ heap = <<>> /\ free_lists = [s \in 0..(FREE_SIZES - 1) |-> 0]
  /\ locals = <<>> /\ bases = <<>> /\ gcpro = <<>> /\ var = [v \in CVars |-> 0]
  /\ dyn = [d \in Nodes \cup {HEAD} |->
              IF d = HEAD THEN [next |-> HEAD, prev |-> HEAD, obj |-> 0]
              ELSE [next |-> UNLINKED, prev |-> UNLINKED, obj |-> 0]]

(***************************************************************************)
(* Collection.  The state of one is the new heap, the new places of the    *)
(* blocks that have been moved, and the variables with the marks that keep *)
(* one that is protected twice from being forwarded twice.                 *)
(***************************************************************************)
Move(S, p) ==
  IF p = 0 \/ S.fwd[p] # 0 THEN S
  ELSE [S EXCEPT !.new = Append(@, heap[p]), !.fwd[p] = Len(S.new) + 1]

\* Mutant: no marks
safe_forward_Unmarked(S, v) ==
  LET T == Move(S, S.var[v]) IN
  IF S.var[v] = 0 THEN S ELSE [T EXCEPT !.var[v] = T.fwd[S.var[v]]]
safe_forward(S, v) ==
  LET T == Move(S, S.var[v]) IN
  IF S.var[v] = 0 \/ v \in S.marked THEN S
  ELSE [T EXCEPT !.var[v] = T.fwd[S.var[v]], !.marked = @ \cup {v}]

\* All objects, or variables, of a sequence, one after the other
MoveAll(S, ps) ==
  LET upto[n \in 0..Len(ps)] == IF n = 0 THEN S ELSE Move(upto[n - 1], ps[n])
  IN upto[Len(ps)]
ForwardAll(S, vs) ==
  LET upto[n \in 0..Len(vs)] == IF n = 0 THEN S ELSE safe_forward(upto[n - 1], vs[n])
  IN upto[Len(vs)]

\* The objects of the dynpros, in the order of the list
DynObjects ==
  LET at[n \in 0..Cardinality(Nodes)] == IF n = 0 THEN dyn[HEAD].next ELSE dyn[at[n - 1]].next
      all == CHOOSE n \in 0..Cardinality(Nodes) : at[n] = HEAD /\ \A k \in 0..n - 1 : at[k] # HEAD
  IN [i \in 1..all |-> dyn[at[i - 1]].obj]

forward_roots ==
  LET none == [new |-> <<>>, fwd |-> [p \in DOMAIN heap |-> 0], var |-> var, marked |-> {}]
      dynamic == MoveAll(ForwardAll(none, roots), DynObjects)
  IN  MoveAll(ForwardAll(dynamic, Reverse(gcpro)), Reverse(locals))

NewPlace(S, p) == IF p = 0 THEN 0 ELSE S.fwd[p]

\* What a collection makes of the heap and of all that points into it
\* Mutant: the free lists survive
AfterCollection_ListsKept ==
  LET S == forward_roots
  IN  [heap |-> S.new, lists |-> free_lists, var |-> S.var,
       locals |-> [i \in DOMAIN locals |-> NewPlace(S, locals[i])],
       obj |-> [d \in Nodes |-> NewPlace(S, dyn[d].obj)]]
AfterCollection ==
  LET S == forward_roots
  IN  [heap |-> S.new, lists |-> [s \in DOMAIN free_lists |-> 0], var |-> S.var,
       locals |-> [i \in DOMAIN locals |-> NewPlace(S, locals[i])],
       obj |-> [d \in Nodes |-> NewPlace(S, dyn[d].obj)]]
Now == [heap |-> heap, lists |-> free_lists, var |-> var, locals |-> locals, obj |-> [d \in Nodes |-> dyn[d].obj]]

\* What an allocation of so many words finds; where this heap is full the real
\* one would grow (GcSpace)
gc_reserve(words) == IF Words(heap) + words <= Capacity THEN Now ELSE AfterCollection
HasRoom(h, words) == Words(h.heap) + words <= Capacity

Objs(h) == [d \in DOMAIN dyn |-> IF d = HEAD THEN dyn[d] ELSE [dyn[d] EXCEPT !.obj = h.obj[d]]]

collect_garbage ==
  /\ heap # <<>>
  /\ LET h == AfterCollection IN
     /\ heap' = h.heap /\ free_lists' = h.lists /\ var' = h.var /\ locals' = h.locals /\ dyn' = Objs(h)
  /\ UNCHANGED <<gcpro, bases>>

(***************************************************************************)
(* C variables                                                             *)
(***************************************************************************)
gc_allocate(v, n) ==
  /\ v \in Protected(gcpro)
  /\ IF n < FREE_SIZES /\ free_lists[n] # 0
     THEN LET f == free_lists[n] IN
          /\ free_lists' = [free_lists EXCEPT ![n] = heap[f].next]
          /\ heap' = With(Unheld(heap, {Var(v)}), f, Block(n, Var(v)))
          /\ var' = [var EXCEPT ![v] = f]
          /\ UNCHANGED <<locals, dyn>>
     ELSE LET h == gc_reserve(n + 1) IN
          /\ HasRoom(h, n + 1)
          /\ heap' = Append(Unheld(h.heap, {Var(v)}), Block(n, Var(v))) /\ free_lists' = h.lists
          /\ var' = [h.var EXCEPT ![v] = Len(h.heap) + 1]
          /\ locals' = h.locals /\ dyn' = Objs(h)
  /\ UNCHANGED <<gcpro, bases>>

assign_var(v, w) ==
  /\ v # w /\ {v, w} \subseteq Protected(gcpro) /\ var[v] # var[w]
  /\ var' = [var EXCEPT ![w] = var[v]]
  /\ heap' = HeldAt(heap, var[v], Var(w))
  /\ UNCHANGED <<free_lists, locals, bases, gcpro, dyn>>

GCPRO(v) ==
  /\ Len(gcpro) < MaxProtected
  /\ gcpro' = Append(gcpro, v)
  /\ UNCHANGED <<heap, free_lists, locals, bases, var, dyn>>

\* The variables that are protected no longer go out of scope, and
\* what the running functions have is the first n of locals
Forget(g, n) ==
  /\ gcpro' = g
  /\ var' = [v \in CVars |-> IF v \in Protected(g) THEN var[v] ELSE 0]
  /\ heap' = Unheld(heap, {Var(v) : v \in CVars \ Protected(g)} \cup {Local(i) : i \in (n + 1)..Len(locals)})

UNGCPRO ==
  /\ gcpro # <<>>
  /\ Forget(Front(gcpro), Len(locals))
  /\ UNCHANGED <<free_lists, locals, bases, dyn>>

(***************************************************************************)
(* Dynpros                                                                 *)
(***************************************************************************)
Inserted(d, o) ==
  LET first == dyn[HEAD].next IN
  [x \in DOMAIN dyn |->
     [next |-> IF x = d THEN first ELSE IF x = HEAD THEN d ELSE dyn[x].next,
      prev |-> IF x = d THEN HEAD ELSE IF x = first THEN d ELSE dyn[x].prev,
      obj |-> IF x = d THEN o ELSE dyn[x].obj]]
\* Mutant: the successor still points back to what is removed
Removed_OneWay(d) ==
  [x \in DOMAIN dyn |->
     IF x = d THEN [next |-> UNLINKED, prev |-> UNLINKED, obj |-> 0]
     ELSE [dyn[x] EXCEPT !.next = IF x = dyn[d].prev THEN dyn[d].next ELSE @]]
Removed(d) ==
  [x \in DOMAIN dyn |->
     IF x = d THEN [next |-> UNLINKED, prev |-> UNLINKED, obj |-> 0]
     ELSE [dyn[x] EXCEPT !.next = IF x = dyn[d].prev THEN dyn[d].next ELSE @,
                         !.prev = IF x = dyn[d].next THEN dyn[d].prev ELSE @]]

dynpro(d, v) ==
  /\ d \in Nodes \ (Maybe \cup Linked) /\ v \in Protected(gcpro)
  /\ dyn' = Inserted(d, var[v])
  /\ heap' = HeldAt(heap, var[v], Dyn(d))
  /\ UNCHANGED <<free_lists, locals, bases, gcpro, var>>

undynpro(d) ==
  /\ d \in Linked \ Maybe
  /\ dyn' = Removed(d) /\ heap' = Unheld(heap, {Dyn(d)})
  /\ UNCHANGED <<free_lists, locals, bases, gcpro, var>>

\* links the dynpro when it gets an object, and takes it out when it gets
\* something that needs no protection
maybe_dynpro(d, o) ==
  /\ d \in Maybe
  /\ dyn' = IF dyn[d].obj = 0 /\ o # 0 THEN Inserted(d, o)
            ELSE IF dyn[d].obj # 0 /\ o = 0 THEN Removed(d) ELSE [dyn EXCEPT ![d].obj = o]
  /\ heap' = HeldAt(heap, o, Dyn(d))
  /\ UNCHANGED <<free_lists, locals, bases, gcpro, var>>

(***************************************************************************)
(* Interpreted functions                                                   *)
(***************************************************************************)
\* The next of the locals: allocate_obj() in its fast form, an object of n
\* fields off the free list of its size, or else out of what was reserved
NextLocal(h, n) ==
  LET b == Block(n, Local(Len(h.locals) + 1))
      f == h.lists[n]
      off == n < FREE_SIZES /\ f # 0
      held == Append(h.locals, IF off THEN f ELSE Len(h.heap) + 1)
  IN  [heap |-> IF off THEN With(h.heap, f, b) ELSE Append(h.heap, b),
       lists |-> IF off THEN [h.lists EXCEPT ![n] = h.heap[f].next] ELSE h.lists,
       locals |-> held, var |-> h.var, obj |-> h.obj]

\* The vector of n locals, and a variable with one field for each
VectorOf(h, n) ==
  LET upto[k \in 0..n] == IF k = 0 THEN NextLocal(h, n) ELSE NextLocal(upto[k - 1], 1)
  IN upto[n]

\* A call
allocate_locals(n) ==
  /\ Len(bases) < MaxRunning
  /\ bases' = Append(bases, Len(locals))
  /\ LET words == (n + 1) + n * 2
         h == gc_reserve(words)
         S == VectorOf(h, n)
     IN IF n = 0 THEN UNCHANGED <<heap, free_lists, locals, var, dyn>>
        ELSE /\ HasRoom(h, words)
             /\ heap' = S.heap /\ free_lists' = S.lists /\ locals' = S.locals
             /\ var' = h.var /\ dyn' = Objs(h)
  /\ UNCHANGED gcpro

\* A closure captures a local variable, and the C variable v leads to it
Vectors == {bases[k] + 1 : k \in DOMAIN bases}
closure_var_local(v, i) ==
  /\ v \in Protected(gcpro) /\ i \in DOMAIN locals \ Vectors /\ var[v] # locals[i]
  /\ var' = [var EXCEPT ![v] = locals[i]]
  /\ heap' = HeldAt(heap, locals[i], Var(v))
  /\ UNCHANGED <<free_lists, locals, bases, gcpro, dyn>>

\* The object at p, in the heap h, is free
gc_free(h, p) ==
  LET n == h[p].len IN
  IF n >= FREE_SIZES THEN heap' = h /\ UNCHANGED free_lists
  ELSE /\ heap' = With(h, p, [h[p] EXCEPT !.free = TRUE, !.next = free_lists[n]])
       /\ free_lists' = [free_lists EXCEPT ![n] = p]

\* A return: of what the function has, the vector is given back
free_locals ==
  /\ bases # <<>>
  /\ LET base == Last(bases)
         h == Unheld(heap, {Local(i) : i \in (base + 1)..Len(locals)})
     IN /\ IF base = Len(locals) THEN UNCHANGED <<heap, free_lists>> ELSE gc_free(h, locals[base + 1])
        /\ locals' = SubSeq(locals, 1, base)
  /\ bases' = Front(bases)
  /\ UNCHANGED <<gcpro, var, dyn>>

\* An error ends all functions after the f-th, whose locals stay for the
\* collector to find unused
error_unwinds(f, g) ==
  /\ f < Len(bases) /\ g <= Len(gcpro)
  /\ locals' = SubSeq(locals, 1, bases[f + 1])
  /\ bases' = SubSeq(bases, 1, f)
  /\ Forget(SubSeq(gcpro, 1, g), bases[f + 1])
  /\ UNCHANGED <<free_lists, dyn>>

RootsNext ==
  \/ collect_garbage
  \/ \E v \in CVars : \E n \in Sizes : gc_allocate(v, n)
  \/ \E v, w \in CVars : assign_var(v, w)
  \/ \E v \in CVars : GCPRO(v)
  \/ UNGCPRO
  \/ \E d \in Nodes : \E v \in CVars : dynpro(d, v)
  \/ \E d \in Nodes : undynpro(d)
  \/ \E d \in Maybe : \E v \in Protected(gcpro) : maybe_dynpro(d, var[v])
  \/ \E d \in Maybe : maybe_dynpro(d, 0)
  \/ \E n \in Sizes \cup {0} : allocate_locals(n)
  \/ \E v \in CVars : \E i \in DOMAIN locals : closure_var_local(v, i)
  \/ free_locals
  \/ \E f \in 0..MaxRunning, g \in 0..MaxProtected : error_unwinds(f, g)
RootsSpec == RootsInit /\ [][RootsNext]_root_vars

(***************************************************************************)
(* Properties                                                              *)
(***************************************************************************)
\* Whatever C code or the interpreter holds is, after every allocation, free,
\* collection and error, still the object that it was given, in a block that
\* nobody else was given; and a free block is on the list of its size
\* (alloc.c:1385 "free gc'ed object known to be mutable and not referenced")
Holds(r, p) == /\ {q \in DOMAIN heap : r \in heap[q].who} = {p} \ {0}
               /\ p # 0 => p \in DOMAIN heap /\ ~heap[p].free
FreeBlocks(n) == {p \in DOMAIN heap : heap[p].free /\ heap[p].len = n}
\* The list of size n goes through the blocks L
FreeList(n, L) ==
  /\ free_lists[n] = IF L = <<>> THEN 0 ELSE L[1]
  /\ \A i \in DOMAIN L : heap[L[i]].next = IF i = Len(L) THEN 0 ELSE L[i + 1]
AllHeld ==
  /\ \A v \in Protected(gcpro) : Holds(Var(v), var[v])
  /\ \A d \in Nodes : Holds(Dyn(d), dyn[d].obj)
  /\ \A i \in DOMAIN locals : Holds(Local(i), locals[i])
  /\ \A n \in DOMAIN free_lists : \E L \in SetToSeqs(FreeBlocks(n)) : FreeList(n, L)

\* The list of dynpros leads through exactly those that protect something,
\* in both directions
Around(L, i) == IF i \in DOMAIN L THEN L[i] ELSE HEAD
DynList(L) == \A i \in 0..Len(L) : /\ dyn[Around(L, i)].next = Around(L, i + 1)
                                  /\ dyn[Around(L, i + 1)].prev = Around(L, i)
ListedBothWays ==
  /\ \E L \in SetToSeqs(Linked) : DynList(L)
  /\ \A d \in Maybe : d \in Linked <=> dyn[d].obj # 0

\* Whatever C code or the interpreter holds stays the object that it was given,
\* in a block nobody else was given, through allocation with and without a free
\* list, captures by closures, gc_free(), collection and errors; free blocks are
\* on the list of their size, and the list of dynpros is the same in both
\* directions (alloc.c:1386).
RootsSound == AllHeld /\ ListedBothWays
=============================================================================

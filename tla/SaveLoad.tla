------------------------------ MODULE SaveLoad ------------------------------
(***************************************************************************)
(* save_data(), size_data() and load_data(): gc_save(), gc_size() and      *)
(* gc_load() of alloc.c.  Saving a value is a collection into a scratch    *)
(* area that leaves forwarding addresses in the live heap, is given up by  *)
(* a longjmp() when the area is too small, and must then put every object  *)
(* back before the next try with an area twice as large.  Loading is a     *)
(* collection of the file into generation 0, which allocates downwards     *)
(* and must scan upwards.                                                  *)
(*                                                                         *)
(* An address in an area is the index of the object there.  The byte order *)
(* of files is an involution on numbers, Swap().  The file may come from a *)
(* host with other words, or from a debug build, whose objects have one    *)
(* word more.  What tables and symbols need when old data are loaded is    *)
(* in SymTable (rehash_table).                                             *)
(***************************************************************************)
EXTENDS Integers, Sequences, FiniteSets, SequencesExt, FiniteSetsExt, Functions, TLC

CONSTANTS
  Obj,             \* objects of the heap
  Root,            \* the one that is saved
  NULL, GONE,      \* values that are no pointers
  KindsOf,         \* what each object may be
  Length,          \* its number of fields, when it has fields
  StringBytes,     \* the bytes of a string
  Immutables,      \* the sets of objects that may be immutable
  Words,           \* the bytes of a word on the host that saves the data
  DEF_SAVE_SIZE    \* bytes of the first area that is tried

Native == 8                              \* sizeof (value) where it is loaded

VARIABLES
  kind, fields, immutable,   \* the heap
  host,        \* of the saved data: bytes in a word, a debug build or not
  header,      \* o->garbage_type and o->size of every object of the heap
  static_data, \* static_data_table: static strings and their copies
  op,          \* "size" or "save"
  phase,
  area,        \* the objects copied so far
  gcsize, newpos,            \* bytes of the area, bytes used of it
  save_hwm,    \* the objects of the area that have been scanned
  sizes,       \* what gc_size() counts
  loaded,      \* the objects in generation 0; the last is at newpos0
  round,       \* of them, the first and the last to scan in a round of the
               \* double loop (unscanned0, oldstart0), and the next one
  root         \* the value in the area or, when loaded, in generation 0

heap == <<kind, fields, immutable, host>>
saving == <<header, static_data, area, gcsize, newpos, save_hwm, sizes>>
loading == <<loaded, round>>
vars == <<heap, saving, loading, op, phase, root>>

Swap(n) == -n                            \* htonlong(), ntohlong()
Align(n, word) == ((n + word - 1) \div word) * word
record(o) == kind[o] \in {"record", "closure"}
Struct == (2 + host.debug) * host.word   \* sizeof (struct obj)
Size(o) == Struct + (CASE record(o) -> host.word * Length[o]
                       [] kind[o] = "primitive" -> host.word
                       [] OTHER -> StringBytes)
Header(o) == [type |-> kind[o], size |-> Size(o)]
forwarded(o) == header[o].type = "forwarded"

\* struct gc_size
NoSize == [total |-> 0, mutable |-> 0, static |-> 0]

(***************************************************************************)
(* The area.  st is the state of a scan; st.out the fields it has written. *)
(***************************************************************************)
\* The end of the area: nomem's longjmp()
Full(st, o) == st.pos + Align(Size(o), host.word) > gcsize

\* move_object(): static strings stay what they are, their copies are strings
Copied(o) == [Header(o) EXCEPT !.type = IF @ = "static" THEN "string" ELSE @]

Move(st, o) ==
  LET to == Len(st.area) + 1
      bytes == Align(Size(o), host.word) IN
  [st EXCEPT
    !.area = Append(@, Copied(o) @@ [fields |-> fields[o], immutable |-> o \in immutable]),
    !.pos = @ + bytes,
    !.header[o] = IF kind[o] = "static" THEN @ ELSE [type |-> "forwarded", size |-> to],
    !.static[o] = IF kind[o] = "static" THEN to ELSE @,
    !.sizes = [@ EXCEPT !.mutable = @ + IF o \in immutable THEN 0 ELSE bytes,
                        !.static = @ + IF kind[o] = "static" THEN bytes ELSE 0],
    !.out = Append(@, to)]

\* Mutant: the copies of static strings are not looked up.
Forwarded_NoStatics(st, o) == IF st.header[o].type = "forwarded" THEN st.header[o].size ELSE 0

Forwarded(st, o) == IF st.header[o].type = "forwarded" THEN st.header[o].size ELSE st.static[o]

\* save_forward() and size_forward() of a field: what is not data is
\* replaced by the gone value, or stops the program
Forward(st, v) ==
  CASE st.stop # "no" -> st
    [] v = NULL -> [st EXCEPT !.out = Append(@, v)]
    [] op = "save" /\ kind[v] = "primitive" -> [st EXCEPT !.out = Append(@, GONE)]
    [] op = "save" /\ kind[v] = "closure" -> [st EXCEPT !.stop = "abort"]
    [] Forwarded(st, v) # 0 -> [st EXCEPT !.out = Append(@, Forwarded(st, v))]
    [] Full(st, v) -> [st EXCEPT !.stop = "full"]
    [] OTHER -> Move(st, v)

Scan(start, values, pos, counted) ==
  FoldLeft(Forward,
    [area |-> start, pos |-> pos, header |-> header, static |-> static_data,
     sizes |-> counted, out |-> <<>>, stop |-> "no"], values)

\* Where the scan of st ends
Continue(st) ==
  /\ header' = st.header /\ static_data' = st.static /\ newpos' = st.pos
  /\ sizes' = st.sizes
  /\ phase' = CASE st.stop = "full" -> "full" [] st.stop = "abort" -> "aborted"
                [] OTHER -> "scan"

\* try_gc_size(), try_gc_save(): a size has one word before the objects, a
\* save its own address, the gone value and the root
try ==
  /\ phase = "try"
  /\ LET start == IF op = "size" THEN host.word ELSE Struct + 2 * host.word
         st == Scan(<<>>, <<Root>>, start, NoSize) IN
     /\ Continue(st)
     /\ area' = st.area
     /\ root' = IF st.out = <<>> THEN NULL ELSE st.out[1]
  /\ save_hwm' = 0
  /\ UNCHANGED <<heap, gcsize, op, loading>>

\* save_scan(), or scan() of a copy whose size is then swapped too
save_scan ==
  /\ phase = "scan" /\ save_hwm < Len(area)
  /\ LET c == area[save_hwm + 1]
         st == Scan(area, c.fields, newpos, sizes) IN
     /\ Continue(st)
     /\ IF st.stop = "no"
        THEN /\ area' = [st.area EXCEPT ![save_hwm + 1].fields = st.out,
                                        ![save_hwm + 1].size = Swap(@)]
             /\ save_hwm' = save_hwm + 1
        ELSE /\ area' = st.area
             /\ UNCHANGED save_hwm
  /\ UNCHANGED <<heap, gcsize, op, root, loading>>

(***************************************************************************)
(* save_restore()                                                          *)
(***************************************************************************)
Pointers(o) == {fields[o][i] : i \in DOMAIN fields[o]} \ {NULL}

\* The objects it comes by: it goes on from what was forwarded only
Visited ==
  LET visited[n \in 0..Cardinality(Obj)] ==
        IF n = 0 THEN {Root}
        ELSE visited[n-1] \cup UNION {Pointers(o) : o \in {p \in visited[n-1] : forwarded(p)}}
  IN  visited[Cardinality(Obj)]

\* Mutant: sizes of scanned copies are taken as they are.
Restored_Unswapped(o) == [type |-> area[header[o].size].type, size |-> area[header[o].size].size]

\* The size of a copy that was scanned has been swapped
Restored(o) ==
  LET copy == area[header[o].size] IN
  [type |-> copy.type,
   size |-> IF header[o].size <= save_hwm THEN Swap(copy.size) ELSE copy.size]

save_restore ==
  header' = [o \in Obj |-> IF o \in Visited /\ forwarded(o) THEN Restored(o) ELSE header[o]]

\* gcmem_grow_memory: try again; save_restore() has reset the static strings
grow_memory ==
  /\ phase = "full"
  /\ save_restore
  /\ static_data' = [o \in Obj |-> IF o \in Visited THEN 0 ELSE static_data[o]]
  /\ gcsize' = 2 * gcsize
  /\ phase' = "try"
  /\ UNCHANGED <<heap, op, area, newpos, save_hwm, sizes, root, loading>>

\* gcmem_out_of_memory: gc_reserve() in try_gc_size() found no memory
free_static_data_table == static_data' = [o \in Obj |-> 0]

out_of_memory ==
  /\ phase = "try" /\ op = "size"
  /\ free_static_data_table
  /\ phase' = "failed"
  /\ UNCHANGED <<heap, op, header, area, gcsize, newpos, save_hwm, sizes, root, loading>>

\* The end of try_gc_size() and try_gc_save(): everything is scanned
finish ==
  /\ phase = "scan" /\ save_hwm = Len(area)
  /\ save_restore
  /\ free_static_data_table
  /\ phase' = "done"
  /\ sizes' = [sizes EXCEPT !.total = newpos]
  /\ UNCHANGED <<heap, op, area, gcsize, newpos, save_hwm, root, loading>>

\* The program saves the value that it had measured
gc_save ==
  /\ op = "size" /\ phase \in {"done", "failed"}
  /\ op' = "save" /\ phase' = "try" /\ gcsize' = DEF_SAVE_SIZE
  /\ area' = <<>> /\ newpos' = 0 /\ save_hwm' = 0 /\ sizes' = NoSize /\ root' = NULL
  /\ UNCHANGED <<heap, header, static_data, loading>>

(***************************************************************************)
(* Loading.  The file is the area; newpos is its size.                     *)
(***************************************************************************)
\* The size where it is loaded of an object of the file
NativeSize(c) ==
  LET size == Swap(c.size) - host.debug * host.word - 2 * host.word IN
  2 * Native + IF c.type = "record" THEN (size \div host.word) * Native ELSE size

\* gc_reserve() in gc_load() and gc_load32(): the second doubles
LoadReserve == (newpos - 2 * host.word) * (IF host.word = Native THEN 1 ELSE 2)

Used(objs) == FoldLeft(LAMBDA n, c : n + Align(c.size, Native), 0, objs)

\* load_forward() and its variants
LoadForward(st, v) ==
  CASE st.stop # "no" -> st
    [] v = NULL -> [st EXCEPT !.out = Append(@, v)]
    [] v = GONE -> [st EXCEPT !.stop = "abort"]
    [] v # NULL /\ v # GONE /\ st.file[v].type = "forwarded" ->
         [st EXCEPT !.out = Append(@, st.file[v].size)]
    [] OTHER ->
         [st EXCEPT
           !.loaded = Append(@, [st.file[v] EXCEPT !.size = NativeSize(st.file[v])]),
           !.file[v].type = "forwarded",
           !.file[v].size = Len(st.loaded) + 1,
           !.out = Append(@, Len(st.loaded) + 1)]

LoadScan(values) ==
  FoldLeft(LoadForward, [file |-> area, loaded |-> loaded, out |-> <<>>, stop |-> "no"], values)

\* _gc_load(): the root, which starts the double loop
Round(first, last) == [first |-> first, last |-> last, next |-> last]

gc_load ==
  /\ op = "save" /\ phase = "done"
  /\ LET st == LoadScan(<<root>>) IN
     /\ area' = st.file /\ loaded' = st.loaded
     /\ phase' = IF st.stop = "abort" THEN "aborted" ELSE "load"
     /\ root' = IF st.out = <<>> THEN root ELSE st.out[1]
     /\ round' = Round(1, Len(st.loaded))
  /\ UNCHANGED <<heap, header, static_data, gcsize, newpos, save_hwm, sizes, op>>

\* load_scan(): what was allocated last is scanned first
load_scan ==
  /\ phase = "load" /\ round.next >= round.first
  /\ LET st == LoadScan(loaded[round.next].fields) IN
     IF st.stop = "abort"
     THEN phase' = "aborted" /\ UNCHANGED <<area, loaded, round>>
     ELSE /\ area' = st.file
          /\ loaded' = [st.loaded EXCEPT ![round.next].fields = st.out]
          /\ round' = [round EXCEPT !.next = @ - 1]
          /\ UNCHANGED phase
  /\ UNCHANGED <<heap, header, static_data, gcsize, newpos, save_hwm, sizes, op, root>>

\* Mutant: no second round.
next_round_Once ==
  /\ phase = "load" /\ round.next < round.first
  /\ phase' = "loaded"
  /\ UNCHANGED <<heap, saving, op, loaded, round, root>>

\* Another round, for what was forwarded in this one
next_round ==
  /\ phase = "load" /\ round.next < round.first
  /\ IF round.last = Len(loaded)
     THEN phase' = "loaded" /\ UNCHANGED round
     ELSE round' = Round(round.last + 1, Len(loaded)) /\ UNCHANGED phase
  /\ UNCHANGED <<heap, saving, op, loaded, root>>

Init ==
  /\ kind \in [Obj -> UNION {KindsOf[o] : o \in Obj}] /\ \A o \in Obj : kind[o] \in KindsOf[o]
  /\ fields \in [Obj -> UNION {[1..n -> Obj \union {NULL}] : n \in {Length[o] : o \in Obj} \union {0}}]
  /\ \A o \in Obj : Len(fields[o]) = IF record(o) THEN Length[o] ELSE 0
  /\ immutable \in Immutables
  /\ \A o \in immutable : \A p \in Pointers(o) : p \in immutable
  /\ host \in [word : Words, debug : {0, 1}]
  /\ header = [o \in Obj |-> Header(o)]
  /\ static_data = [o \in Obj |-> 0]
  /\ op = "size" /\ phase = "try" /\ gcsize = DEF_SAVE_SIZE
  /\ area = <<>> /\ newpos = 0 /\ save_hwm = 0 /\ sizes = NoSize
  /\ loaded = <<>> /\ round = Round(1, 0) /\ root = NULL

Next ==
  \/ try \/ save_scan \/ grow_memory \/ out_of_memory \/ finish
  \/ gc_save
  \/ gc_load \/ load_scan \/ next_round

Spec == Init /\ [][Next]_vars

(***************************************************************************)
(* Properties                                                              *)
(***************************************************************************)
\* Between two tries, and after the last one, no object of the heap has kept
\* a forwarding address or a size in the byte order of files: save_restore()
\* has come by all of them, and has known which copies had been scanned.
HeapRestored ==
  phase \in {"try", "done", "failed", "loaded"} =>
    \A o \in Obj : header[o] = Header(o) /\ static_data[o] = 0

\* What Root reaches
Reach ==
  LET reach[n \in 0..Cardinality(Obj)] ==
        IF n = 0 THEN {Root} ELSE reach[n-1] \cup UNION {Pointers(o) : o \in reach[n-1]}
  IN  reach[Cardinality(Obj)]
Sum(S) == FoldSet(LAMBDA o, n : n + Align(Size(o), host.word), 0, S)

\* size_data() counts each object that the value reaches once, however often
\* the area was too small, and the bytes that can change and those of static
\* strings apart.
SizeCounted ==
  op = "size" /\ phase = "done" =>
    sizes = [total |-> host.word + Sum(Reach), mutable |-> Sum(Reach \ immutable),
             static |-> Sum({o \in Reach : kind[o] = "static"})]

\* Is it the same data, on a host with Native words?
Same(f) ==
  /\ root = f[Root]
  /\ \A o \in Reach :
       LET c == loaded[f[o]] IN
       /\ c.type = Copied(o).type /\ c.immutable = (o \in immutable)
       /\ c.size = 2 * Native + IF record(o) THEN Native * Length[o] ELSE StringBytes
       /\ DOMAIN c.fields = DOMAIN fields[o]
       /\ \A i \in DOMAIN fields[o] :
            c.fields[i] = IF fields[o][i] = NULL THEN NULL ELSE f[fields[o][i]]

\* load_data() of what save_data() wrote is the same data, with the same
\* sharing and the same cycles, from either kind of host; and gc_load() has
\* reserved enough for it (the assertion in load_forward()).
RoundTrip ==
  /\ phase = "loaded" =>
       \E f \in [Reach -> DOMAIN loaded] : IsInjective(f) /\ Same(f)
  /\ phase \in {"load", "loaded"} => Used(loaded) <= LoadReserve

\* gc_save() in alloc.c: some types "will be silently replaced by a `gone'
\* value": external data, code, closures.
NeverAborts == phase # "aborted"
=============================================================================

----------------------------- MODULE HostProofs -----------------------------
(***************************************************************************)
(* What C code keeps for mudlle programs and for itself: open files, the   *)
(* arguments of calls, string buffers, and the objects that it holds; for  *)
(* any of them, however many.                                              *)
(***************************************************************************)
EXTENDS Files, Calls, StrBuf, Roots, Loops, FiniteSetTheorems, SequenceTheorems, TLAPS

(***************************************************************************)
(* The open files of programs, for any limit, buffer and length of the     *)
(* file on disk. As long as fclose() does not fail, the count of open      *)
(* files is the number of FILEs that are open; whatever fclose() answers,  *)
(* what is read or printed of a file is what was asked for. The second     *)
(* needs that the loop of print_file_part(), a recursive function over its *)
(* passes, exists and ends.                                                *)
(***************************************************************************)
OpenFiles == {o \in FileObjects : data[o].FILE}

\* What the C data of a file may be: `pos' is any
WellFormed(d) ==
  /\ d \in [object : BOOLEAN, f : BOOLEAN, FILE : BOOLEAN, writable : BOOLEAN,
            pos : {d.pos}, port : {"none", "open", "closed"}, linked : BOOLEAN]
  /\ d.f = d.FILE /\ (d.f => d.object)
  /\ d.linked = (d.port = "open") /\ (d.linked => d.f)

Reachable ==
  /\ reach \in [file : SUBSET FileObjects, port : SUBSET FileObjects]
  /\ \A o \in reach.file : data[o].object
  /\ \A o \in reach.port : data[o].port # "none"

AtLimit == [op |-> "open", errno |-> "EMFILE"]

FilesInv ==
  /\ data = [o \in FileObjects |-> data[o]] /\ \A o \in FileObjects : WellFormed(data[o])
  /\ Reachable
  /\ mudlle_file_count = Cardinality(OpenFiles) /\ mudlle_file_count <= MAX_MUDLLE_OPEN_FILES
  /\ answer = AtLimit => Cardinality({o \in reach.file : data[o].f}) = MAX_MUDLLE_OPEN_FILES
  /\ fault = "none"

-----------------------------------------------------------------------------
\* Seeking, or moving by reading and writing, leaves all but the position
LEMMA MovedKeeps ==
  ASSUME FilesInv, NEW h, h = ByName \/ (h \in FileObjects /\ data[h].f),
         NEW pos, data' = Moved(h, pos), Used(h),
         UNCHANGED <<reach, mudlle_file_count>>, answer' # AtLimit
  PROVE  FilesInv'
<1>1. CASE h = ByName
  BY <1>1 DEF FilesInv, Moved, Used, Reachable, OpenFiles
<1>2. CASE h # ByName
  <2>1. h \in FileObjects /\ data[h].f /\ WellFormed(data[h]) /\ data[h].FILE
    BY <1>2 DEF FilesInv, WellFormed
  <2>2. data' = [data EXCEPT ![h].pos = pos] /\ fault' = "none"
    BY <1>2, <2>1 DEF Moved, Used, FilesInv
  <2>3. data' = [o \in FileObjects |-> data'[o]] /\ \A o \in FileObjects \ {h} : data'[o] = data[o]
    BY <2>2, <2>1 DEF FilesInv
  <2>4. data'[h] = [data[h] EXCEPT !.pos = pos]
    BY <2>2, <2>1 DEF FilesInv
  <2>5. /\ data'[h] \in [object : BOOLEAN, f : BOOLEAN, FILE : BOOLEAN, writable : BOOLEAN,
                         pos : {pos}, port : {"none", "open", "closed"}, linked : BOOLEAN]
        /\ data'[h].pos = pos
        /\ data'[h].object = data[h].object /\ data'[h].f = data[h].f
        /\ data'[h].FILE = data[h].FILE /\ data'[h].port = data[h].port
        /\ data'[h].linked = data[h].linked
    BY <2>4, <2>1 DEF WellFormed
  <2>6. \A o \in FileObjects : WellFormed(data'[o])
    BY <2>3, <2>5, <2>1 DEF FilesInv, WellFormed
  <2>7. \A o \in FileObjects : /\ data'[o].object = data[o].object /\ data'[o].f = data[o].f
                         /\ data'[o].FILE = data[o].FILE /\ data'[o].port = data[o].port
    BY <2>3, <2>5
  <2>8. OpenFiles' = OpenFiles /\ Reachable'
    BY <2>7 DEF OpenFiles, FilesInv, Reachable
  <2> QED BY <2>2, <2>3, <2>6, <2>8 DEF FilesInv
<1> QED BY <1>1, <1>2

-----------------------------------------------------------------------------
(***************************************************************************)
(* A collection closes exactly the files that the program has lost.        *)
(***************************************************************************)
FileHypotheses == IsFiniteSet(FileObjects) /\ MAX_MUDLLE_OPEN_FILES \in Nat /\ CloseFails \subseteq {FALSE}

LEMMA Finite ==
  ASSUME FileHypotheses, NEW S \in SUBSET FileObjects
  PROVE  IsFiniteSet(S) /\ Cardinality(S) \in Nat
BY FS_Subset, FS_CardinalityType DEF FileHypotheses

\* What the program reaches stays, the rest is closed, and the ports that it
\* holds are still there
LEMMA CollectedFile ==
  ASSUME FilesInv, NEW o \in FileObjects
  PROVE  /\ WellFormed(Collected[o])
         /\ Collected[o].FILE <=> data[o].FILE /\ o \in reach.file
         /\ o \in reach.file => Collected[o].object /\ Collected[o].f = data[o].f
         /\ o \in reach.port => Collected[o].port # "none"
<1> DEFINE d == data[o]
<1>1. WellFormed(d) /\ (o \in reach.file => d.object) /\ (o \in reach.port => d.port # "none")
  BY DEF FilesInv, Reachable
<1> DEFINE c == IF o \in Orphans THEN Freed(d) ELSE d
<1>2. /\ WellFormed(c) /\ (o \in reach.port => c.port # "none")
      /\ c.FILE <=> d.FILE /\ o \in reach.file
      /\ o \in reach.file => c.object /\ c.f = d.f
  <2>1. CASE o \in Orphans
    <3>1. o \notin reach.file
      BY <2>1 DEF Orphans
    <3>2. close_mudlle_file_oport(d).port \in {"none", "open", "closed"} /\
          close_mudlle_file_oport(d).port # "open" /\
          (d.port # "none" => close_mudlle_file_oport(d).port # "none")
      BY <1>1 DEF close_mudlle_file_oport, WellFormed
    <3>3. c = [NoFile EXCEPT !.port = close_mudlle_file_oport(d).port]
      BY <2>1 DEF Freed
    <3>4. WellFormed(c) /\ ~c.FILE /\ c.port = close_mudlle_file_oport(d).port
      BY <3>2, <3>3 DEF WellFormed, NoFile
    <3> HIDE DEF c, d
    <3> QED BY <3>1, <3>2, <3>4, <1>1
  <2>2. CASE o \notin Orphans
    <3>1. c = d /\ (d.object => o \in reach.file)
      BY <2>2 DEF Orphans
    <3> HIDE DEF c, d
    <3> QED BY <3>1, <1>1 DEF WellFormed
  <2> QED BY <2>1, <2>2
<1>3. Collected[o] = Dropped(c, o)
  BY DEF Collected
<1> HIDE DEF c, d
<1>4. CASE c.port # "none" /\ ~c.linked /\ o \notin reach.port
  <2>1. Dropped(c, o) = [c EXCEPT !.port = "none"]
    BY <1>4 DEF Dropped
  <2>2. WellFormed(Dropped(c, o)) /\ Dropped(c, o).FILE = c.FILE
        /\ Dropped(c, o).object = c.object /\ Dropped(c, o).f = c.f
    BY <2>1, <1>2, <1>4 DEF WellFormed
  <2> QED BY <2>2, <1>2, <1>3, <1>4 DEF d
<1>5. CASE ~(c.port # "none" /\ ~c.linked /\ o \notin reach.port)
  <2>1. Dropped(c, o) = c
    BY <1>5 DEF Dropped
  <2> QED BY <2>1, <1>2, <1>3 DEF d
<1> QED BY <1>4, <1>5

LEMMA CollectedAll ==
  ASSUME FileHypotheses, FilesInv
  PROVE  /\ Collected = [o \in FileObjects |-> Collected[o]]
         /\ {o \in FileObjects : Collected[o].FILE} = {o \in reach.file : data[o].f}
         /\ {o \in reach.file : Collected[o].f} = {o \in reach.file : data[o].f}
         /\ CountAfter = Cardinality({o \in reach.file : data[o].f})
         /\ CountAfter \in Nat /\ CountAfter <= mudlle_file_count
         /\ FaultAfter = "none"
<1> DEFINE Kept == {o \in reach.file : data[o].f}
<1>1. Collected = [o \in FileObjects |-> Collected[o]]
  BY DEF Collected
<1>2. \A o \in FileObjects : WellFormed(data[o]) /\ data[o].f = data[o].FILE /\ (data[o].f => data[o].object)
  BY DEF FilesInv, WellFormed
<1>3. reach.file \subseteq FileObjects
  BY DEF FilesInv, Reachable
<1>4. {o \in FileObjects : Collected[o].FILE} = Kept
  BY <1>2, <1>3, CollectedFile
<1>5. {o \in reach.file : Collected[o].f} = Kept
  BY <1>2, <1>3, CollectedFile
<1>6. OpenFiles = Kept \cup Counted /\ Kept \cap Counted = {}
  BY <1>2, <1>3 DEF OpenFiles, Counted, Orphans
<1>7. Kept \subseteq FileObjects /\ Counted \subseteq FileObjects
  BY <1>3 DEF Counted, Orphans
<1>8. IsFiniteSet(Kept) /\ IsFiniteSet(Counted) /\ Cardinality(Kept) \in Nat /\ Cardinality(Counted) \in Nat
  BY <1>7, Finite
<1>9. Cardinality(OpenFiles) = Cardinality(Kept) + Cardinality(Counted) - Cardinality({})
  <2> HIDE DEF Kept
  <2> QED BY <1>6, <1>8, FS_Union
<1>10. Cardinality({}) = 0
  BY FS_EmptySet
<1>11. mudlle_file_count = Cardinality(OpenFiles)
  BY DEF FilesInv
<1>12. CountAfter = Cardinality(Kept) /\ CountAfter \in Nat /\ CountAfter <= mudlle_file_count
  <2> HIDE DEF Kept
  <2> QED BY <1>8, <1>9, <1>10, <1>11 DEF CountAfter
<1>13. FaultAfter = "none"
  <2>1. ~(CountAfter < 0)
    BY <1>12
  <2>2. \A o \in Counted : data[o].FILE
    BY <1>2 DEF Counted, Orphans
  <2> QED BY <2>1, <2>2 DEF FaultAfter, FilesInv
<1> QED BY <1>1, <1>4, <1>5, <1>12, <1>13

LEMMA CollectKeeps ==
  ASSUME FileHypotheses, FilesInv, data' = Collected, mudlle_file_count' = CountAfter,
         fault' = FaultAfter, reach' = reach,
         answer' = AtLimit => CountAfter = MAX_MUDLLE_OPEN_FILES
  PROVE  FilesInv'
<1>1. data' = [o \in FileObjects |-> data'[o]] /\ \A o \in FileObjects : WellFormed(data'[o])
  BY CollectedAll, CollectedFile
<1>2. Reachable'
  BY CollectedFile DEF FilesInv, Reachable
<1>3. OpenFiles' = {o \in FileObjects : Collected[o].FILE}
  BY DEF OpenFiles
<1>4. mudlle_file_count' = Cardinality(OpenFiles')
  BY <1>3, CollectedAll
<1>5. mudlle_file_count' <= MAX_MUDLLE_OPEN_FILES
  <2>1. mudlle_file_count <= MAX_MUDLLE_OPEN_FILES /\ mudlle_file_count = Cardinality(OpenFiles)
    BY DEF FilesInv
  <2>2. Cardinality(OpenFiles) \in Nat
    BY Finite DEF OpenFiles
  <2>3. CountAfter \in Nat /\ CountAfter <= mudlle_file_count /\ mudlle_file_count' = CountAfter
    BY CollectedAll
  <2>4. MAX_MUDLLE_OPEN_FILES \in Nat
    BY DEF FileHypotheses
  <2> QED BY <2>1, <2>2, <2>3, <2>4
<1>6. answer' = AtLimit => Cardinality({o \in reach'.file : data'[o].f}) = MAX_MUDLLE_OPEN_FILES
  BY CollectedAll
<1> QED BY <1>1, <1>2, <1>4, <1>5, <1>6, CollectedAll DEF FilesInv

-----------------------------------------------------------------------------
(***************************************************************************)
(* Opening, closing and asking for the port                                *)
(***************************************************************************)
\* A new file is one more
LEMMA OpenKeeps ==
  ASSUME FileHypotheses, FilesInv, NEW o \in FileObjects, NEW writable \in BOOLEAN,
         NEW after, after = [q \in FileObjects |-> after[q]], \A q \in FileObjects : WellFormed(after[q]),
         \A q \in reach.file : after[q].object, \A q \in reach.port : after[q].port # "none",
         NEW count \in Nat, count = Cardinality({q \in FileObjects : after[q].FILE}),
         count < MAX_MUDLLE_OPEN_FILES,
         after[o] = NoFile, o \notin reach.file \cup reach.port,
         data' = [after EXCEPT ![o] = Opened(writable)],
         mudlle_file_count' = count + 1,
         reach' = [reach EXCEPT !.file = @ \cup {o}],
         answer' # AtLimit, fault' = "none"
  PROVE  FilesInv'
<1>1. data' = [q \in FileObjects |-> data'[q]] /\ data'[o] = Opened(writable)
      /\ \A q \in FileObjects \ {o} : data'[q] = after[q]
  OBVIOUS
<1>2. WellFormed(Opened(writable)) /\ Opened(writable).FILE /\ Opened(writable).object
  BY DEF WellFormed, Opened, NoFile
<1>3. \A q \in FileObjects : WellFormed(data'[q])
  BY <1>1, <1>2
<1>4. reach \in [file : SUBSET FileObjects, port : SUBSET FileObjects]
  BY DEF FilesInv, Reachable
<1>5. reach' \in [file : SUBSET FileObjects, port : SUBSET FileObjects]
      /\ reach'.file = reach.file \cup {o} /\ reach'.port = reach.port
  BY <1>4
<1>6. Reachable'
  BY <1>1, <1>2, <1>4, <1>5 DEF Reachable
<1>7. mudlle_file_count' = Cardinality(OpenFiles') /\ mudlle_file_count' <= MAX_MUDLLE_OPEN_FILES
  <2> DEFINE Before == {q \in FileObjects : after[q].FILE}
  <2>1. ~after[o].FILE
    BY DEF NoFile
  <2>2. OpenFiles' = Before \cup {o} /\ o \notin Before
    BY <1>1, <1>2, <2>1 DEF OpenFiles
  <2>3. IsFiniteSet(Before)
    BY Finite
  <2> HIDE DEF Before
  <2>4. Cardinality(OpenFiles') = Cardinality(Before) + 1
    BY <2>2, <2>3, FS_AddElement
  <2>5. mudlle_file_count' = Cardinality(OpenFiles')
    BY <2>4 DEF Before
  <2> QED BY <2>5 DEF FileHypotheses
<1> QED BY <1>1, <1>3, <1>6, <1>7 DEF FilesInv

LEMMA file_open_keeps ==
  ASSUME FileHypotheses, FilesInv, NEW o \in FileObjects, NEW writable \in BOOLEAN, NEW truncates,
         file_open(o, writable, truncates)
  PROVE  FilesInv'
<1> DEFINE full == mudlle_file_count >= MAX_MUDLLE_OPEN_FILES
           after == IF full THEN Collected ELSE data
           count == IF full THEN CountAfter ELSE mudlle_file_count
<1>1. /\ after[o] = NoFile /\ o \notin reach.file \cup reach.port
      /\ fault' = IF full THEN FaultAfter ELSE fault
      /\ IF count >= MAX_MUDLLE_OPEN_FILES
         THEN /\ answer' = AtLimit
              /\ data' = after /\ mudlle_file_count' = count
              /\ UNCHANGED reach
         ELSE /\ answer' = [op |-> "open", errno |-> "none"]
              /\ mudlle_file_count' = count + 1
              /\ data' = [after EXCEPT ![o] = Opened(writable)]
              /\ reach' = [reach EXCEPT !.file = @ \cup {o}]
  BY DEF file_open, AtLimit
<1>2. mudlle_file_count \in Nat /\ MAX_MUDLLE_OPEN_FILES \in Nat
      /\ mudlle_file_count = Cardinality(OpenFiles) /\ mudlle_file_count <= MAX_MUDLLE_OPEN_FILES
  BY Finite DEF FilesInv, OpenFiles, FileHypotheses
<1>3. count \in Nat /\ count <= MAX_MUDLLE_OPEN_FILES /\ count = Cardinality({q \in FileObjects : after[q].FILE})
  <2>1. CASE full
    <3>1. CountAfter \in Nat /\ CountAfter <= mudlle_file_count
          /\ CountAfter = Cardinality({q \in FileObjects : Collected[q].FILE})
      BY CollectedAll
    <3>2. after = Collected /\ count = CountAfter
      BY <2>1
    <3> HIDE DEF after, count
    <3> QED BY <1>2, <3>1, <3>2
  <2>2. CASE ~full
    BY <2>2, <1>2 DEF OpenFiles
  <2> QED BY <2>1, <2>2
<1>4. fault' = "none"
  BY <1>1, CollectedAll DEF FilesInv
<1>5. /\ after = [q \in FileObjects |-> after[q]] /\ \A q \in FileObjects : WellFormed(after[q])
      /\ \A q \in reach.file : after[q].object
      /\ \A q \in reach.port : after[q].port # "none"
  <2>1. reach.file \subseteq FileObjects /\ reach.port \subseteq FileObjects
    BY DEF FilesInv, Reachable
  <2>2. CASE full
    BY <2>1, <2>2, CollectedAll, CollectedFile
  <2>3. CASE ~full
    BY <2>1, <2>3 DEF FilesInv, Reachable
  <2> QED BY <2>2, <2>3
<1>6. CASE count >= MAX_MUDLLE_OPEN_FILES
  <2>1. count = MAX_MUDLLE_OPEN_FILES
    BY <1>6, <1>2, <1>3
  <2>2. full
    BY <1>6, <1>2
  <2> HIDE DEF full
  <2>3. data' = Collected /\ mudlle_file_count' = CountAfter /\ reach' = reach /\ CountAfter = MAX_MUDLLE_OPEN_FILES
    BY <1>1, <1>6, <2>1, <2>2
  <2>4. fault' = FaultAfter
    BY <1>1, <2>2
  <2> QED BY <2>3, <2>4, CollectKeeps
<1>7. CASE ~(count >= MAX_MUDLLE_OPEN_FILES)
  <2>1. count < MAX_MUDLLE_OPEN_FILES
    BY <1>2, <1>3, <1>7
  <2>2. answer' # AtLimit
    BY <1>1, <1>7 DEF AtLimit
  <2>3. mudlle_file_count' = count + 1 /\ data' = [after EXCEPT ![o] = Opened(writable)]
        /\ reach' = [reach EXCEPT !.file = @ \cup {o}]
    BY <1>1, <1>7
  <2>4. after[o] = NoFile /\ o \notin reach.file \cup reach.port
    BY <1>1
  <2> HIDE DEF after, count
  <2> QED BY <2>1, <2>2, <2>3, <2>4, <1>3, <1>4, <1>5, OpenKeeps
<1> QED BY <1>6, <1>7

\* A file that is closed is one less, and its port is closed with it
LEMMA file_close_keeps ==
  ASSUME FileHypotheses, FilesInv, NEW o \in FileObjects, NEW fails \in CloseFails, file_close(o, fails)
  PROVE  FilesInv'
<1> DEFINE d == data[o]
           c == close_mudlle_file_oport(d)
           e == [c EXCEPT !.FILE = FALSE, !.f = FALSE]
<1>1. fails = FALSE
  BY DEF FileHypotheses
<1>2. o \in reach.file /\ d.f /\ WellFormed(d) /\ d.FILE /\ d.object
  BY DEF file_close, FilesInv, WellFormed
<1>3. data' = [data EXCEPT ![o] = e]
  BY <1>1 DEF file_close
<1>4. mudlle_file_count' = mudlle_file_count - 1 /\ reach' = reach /\ answer' # AtLimit /\ fault' = "none"
  BY <1>2 DEF file_close, AtLimit, FilesInv
<1>5. /\ c.pos = d.pos /\ c.object = d.object /\ c.port # "open" /\ ~c.linked
      /\ (d.port # "none" => c.port # "none")
      /\ c \in [object : BOOLEAN, f : BOOLEAN, FILE : BOOLEAN, writable : BOOLEAN,
                pos : {d.pos}, port : {"none", "open", "closed"}, linked : BOOLEAN]
  BY <1>2 DEF close_mudlle_file_oport, WellFormed
<1>6. WellFormed(e) /\ ~e.FILE /\ e.object /\ (d.port # "none" => e.port # "none")
  <2> HIDE DEF c, d
  <2> QED BY <1>2, <1>5 DEF WellFormed
<1> HIDE DEF e, c
<1>7. data' = [q \in FileObjects |-> data'[q]] /\ data'[o] = e /\ \A q \in FileObjects \ {o} : data'[q] = data[q]
  BY <1>3 DEF FilesInv
<1>8. \A q \in FileObjects : WellFormed(data'[q])
  BY <1>6, <1>7 DEF FilesInv
<1>9. Reachable'
  BY <1>4, <1>6, <1>7 DEF FilesInv, Reachable
<1>10. OpenFiles' = OpenFiles \ {o} /\ o \in OpenFiles
  BY <1>2, <1>6, <1>7 DEF OpenFiles
<1>11. mudlle_file_count' = Cardinality(OpenFiles') /\ mudlle_file_count' <= MAX_MUDLLE_OPEN_FILES
  <2>1. IsFiniteSet(OpenFiles) /\ Cardinality(OpenFiles) \in Nat
    BY Finite DEF OpenFiles
  <2>2. Cardinality(OpenFiles') = Cardinality(OpenFiles) - 1
    BY <1>10, <2>1, FS_RemoveElement
  <2>3. mudlle_file_count = Cardinality(OpenFiles) /\ mudlle_file_count <= MAX_MUDLLE_OPEN_FILES
    BY DEF FilesInv
  <2>4. MAX_MUDLLE_OPEN_FILES \in Nat
    BY DEF FileHypotheses
  <2> QED BY <1>4, <2>1, <2>2, <2>3, <2>4
<1> QED BY <1>4, <1>7, <1>8, <1>9, <1>11 DEF FilesInv

LEMMA file_oport_keeps ==
  ASSUME FilesInv, NEW o \in FileObjects, file_oport(o)
  PROVE  FilesInv'
<1> DEFINE d == data[o]
<1>1. o \in reach.file /\ d.f /\ WellFormed(d) /\ answer' # AtLimit
      /\ UNCHANGED <<mudlle_file_count, fault>> /\ reach' = [reach EXCEPT !.port = @ \cup {o}]
  BY DEF file_oport, FilesInv, Done, AtLimit
<1>2. data' = [data EXCEPT ![o] = IF d.linked THEN d ELSE [d EXCEPT !.port = "open", !.linked = TRUE]]
  BY DEF file_oport, FilesInv
<1>3. data' = [q \in FileObjects |-> data'[q]] /\ \A q \in FileObjects \ {o} : data'[q] = data[q]
  BY <1>2 DEF FilesInv
<1>4. data'[o] = IF d.linked THEN d ELSE [d EXCEPT !.port = "open", !.linked = TRUE]
  BY <1>2 DEF FilesInv
<1>5. /\ WellFormed(data'[o]) /\ data'[o].port # "none" /\ data'[o].FILE = d.FILE
      /\ data'[o].object = d.object
  <2> HIDE DEF d
  <2>1. CASE d.linked
    BY <2>1, <1>1, <1>4 DEF WellFormed
  <2>2. CASE ~d.linked
    <3>1. data'[o] = [d EXCEPT !.port = "open", !.linked = TRUE]
      BY <2>2, <1>4
    <3> QED BY <3>1, <1>1 DEF WellFormed
  <2> QED BY <2>1, <2>2
<1>6. \A q \in FileObjects : WellFormed(data'[q])
  BY <1>3, <1>5 DEF FilesInv
<1>7. OpenFiles' = OpenFiles
  BY <1>3, <1>5 DEF OpenFiles
<1>8. Reachable'
  <2>1. reach \in [file : SUBSET FileObjects, port : SUBSET FileObjects]
    BY DEF FilesInv, Reachable
  <2>2. reach' \in [file : SUBSET FileObjects, port : SUBSET FileObjects]
        /\ reach'.file = reach.file /\ reach'.port = reach.port \cup {o}
    BY <1>1, <2>1
  <2> QED BY <1>3, <1>5, <2>1, <2>2 DEF FilesInv, Reachable
<1> QED BY <1>1, <1>3, <1>6, <1>7, <1>8 DEF FilesInv

-----------------------------------------------------------------------------
(***************************************************************************)
(* Every behaviour                                                         *)
(***************************************************************************)
LEMMA HandleOpen ==
  ASSUME FilesInv, NEW h \in Handles
  PROVE  h = ByName \/ (h \in FileObjects /\ data[h].f)
BY DEF FilesInv, Handles, Reachable

LEMMA FilesStart == ASSUME FileHypotheses, FilesInit PROVE FilesInv
<1>1. data = [o \in FileObjects |-> NoFile] /\ reach = NoReach
      /\ mudlle_file_count = 0 /\ answer = Done /\ fault = "none"
  BY DEF FilesInit
<1>2. WellFormed(NoFile) /\ ~NoFile.FILE
  BY DEF WellFormed, NoFile
<1>3. OpenFiles = {}
  BY <1>1, <1>2 DEF OpenFiles
<1>4. Reachable
  BY <1>1 DEF Reachable, NoReach
<1>5. answer # AtLimit
  BY <1>1 DEF Done, AtLimit
<1> QED BY <1>1, <1>2, <1>3, <1>4, <1>5, FS_EmptySet DEF FilesInv, FileHypotheses

LEMMA FilesStep == ASSUME FileHypotheses, FilesInv, [FilesNext]_file_vars PROVE FilesInv'
<1> USE DEF AtLimit, Done
<1>1. CASE garbage_collect
  BY <1>1, CollectKeeps DEF garbage_collect
<1>2. CASE \E o \in FileObjects, writable, truncates \in BOOLEAN : file_open(o, writable, truncates)
  BY <1>2, file_open_keeps
<1>3. CASE \E o \in FileObjects, fails \in CloseFails : file_close(o, fails)
  BY <1>3, file_close_keeps
<1>4. CASE \E o \in FileObjects : file_oport(o)
  BY <1>4, file_oport_keeps
<1>5. CASE \E o \in FileObjects, what \in {"file", "port"} : forget(o, what)
  <2>1. PICK o \in FileObjects, what \in {"file", "port"} : forget(o, what)
    BY <1>5
  <2>2. reach \in [file : SUBSET FileObjects, port : SUBSET FileObjects]
    BY DEF FilesInv, Reachable
  <2>3. UNCHANGED <<data, mudlle_file_count, fault>> /\ answer' # AtLimit
        /\ reach' = [reach EXCEPT ![what] = @ \ {o}]
    BY <2>1 DEF forget
  <2>4. /\ reach' \in [file : SUBSET FileObjects, port : SUBSET FileObjects]
        /\ reach'.file \subseteq reach.file /\ reach'.port \subseteq reach.port
    BY <2>2, <2>3
  <2> QED BY <2>3, <2>4 DEF FilesInv, Reachable, OpenFiles
<1>6. CASE \E h \in Handles, start \in 0..2, bytes \in -1..2, size \in {0, MAXSIZE - 2} :
             print_file_part(h, start, bytes, size)
  <2>1. PICK h \in Handles, start \in 0..2, bytes \in -1..2, size \in {0, MAXSIZE - 2} :
          print_file_part(h, start, bytes, size)
    BY <1>6
  <2>2. /\ data' = Moved(h, Pieces(PositionOf(h) + start, bytes, size).pos) /\ Used(h)
        /\ UNCHANGED <<reach, mudlle_file_count>> /\ answer' # AtLimit
    BY <2>1 DEF print_file_part
  <2> QED BY <2>2, HandleOpen, MovedKeeps
<1>7. CASE \E h \in Handles : file_read(h)
  <2>1. PICK h \in Handles : file_read(h)
    BY <1>7
  <2>2. PICK pos : data' = Moved(h, pos)
    BY <2>1 DEF file_read
  <2>3. Used(h) /\ UNCHANGED <<reach, mudlle_file_count>> /\ answer' # AtLimit
    BY <2>1 DEF file_read
  <2> QED BY <2>2, <2>3, HandleOpen, MovedKeeps
<1>8. CASE \E h \in Handles, n \in 0..2, do_append \in BOOLEAN : file_write(h, n, 1, do_append)
  <2>1. PICK h \in Handles, n \in 0..2, do_append \in BOOLEAN : file_write(h, n, 1, do_append)
    BY <1>8
  <2>2. PICK pos : data' = Moved(h, pos)
    BY <2>1 DEF file_write, Moved
  <2>3. Used(h) /\ UNCHANGED <<reach, mudlle_file_count>> /\ answer' # AtLimit
    BY <2>1 DEF file_write
  <2> QED BY <2>2, <2>3, HandleOpen, MovedKeeps
<1>9. CASE \E o \in FileObjects : port_write(o, 1)
  <2>1. PICK o \in FileObjects : port_write(o, 1)
    BY <1>9
  <2>2. UNCHANGED <<reach, mudlle_file_count>> /\ answer' # AtLimit
    BY <2>1 DEF port_write
  <2>3. CASE data[o].port = "closed"
    <3>1. UNCHANGED <<data, fault>>
      BY <2>1, <2>3 DEF port_write
    <3> QED BY <2>2, <3>1 DEF FilesInv, Reachable, OpenFiles
  <2>4. CASE data[o].port # "closed"
    <3>1. data[o].port # "none" /\ WellFormed(data[o])
      BY <2>1 DEF port_write, FilesInv, Reachable
    <3>2. data[o].f
      BY <3>1, <2>4 DEF WellFormed
    <3>3. data' = Moved(o, data[o].pos + 1) /\ Used(o)
      BY <2>1, <2>4 DEF port_write
    <3> QED BY <2>2, <3>2, <3>3, MovedKeeps
  <2> QED BY <2>3, <2>4
<1>10. CASE \E o \in FileObjects, pos \in 0..MaxDisk : file_seek(o, pos)
  <2>1. PICK o \in FileObjects, pos \in 0..MaxDisk : file_seek(o, pos)
    BY <1>10
  <2>2. /\ o \in Handles /\ data' = Moved(o, pos) /\ Used(o)
        /\ UNCHANGED <<reach, mudlle_file_count>> /\ answer' # AtLimit
    BY <2>1 DEF file_seek
  <2> QED BY <2>2, HandleOpen, MovedKeeps
<1>11. CASE \E h \in Handles, len \in 0..MaxDisk : file_truncate(h, len)
  <2>1. PICK h \in Handles, len \in 0..MaxDisk : file_truncate(h, len)
    BY <1>11
  <2>2. Used(h) /\ UNCHANGED <<reach, mudlle_file_count>> /\ answer' # AtLimit
    BY <2>1 DEF file_truncate
  <2>3. CASE data' = Moved(h, len)
    BY <2>2, <2>3, HandleOpen, MovedKeeps
  <2>4. CASE data' = data
    <3>1. ByName = ByName /\ data' = Moved(ByName, 0)
      BY <2>4 DEF Moved
    <3>2. fault' = "none"
      <4>1. h # ByName => data[h].FILE
        BY HandleOpen DEF FilesInv, WellFormed
      <4> QED BY <4>1, <2>2 DEF Used, FilesInv
    <3>3. Used(ByName)
      BY <3>2 DEF Used, FilesInv
    <3> QED BY <2>2, <3>1, <3>3, MovedKeeps
  <2> QED BY <2>1, <2>3, <2>4 DEF file_truncate
<1>12. CASE Return \/ UNCHANGED file_vars
  <2>1. UNCHANGED <<data, reach, mudlle_file_count, fault>>
    BY <1>12 DEF Return, file_vars
  <2>2. answer' = answer \/ answer' # AtLimit
    BY <1>12 DEF Return, file_vars
  <2>3. OpenFiles' = OpenFiles /\ Reachable'
    BY <2>1 DEF OpenFiles, Reachable, FilesInv
  <2> QED BY <2>1, <2>2, <2>3 DEF FilesInv
<1> QED BY <1>1, <1>2, <1>3, <1>4, <1>5, <1>6, <1>7, <1>8, <1>9, <1>10, <1>11, <1>12 DEF FilesNext

\* A file is counted exactly as long as its FILE is open: the count never
\* passes the limit, a program is refused a file only when it holds as many
\* itself, and nothing is done to a FILE that has been closed
\* (files.c:678-686, 786-803)
THEOREM OpenFilesCounted ==
  ASSUME CloseFails \subseteq {FALSE}
  PROVE  FilesSpec => []FilesCounted
<1>0. FileHypotheses
  BY FileAssumption DEF FileHypotheses, FileAssumption
<1>1. FilesInit => FilesInv
  BY <1>0, FilesStart
<1>2. FilesInv /\ [FilesNext]_file_vars => FilesInv'
  BY <1>0, FilesStep
<1>3. FilesInv => FilesCounted
  BY DEF FilesInv, FilesCounted, OpenFiles, AtLimit, WellFormed
<1> QED BY <1>1, <1>2, <1>3, PTL DEF FilesSpec

-----------------------------------------------------------------------------
(***************************************************************************)
(* Reading and printing.  Whatever fclose() answers, and also after it has *)
(* failed, what is read or printed of a file is what was asked for.        *)
(***************************************************************************)
Texts == Seq(Nat)
FileData == [object : BOOLEAN, f : BOOLEAN, FILE : BOOLEAN, writable : BOOLEAN, pos : Nat,
             port : {"none", "open", "closed"}, linked : BOOLEAN]

\* The k bytes after the first `from'
Text(from, k) == SubSeq(disk, from + 1, from + k)

LEMMA TextFacts ==
  ASSUME disk \in Texts, NEW from \in Nat, NEW k \in Nat, k = 0 \/ from + k <= Len(disk)
  PROVE  Text(from, k) \in Texts /\ Len(Text(from, k)) = k
<1>1. \A i \in from + 1..from + k : disk[i] \in Nat
  BY DEF Texts
<1>2. from + 1 \in Int /\ from + k \in Int
  OBVIOUS
<1>3. /\ Text(from, k) \in Texts
      /\ Len(Text(from, k)) = IF from + 1 <= from + k THEN from + k - (from + 1) + 1 ELSE 0
  BY <1>1, <1>2, SubSeqProperties DEF Text, Texts
<1> QED BY <1>3

\* Bytes that follow each other
LEMMA TextAdds ==
  ASSUME disk \in Texts, NEW from \in Nat, NEW k \in Nat, NEW r \in Nat,
         k = 0 \/ from + k <= Len(disk), r = 0 \/ from + k + r <= Len(disk)
  PROVE  Text(from, k) \o Bytes(from + k, from + k + r) = Text(from, k + r)
<1>1. Len(disk) \in Nat
  BY DEF Texts
<1>2. CASE from + k <= Len(disk)
  <2>1. from + 1 \in 1..Len(disk) + 1
    BY <1>1, <1>2
  <2>2. from + k \in (from + 1) - 1..Len(disk)
    BY <1>1, <1>2
  <2>3. from + k + r \in from + k..Len(disk)
    BY <1>1, <1>2
  <2>4. SubSeq(disk, from + 1, from + k) \o SubSeq(disk, from + k + 1, from + k + r)
          = SubSeq(disk, from + 1, from + k + r)
    BY <2>1, <2>2, <2>3, ConcatAdjacentSubSeq DEF Texts
  <2>5. from + (k + r) = from + k + r
    OBVIOUS
  <2> QED BY <2>4, <2>5 DEF Text, Bytes
<1>3. CASE ~(from + k <= Len(disk))
  <2>1. k = 0 /\ r = 0
    BY <1>1, <1>3
  <2>2. Text(from, 0) = <<>> /\ Bytes(from, from) = <<>>
    BY SubSeqEmpty DEF Text, Bytes
  <2>3. from + 0 = from /\ from + 0 + 0 = from /\ 0 + 0 = 0
    OBVIOUS
  <2>4. Text(from, 0) \o Bytes(from, from) = Text(from, 0)
    BY <2>2
  <2> QED BY <2>1, <2>3, <2>4
<1> QED BY <1>2, <1>3

(***************************************************************************)
(* The loop of print_file_part().                                          *)
(***************************************************************************)
Passes == [pos : Nat, bytes : Int, size : Int, text : Texts, r : {"loop", "all", "full"}]

\* After n passes k bytes are printed
Printed(p, n, from, bytes, size, k) ==
  /\ p.text = Text(from, k) /\ (k = 0 \/ from + k <= Len(disk))
  /\ bytes >= 0 => k <= bytes
  /\ p.r = "loop" => /\ p.pos = from + k /\ p.size = size + k /\ n <= k
                     /\ p.bytes = IF bytes < 0 THEN bytes ELSE bytes - k
  /\ p.r = "all" => from + k >= Len(disk) \/ k = bytes
  /\ p.r = "full" => size + k + BUFSIZE >= MAXSIZE

\* Changing a record of this shape, a field at a time
LEMMA PassRead ==
  ASSUME NEW x1, NEW x2, NEW x3, NEW x4, NEW x5, NEW pos, NEW size
  PROVE  [[pos |-> x1, bytes |-> x2, size |-> x3, text |-> x4, r |-> x5] EXCEPT !.pos = pos, !.size = size]
           = [pos |-> pos, bytes |-> x2, size |-> size, text |-> x4, r |-> x5]
<1> DEFINE p == [pos |-> x1, bytes |-> x2, size |-> x3, text |-> x4, r |-> x5]
           moved == [p EXCEPT !.pos = pos]
           grown == [moved EXCEPT !.size = size]
<1>1. moved = [pos |-> pos, bytes |-> x2, size |-> x3, text |-> x4, r |-> x5]
  OBVIOUS
<1>2. grown = [moved EXCEPT !.size = size]
  OBVIOUS
<1> HIDE DEF moved, grown
<1>3. grown = [pos |-> pos, bytes |-> x2, size |-> size, text |-> x4, r |-> x5]
  BY <1>1, <1>2
<1> QED BY <1>3 DEF moved, grown

LEMMA PassNext ==
  ASSUME NEW x1, NEW x2, NEW x3, NEW x4, NEW x5, NEW bytes, NEW text, NEW r
  PROVE  [[pos |-> x1, bytes |-> x2, size |-> x3, text |-> x4, r |-> x5]
            EXCEPT !.text = text, !.bytes = bytes, !.r = r]
           = [pos |-> x1, bytes |-> bytes, size |-> x3, text |-> text, r |-> r]
<1> DEFINE p == [pos |-> x1, bytes |-> x2, size |-> x3, text |-> x4, r |-> x5]
           printed == [p EXCEPT !.text = text]
           counted == [printed EXCEPT !.bytes = bytes]
           ended == [counted EXCEPT !.r = r]
<1>1. printed = [pos |-> x1, bytes |-> x2, size |-> x3, text |-> text, r |-> x5]
  OBVIOUS
<1>2. counted = [printed EXCEPT !.bytes = bytes]
  OBVIOUS
<1>5. ended = [counted EXCEPT !.r = r]
  OBVIOUS
<1> HIDE DEF printed, counted, ended
<1>3. counted = [pos |-> x1, bytes |-> bytes, size |-> x3, text |-> text, r |-> x5]
  BY <1>1, <1>2
<1>4. ended = [pos |-> x1, bytes |-> bytes, size |-> x3, text |-> text, r |-> r]
  BY <1>3, <1>5
<1> QED BY <1>4 DEF printed, counted, ended

LEMMA PassFacts ==
  ASSUME disk \in Texts, NEW p \in Passes, p.r = "loop", NEW n \in Nat, NEW from \in Nat,
         NEW bytes \in Int, NEW size \in Int, NEW k \in Nat, Printed(p, n, from, bytes, size, k)
  PROVE  Pass(p) \in Passes /\ \E l \in Nat : Printed(Pass(p), n + 1, from, bytes, size, l)
<1> DEFINE L == Len(disk)
           toread == IF p.bytes < 0 \/ p.bytes > BUFSIZE THEN BUFSIZE ELSE p.bytes
           res == Least(toread, IF p.pos < L THEN L - p.pos ELSE 0)
           read == [p EXCEPT !.pos = @ + res, !.size = @ + res]
           next == [read EXCEPT !.text = @ \o Bytes(p.pos, read.pos),
                                !.bytes = IF @ >= 0 THEN @ - res ELSE @,
                                !.r = IF res < toread THEN "all" ELSE "loop"]
<1>1. BUFSIZE \in Nat \ {0} /\ MAXSIZE \in Nat /\ L \in Nat
  BY FileAssumption DEF FileAssumption, Texts
<1>2. p.pos \in Nat /\ p.bytes \in Int /\ p.size \in Int /\ p.text \in Texts
  BY DEF Passes
<1>12. p = [pos |-> p.pos, bytes |-> p.bytes, size |-> p.size, text |-> p.text, r |-> p.r]
  BY DEF Passes
<1>3. /\ p.text = Text(from, k) /\ (k = 0 \/ from + k <= L) /\ (bytes >= 0 => k <= bytes)
      /\ p.pos = from + k /\ p.size = size + k /\ n <= k
      /\ p.bytes = IF bytes < 0 THEN bytes ELSE bytes - k
  BY DEF Printed
<1>4. toread \in Nat /\ toread <= BUFSIZE /\ (p.bytes < 0 \/ toread <= p.bytes)
      /\ (p.bytes # 0 => toread >= 1)
  BY <1>1, <1>2, <1>3
<1>5. /\ res \in Nat /\ res <= toread /\ (res = 0 \/ from + k + res <= L)
      /\ (res < toread => from + k + res >= L)
  <2> DEFINE left == IF p.pos < L THEN L - p.pos ELSE 0
  <2> HIDE DEF toread, L
  <2>1. left \in Nat /\ (left = 0 \/ from + k + left = L) /\ from + k + left >= L
    BY <1>1, <1>2, <1>3
  <2>2. res = IF toread < left THEN toread ELSE left
    BY DEF Least
  <2> HIDE DEF left, res
  <2> QED BY <1>1, <1>4, <2>1, <2>2
<1> HIDE DEF L, toread, res
<1>6. /\ read = [pos |-> p.pos + res, bytes |-> p.bytes, size |-> p.size + res,
                 text |-> p.text, r |-> p.r]
      /\ read.pos = p.pos + res /\ read.bytes = p.bytes /\ read.text = p.text
      /\ read.size = p.size + res
  <2>1. read = [pos |-> p.pos + res, bytes |-> p.bytes, size |-> p.size + res,
                 text |-> p.text, r |-> p.r]
    <3>1. read = [[pos |-> p.pos, bytes |-> p.bytes, size |-> p.size, text |-> p.text, r |-> p.r]
                    EXCEPT !.pos = p.pos + res, !.size = p.size + res]
      BY <1>12, Zenon
    <3> HIDE DEF read
    <3> QED BY <3>1, PassRead, Zenon
  <2> HIDE DEF read
  <2> QED BY <2>1
<1>7. next = [pos |-> p.pos + res, bytes |-> IF p.bytes >= 0 THEN p.bytes - res ELSE p.bytes,
              size |-> p.size + res, text |-> p.text \o Bytes(p.pos, p.pos + res),
              r |-> IF res < toread THEN "all" ELSE "loop"]
  <2>1. next = [read EXCEPT !.text = p.text \o Bytes(p.pos, p.pos + res),
                            !.bytes = IF p.bytes >= 0 THEN p.bytes - res ELSE p.bytes,
                            !.r = IF res < toread THEN "all" ELSE "loop"]
    <3> HIDE DEF read
    <3> QED BY <1>6
  <2>2. read = [pos |-> p.pos + res, bytes |-> p.bytes, size |-> p.size + res,
                text |-> p.text, r |-> p.r]
    BY <1>6
  <2> HIDE DEF next, read
  <2> QED BY <2>1, <2>2, PassNext, Zenon
<1>8. Pass(p) = IF p.bytes = 0 THEN [p EXCEPT !.r = "all"]
                ELSE IF read.size >= MAXSIZE THEN [read EXCEPT !.r = "full"] ELSE next
  BY DEF Pass, res, toread, L
<1> HIDE DEF read, next
<1>9. CASE p.bytes = 0
  <2>1. Pass(p) = [pos |-> p.pos, bytes |-> p.bytes, size |-> p.size, text |-> p.text, r |-> "all"]
    BY <1>12, <1>8, <1>9
  <2>2. k = bytes
    BY <1>3, <1>9
  <2>3. Pass(p) \in Passes
    BY <1>2, <2>1 DEF Passes
  <2> QED BY <1>3, <2>1, <2>2, <2>3 DEF Printed, L
<1>10. CASE p.bytes # 0 /\ read.size >= MAXSIZE
  <2>1. Pass(p) = [pos |-> p.pos + res, bytes |-> p.bytes, size |-> p.size + res,
                   text |-> p.text, r |-> "full"]
    BY <1>6, <1>8, <1>10
  <2>2. Pass(p) \in Passes
    BY <1>2, <1>5, <2>1 DEF Passes
  <2>3. size + k + BUFSIZE >= MAXSIZE
    BY <1>1, <1>3, <1>4, <1>5, <1>6, <1>10
  <2> QED BY <1>3, <2>1, <2>2, <2>3 DEF Printed, L
<1>11. CASE p.bytes # 0 /\ ~(read.size >= MAXSIZE)
  <2>1. Pass(p) = next
    BY <1>8, <1>11
  <2>2. p.text \o Bytes(p.pos, p.pos + res) = Text(from, k + res)
    <3>1. Text(from, k) \o Bytes(from + k, from + k + res) = Text(from, k + res)
      BY <1>3, <1>5, TextAdds DEF L
    <3> QED BY <1>3, <3>1
  <2>3. (k + res = 0 \/ from + (k + res) <= L) /\ k + res \in Nat
    BY <1>1, <1>3, <1>5
  <2>4. Text(from, k + res) \in Texts
    BY <2>3, TextFacts DEF L
  <2>5. next \in Passes
    <3>1. p.pos + res \in Nat /\ p.size + res \in Int
      BY <1>2, <1>5
    <3>3. (IF p.bytes >= 0 THEN p.bytes - res ELSE p.bytes) \in Int
      BY <1>2, <1>5
    <3>2. (IF res < toread THEN "all" ELSE "loop") \in {"loop", "all", "full"}
      OBVIOUS
    <3> QED BY <1>7, <2>2, <2>4, <3>1, <3>2, <3>3 DEF Passes
  <2>6. bytes >= 0 => k + res <= bytes
    BY <1>3, <1>4, <1>5
  <2>7. next.r = "loop" => /\ next.pos = from + (k + res) /\ next.size = size + (k + res)
                           /\ n + 1 <= k + res
                           /\ next.bytes = IF bytes < 0 THEN bytes ELSE bytes - (k + res)
    <3>1. /\ next.r = (IF res < toread THEN "all" ELSE "loop") /\ next.pos = p.pos + res
          /\ next.size = p.size + res
          /\ next.bytes = IF p.bytes >= 0 THEN p.bytes - res ELSE p.bytes
      BY <1>7
    <3>2. next.r = "loop" => res >= 1
      BY <1>4, <1>5, <1>11, <3>1
    <3> QED BY <1>1, <1>2, <1>3, <1>5, <3>1, <3>2
  <2>8. next.r = "all" => from + (k + res) >= L
    BY <1>1, <1>3, <1>5, <1>7
  <2>9. next.r # "full" /\ next.text = Text(from, k + res)
    BY <1>7, <2>2
  <2>10. Printed(next, n + 1, from, bytes, size, k + res)
    BY <2>3, <2>6, <2>7, <2>8, <2>9 DEF Printed, L
  <2> QED BY <2>1, <2>3, <2>5, <2>10
<1> QED BY <1>9, <1>10, <1>11

\* A loop that has ended
LEMMA PassEnded ==
  ASSUME NEW p \in Passes, p.r # "loop", NEW n \in Nat, NEW from, NEW bytes, NEW size, NEW k,
         Printed(p, n, from, bytes, size, k)
  PROVE  Pass(p) = p /\ Printed(p, n + 1, from, bytes, size, k)
BY DEF Pass, Printed

FirstPass(pos, bytes, size) ==
  [pos |-> pos, bytes |-> bytes, size |-> size, text |-> <<>>, r |-> "loop"]
Follows(f, first) == f = [n \in Nat |-> IF n = 0 THEN first ELSE Pass(f[n - 1])]

LEMMA FirstFacts ==
  ASSUME NEW from \in Nat, NEW bytes \in Int, NEW size \in Int
  PROVE  /\ FirstPass(from, bytes, size) \in Passes
         /\ Printed(FirstPass(from, bytes, size), 0, from, bytes, size, 0)
<1>1. <<>> \in Texts
  BY DEF Texts
<1>2. Text(from, 0) = <<>>
  BY SubSeqEmpty DEF Text
<1>3. FirstPass(from, bytes, size) \in Passes
  BY <1>1 DEF FirstPass, Passes
<1> QED BY <1>2, <1>3 DEF FirstPass, Printed

LEMMA PassesExist ==
  ASSUME disk \in Texts, NEW from \in Nat, NEW bytes \in Int, NEW size \in Int
  PROVE  \E f : /\ Follows(f, FirstPass(from, bytes, size))
                /\ \A n \in Nat : /\ f[n] \in Passes
                                  /\ \E k \in Nat : Printed(f[n], n, from, bytes, size, k)
<1> DEFINE first == FirstPass(from, bytes, size)
           Fine(p, n) == p \in Passes /\ \E k \in Nat : Printed(p, n, from, bytes, size, k)
           Turn == [q \in Nat \X Passes |-> IF Pass(q[2]) \in Passes THEN Pass(q[2]) ELSE q[2]]
<1>1. first \in Passes /\ Fine(first, 0)
  BY FirstFacts
<1>2. ASSUME NEW p, NEW n \in Nat, Fine(p, n) PROVE Fine(Pass(p), n + 1)
  <2>1. PICK k \in Nat : Printed(p, n, from, bytes, size, k)
    BY <1>2
  <2>2. CASE p.r = "loop"
    BY <1>2, <2>1, <2>2, PassFacts, ZenonT(60)
  <2>3. CASE p.r # "loop"
    BY <1>2, <2>1, <2>3, PassEnded
  <2> QED BY <2>2, <2>3
<1>3. Turn \in Bodies(Nat, Passes)
  <2>1. \A q \in Nat \X Passes : q[2] \in Passes
    OBVIOUS
  <2> QED BY <2>1 DEF Bodies
<1>4. \A n \in Nat, p \in Passes : Pass(p) \in Passes => Turn[<<n, p>>] = Pass(p)
  OBVIOUS
<1> HIDE DEF first, Turn
<1>5. PICK g : IsLoop(g, Nat, Passes, first, Turn)
  BY <1>1, <1>3, LoopExists
<1> HIDE DEF Fine
<1> DEFINE All == {n \in Nat : Fine(g[n], n)}
<1>6. ASSUME NEW n \in Nat, Fine(g[n], n) PROVE g[n + 1] = Pass(g[n]) /\ Fine(g[n + 1], n + 1)
  <2>1. Fine(Pass(g[n]), n + 1)
    BY <1>2, <1>6
  <2>2. g[n] \in Passes /\ Pass(g[n]) \in Passes
    BY <1>6, <2>1 DEF Fine
  <2>3. g[n + 1] = Turn[<<n, g[n]>>]
    BY <1>5 DEF IsLoop
  <2> QED BY <1>4, <2>1, <2>2, <2>3
<1>7. Nat \subseteq All
  <2>1. 0 \in All
    BY <1>1, <1>5 DEF IsLoop
  <2>2. \A n \in Nat : n \in All => n + 1 \in All
    BY <1>6
  <2> HIDE DEF All
  <2> QED BY <2>1, <2>2, Induction
<1> DEFINE f == [n \in Nat |-> g[n]]
<1>8. \A n \in Nat : f[n] = g[n] /\ Fine(f[n], n)
  BY <1>7
<1>9. f = [n \in Nat |-> IF n = 0 THEN first ELSE Pass(f[n - 1])]
  <2>1. ASSUME NEW n \in Nat PROVE f[n] = IF n = 0 THEN first ELSE Pass(f[n - 1])
    <3>1. CASE n = 0
      BY <1>5, <1>8, <3>1 DEF IsLoop
    <3>2. CASE n # 0
      <4>1. n - 1 \in Nat /\ (n - 1) + 1 = n
        BY <3>2
      <4>2. Fine(g[n - 1], n - 1) /\ f[n] = g[n] /\ f[n - 1] = g[n - 1]
        BY <1>7, <1>8, <4>1
      <4>3. g[(n - 1) + 1] = Pass(g[n - 1])
        BY <1>6, <4>1, <4>2
      <4> HIDE DEF f
      <4> QED BY <3>2, <4>1, <4>2, <4>3
    <3> QED BY <3>1, <3>2
  <2> QED BY <2>1
<1> HIDE DEF f
<1> QED BY <1>8, <1>9 DEF Follows, first, Fine

\* What print_file_part() prints
LEMMA PiecesFacts ==
  ASSUME disk \in Texts, NEW from \in Nat, NEW bytes \in Int, NEW size \in Int
  PROVE  LET p == Pieces(from, bytes, size) IN
         /\ p \in Passes /\ p.r # "loop"
         /\ \E k \in Nat : Printed(p, Len(disk) + 2, from, bytes, size, k)
<1> DEFINE first == FirstPass(from, bytes, size)
           passes == CHOOSE f : Follows(f, first)
           p == Pieces(from, bytes, size)
           N == Len(disk) + 2
<1>1. N \in Nat /\ Len(disk) \in Nat
  BY DEF Texts
<1>2. p = passes[N]
  BY DEF Pieces, Follows, FirstPass
<1>3. PICK f : /\ Follows(f, first)
               /\ \A n \in Nat : /\ f[n] \in Passes
                                 /\ \E k \in Nat : Printed(f[n], n, from, bytes, size, k)
  BY PassesExist
<1>4. Follows(passes, first)
  <2> HIDE DEF first
  <2> QED BY <1>3
<1> HIDE DEF first, passes, N, p
<1>5. \A n \in Nat : passes[n] = f[n]
  <2> DEFINE Same == {n \in Nat : passes[n] = f[n]}
  <2>1. passes[0] = f[0]
    BY <1>3, <1>4 DEF Follows
  <2>2. ASSUME NEW n \in Nat, passes[n] = f[n] PROVE passes[n + 1] = f[n + 1]
    <3>1. n + 1 \in Nat /\ n + 1 # 0 /\ (n + 1) - 1 = n
      OBVIOUS
    <3>2. passes[n + 1] = Pass(passes[n])
      <4> HIDE <1>3
      <4> QED BY <1>4, <3>1 DEF Follows
    <3>3. f[n + 1] = Pass(f[n])
      BY <1>3, <3>1 DEF Follows
    <3> QED BY <2>2, <3>2, <3>3
  <2>3. 0 \in Same /\ \A n \in Nat : n \in Same => n + 1 \in Same
    BY <2>1, <2>2
  <2>4. Nat \subseteq Same
    <3> HIDE DEF Same
    <3> QED BY <2>3, Induction
  <2> QED BY <2>4
<1>6. p = f[N]
  BY <1>1, <1>2, <1>5
<1>7. p \in Passes
  BY <1>1, <1>3, <1>6
<1>8. PICK k \in Nat : Printed(p, N, from, bytes, size, k)
  BY <1>1, <1>3, <1>6
<1>9. p.r # "loop"
  BY <1>1, <1>8 DEF Printed, N
<1> QED BY <1>7, <1>8, <1>9 DEF p, N

-----------------------------------------------------------------------------
(***************************************************************************)
(* What was printed or read is what was wanted                             *)
(***************************************************************************)
\* How many bytes there are from `from' up to `end'
Upto(from, end) == IF end > from THEN end - from ELSE 0

LEMMA Wanted ==
  ASSUME NEW from \in Nat, NEW end \in Nat
  PROVE  /\ Upto(from, end) \in Nat
         /\ SubSeq(disk, from + 1, end) = Text(from, Upto(from, end))
         /\ Upto(from, end) = 0 \/ from + Upto(from, end) = end
<1>1. CASE end > from
  <2>1. from + (end - from) = end
    OBVIOUS
  <2> QED BY <1>1, <2>1 DEF Upto, Text
<1>2. CASE ~(end > from)
  <2>1. end < from + 1 /\ from + 0 = from /\ from < from + 1
    BY <1>2
  <2>2. SubSeq(disk, from + 1, end) = <<>> /\ SubSeq(disk, from + 1, from) = <<>>
    BY <2>1, SubSeqEmpty
  <2> QED BY <1>2, <2>1, <2>2 DEF Upto, Text
<1> QED BY <1>1, <1>2

LEMMA TextPrefix ==
  ASSUME disk \in Texts, NEW from \in Nat, NEW k \in Nat, NEW m \in Nat, k <= m,
         m = 0 \/ from + m <= Len(disk)
  PROVE  IsPrefix(Text(from, k), Text(from, m))
<1>1. Len(disk) \in Nat
  BY DEF Texts
<1>2. k = 0 \/ from + k <= Len(disk)
  BY <1>1
<1>3. /\ Text(from, k) \in Texts /\ Len(Text(from, k)) = k
      /\ Text(from, m) \in Texts /\ Len(Text(from, m)) = m
  BY <1>2, TextFacts
<1>4. SubSeq(Text(from, k), 1, k) = SubSeq(Text(from, m), 1, k)
  <2>1. CASE k = 0
    <3>1. SubSeq(Text(from, k), 1, 0) = <<>> /\ SubSeq(Text(from, m), 1, 0) = <<>>
      BY SubSeqEmpty
    <3> QED BY <2>1, <3>1
  <2>2. CASE k # 0
    <3>1. SubSeq(Text(from, k), 1, k) = Text(from, k)
      <4>1. SubSeq(Text(from, k), 1, Len(Text(from, k))) = Text(from, k)
        BY <1>3, SubSeqFull DEF Texts
      <4> QED BY <1>3, <4>1
    <3>2. SubSeq(Text(from, m), 1, k) = SubSeq(disk, from + 1 + 1 - 1, from + 1 + k - 1)
      <4>1. /\ from + 1 \in 1..Len(disk) /\ from + m \in 1..Len(disk)
            /\ 1 \in 1..(from + m) - (from + 1) + 1 /\ k \in 1..(from + m) - (from + 1) + 1
        BY <1>1, <2>2
      <4> QED BY <4>1, SubSeqOfSubSeq DEF Text, Texts
    <3>3. from + 1 + 1 - 1 = from + 1 /\ from + 1 + k - 1 = from + k
      OBVIOUS
    <3>4. SubSeq(Text(from, m), 1, k) = Text(from, k)
      <4>1. SubSeq(disk, from + 1 + 1 - 1, from + 1 + k - 1) = SubSeq(disk, from + 1, from + k)
        BY <3>3
      <4> QED BY <3>2, <4>1 DEF Text
    <3> QED BY <3>1, <3>4
  <2> QED BY <2>1, <2>2
<1> QED BY <1>3, <1>4 DEF IsPrefix

\* Where print_file_part() is to end
EndOf(from, bytes) == IF bytes < 0 THEN Len(disk) ELSE Least(Len(disk), from + bytes)

PrintedRight(p, from, bytes, size) ==
  /\ p \in Passes
  /\ p.r # "full" => p.text = SubSeq(disk, from + 1, EndOf(from, bytes))
  /\ p.r = "full" => /\ IsPrefix(p.text, SubSeq(disk, from + 1, EndOf(from, bytes)))
                     /\ size + Len(p.text) + BUFSIZE >= MAXSIZE

LEMMA PrintFacts ==
  ASSUME disk \in Texts, NEW from \in Nat, NEW bytes \in Int, NEW size \in Int
  PROVE  PrintedRight(Pieces(from, bytes, size), from, bytes, size)
<1> DEFINE end == EndOf(from, bytes)
           p == Pieces(from, bytes, size)
<1>1. Len(disk) \in Nat
  BY DEF Texts
<1>2. end \in Nat /\ end <= Len(disk) /\ (bytes < 0 => end = Len(disk))
      /\ (bytes >= 0 => end = Least(Len(disk), from + bytes))
  BY <1>1 DEF Least, EndOf
<1> HIDE DEF end
<1>3. p \in Passes /\ p.r # "loop" /\ \E k \in Nat : Printed(p, Len(disk) + 2, from, bytes, size, k)
  BY PiecesFacts
<1> HIDE DEF p
<1>4. PICK k \in Nat : Printed(p, Len(disk) + 2, from, bytes, size, k)
  BY <1>3
<1> DEFINE m == Upto(from, end)
<1>5. m \in Nat /\ SubSeq(disk, from + 1, end) = Text(from, m) /\ (m = 0 \/ from + m = end)
  BY <1>2, Wanted
<1>6. p.text = Text(from, k) /\ (k = 0 \/ from + k <= Len(disk)) /\ (bytes >= 0 => k <= bytes)
  BY <1>4 DEF Printed
<1>7. k <= m
  BY <1>1, <1>2, <1>6 DEF Upto, Least
<1>8. ASSUME p.r # "full" PROVE p.text = SubSeq(disk, from + 1, end)
  <2>1. p.r = "all"
    BY <1>3, <1>8 DEF Passes
  <2>2. from + k >= Len(disk) \/ k = bytes
    BY <1>4, <2>1 DEF Printed
  <2>3. k = m
    BY <1>1, <1>2, <1>6, <1>7, <2>2 DEF Upto, Least
  <2> QED BY <1>5, <1>6, <2>3
<1>9. ASSUME p.r = "full"
      PROVE  /\ IsPrefix(p.text, SubSeq(disk, from + 1, end))
             /\ size + Len(p.text) + BUFSIZE >= MAXSIZE
  <2> HIDE DEF m
  <2>1. m = 0 \/ from + m <= Len(disk)
    BY <1>1, <1>2, <1>5
  <2>2. IsPrefix(Text(from, k), Text(from, m))
    BY <1>5, <1>7, <2>1, TextPrefix
  <2>3. Len(Text(from, k)) = k
    BY <1>6, TextFacts
  <2>4. size + k + BUFSIZE >= MAXSIZE
    BY <1>4, <1>9 DEF Printed
  <2> QED BY <1>5, <1>6, <2>2, <2>3, <2>4
<1> QED BY <1>3, <1>8, <1>9 DEF PrintedRight, p, end

-----------------------------------------------------------------------------
(***************************************************************************)
(* Every behaviour, whatever fclose() answers                              *)
(***************************************************************************)
Reaches == reach \in [file : SUBSET FileObjects, port : SUBSET FileObjects]
FilesTyped == data \in [FileObjects -> FileData] /\ Reaches /\ disk \in Texts

LEMMA HandleFacts ==
  ASSUME FilesTyped, NEW h \in Handles
  PROVE  (h = ByName \/ h \in FileObjects) /\ PositionOf(h) \in Nat
<1>1. h = ByName \/ h \in FileObjects
  BY DEF Handles, FilesTyped, Reaches
<1>2. h = ByName => PositionOf(h) = 0
  BY DEF PositionOf
<1>3. h # ByName => PositionOf(h) \in Nat
  BY <1>1 DEF PositionOf, FilesTyped, FileData
<1> QED BY <1>1, <1>2, <1>3

LEMMA MovedTyped ==
  ASSUME FilesTyped, NEW h, h = ByName \/ h \in FileObjects, NEW pos \in Nat
  PROVE  Moved(h, pos) \in [FileObjects -> FileData]
<1>1. CASE h = ByName
  BY <1>1 DEF Moved, FilesTyped
<1>2. CASE h # ByName
  <2>1. data[h] \in FileData
    BY <1>2 DEF FilesTyped
  <2>2. [data[h] EXCEPT !.pos = pos] \in FileData
    BY <2>1 DEF FileData
  <2>3. Moved(h, pos) = [data EXCEPT ![h] = [data[h] EXCEPT !.pos = pos]]
    BY <1>2 DEF Moved
  <2> HIDE DEF FileData
  <2> QED BY <2>2, <2>3 DEF FilesTyped
<1> QED BY <1>1, <1>2

LEMMA CollectedTyped == ASSUME FilesTyped PROVE Collected \in [FileObjects -> FileData]
<1>1. NoFile \in FileData
  BY DEF NoFile, FileData
<1>2. ASSUME NEW d \in FileData PROVE Freed(d) \in FileData
  <2>1. close_mudlle_file_oport(d).port \in {"none", "open", "closed"}
    BY DEF close_mudlle_file_oport, FileData
  <2> QED BY <1>1, <2>1 DEF Freed, FileData
<1>3. ASSUME NEW d \in FileData, NEW o PROVE Dropped(d, o) \in FileData
  BY DEF Dropped, FileData
<1> HIDE DEF FileData
<1>4. \A o \in FileObjects : data[o] \in FileData
  BY DEF FilesTyped
<1>5. ASSUME NEW o \in FileObjects
      PROVE  Dropped(IF o \in Orphans THEN Freed(data[o]) ELSE data[o], o) \in FileData
  <2>1. (IF o \in Orphans THEN Freed(data[o]) ELSE data[o]) \in FileData
    BY <1>2, <1>4
  <2> QED BY <1>3, <2>1
<1> QED BY <1>5 DEF Collected

LEMMA WrittenText ==
  ASSUME disk \in Texts, NEW pos \in Nat, NEW n \in Nat, NEW b \in Nat
  PROVE  Written(pos, n, b) \in Texts
<1> DEFINE len == IF pos + n > Len(disk) THEN pos + n ELSE Len(disk)
<1>1. len \in Nat /\ Len(disk) \in Nat
  BY DEF Texts
<1>2. ASSUME NEW i \in 1..len
      PROVE  (IF i \in (pos + 1)..(pos + n) THEN b ELSE IF i <= Len(disk) THEN disk[i] ELSE 0) \in Nat
  <2>1. i <= Len(disk) => disk[i] \in Nat
    BY <1>1 DEF Texts
  <2> QED BY <2>1
<1>3. Written(pos, n, b) = [i \in 1..len |->
          IF i \in (pos + 1)..(pos + n) THEN b ELSE IF i <= Len(disk) THEN disk[i] ELSE 0]
  BY DEF Written
<1> HIDE DEF len
<1> QED BY <1>1, <1>2, <1>3 DEF Texts

\* Only the answers of print_file_part() and of file_read() say what was read
Silent(a) == a.op \notin {"print", "read"}

LEMMA SilentPrints == ASSUME Silent(answer') PROVE PartPrinted'
BY DEF Silent, PartPrinted

LEMMA SilentAnswers ==
  /\ Silent(Done) /\ Silent(AtLimit)
  /\ \A e : Silent([op |-> "open", errno |-> e]) /\ Silent([op |-> "close", errno |-> e])
BY DEF Silent, Done, AtLimit

LEMMA PrintReads ==
  ASSUME FilesTyped, NEW h \in Handles, NEW start \in Nat, NEW bytes \in Int, NEW size \in Int,
         print_file_part(h, start, bytes, size)
  PROVE  FilesTyped' /\ PartPrinted'
<1> DEFINE from == PositionOf(h) + start
           p == Pieces(from, bytes, size)
<1>1. from \in Nat /\ (h = ByName \/ h \in FileObjects) /\ disk \in Texts
  BY HandleFacts DEF FilesTyped
<1>2. /\ answer' = [op |-> "print", from |-> from, bytes |-> bytes, size |-> size,
                    text |-> p.text, r |-> IF p.r = "full" THEN -1 ELSE 0]
      /\ data' = Moved(h, p.pos) /\ UNCHANGED <<reach, disk>>
  BY DEF print_file_part
<1> HIDE DEF from
<1>3. PrintedRight(p, from, bytes, size)
  BY <1>1, PrintFacts
<1>4. p.pos \in Nat
  <2> HIDE DEF p
  <2> QED BY <1>3 DEF PrintedRight, Passes
<1>5. FilesTyped'
  <2> HIDE DEF p
  <2> QED BY <1>1, <1>2, <1>4, MovedTyped DEF FilesTyped, Reaches
<1>6. PartPrinted'
  <2> HIDE DEF p
  <2>1. /\ answer'.op = "print" /\ answer'.from = from /\ answer'.bytes = bytes /\ answer'.size = size
        /\ answer'.text = p.text /\ answer'.r = (IF p.r = "full" THEN -1 ELSE 0) /\ disk' = disk
    BY <1>2
  <2>2. answer'.r = 0 => p.r # "full"
    BY <2>1
  <2>3. answer'.r = -1 => p.r = "full"
    BY <2>1
  <2> QED BY <1>3, <2>1, <2>2, <2>3 DEF PartPrinted, PrintedRight, EndOf
<1> QED BY <1>5, <1>6

LEMMA ReadReads ==
  ASSUME FilesTyped, NEW h \in Handles, file_read(h)
  PROVE  FilesTyped' /\ PartPrinted'
<1> DEFINE opos == PositionOf(h)
           size == IF Len(disk) >= opos THEN Least(Len(disk) - opos, MAX_STRING_SIZE) ELSE MAX_STRING_SIZE
           end == IF opos < Len(disk) THEN Least(opos + size, Len(disk)) ELSE opos
           to == Least(Len(disk), opos + MAX_STRING_SIZE)
<1>1. opos \in Nat /\ (h = ByName \/ h \in FileObjects) /\ disk \in Texts
  BY HandleFacts DEF FilesTyped
<1>2. Len(disk) \in Nat /\ MAX_STRING_SIZE \in Nat
  BY <1>1, FileAssumption DEF FileAssumption, Texts
<1>3. /\ answer' = [op |-> "read", from |-> opos, text |-> Bytes(opos, end)]
      /\ data' = Moved(h, end) /\ UNCHANGED <<reach, disk>>
  BY DEF file_read
<1> HIDE DEF opos
<1>4. end \in Nat /\ to \in Nat /\ (end = to \/ (end = opos /\ to <= opos))
  BY <1>1, <1>2 DEF Least
<1> HIDE DEF end, to
<1>5. FilesTyped'
  BY <1>1, <1>3, <1>4, MovedTyped DEF FilesTyped, Reaches
<1>6. SubSeq(disk, opos + 1, end) = SubSeq(disk, opos + 1, to)
  <2>1. CASE end = to
    BY <2>1
  <2>2. CASE end = opos /\ to <= opos
    <3>1. end < opos + 1 /\ to < opos + 1 /\ opos + 1 \in Int
      BY <1>1, <1>4, <2>2
    <3> QED BY <1>4, <3>1, SubSeqEmpty
  <2> QED BY <1>4, <2>1, <2>2
<1>7. PartPrinted'
  <2>1. answer'.op = "read" /\ answer'.from = opos /\ answer'.text = Bytes(opos, end) /\ disk' = disk
    BY <1>3
  <2> QED BY <1>6, <2>1 DEF PartPrinted, Bytes, to
<1> QED BY <1>5, <1>7

ReadInv == FilesTyped /\ PartPrinted

LEMMA OpenTyped ==
  ASSUME FilesTyped, NEW o \in FileObjects, NEW writable \in BOOLEAN, NEW truncates,
         file_open(o, writable, truncates)
  PROVE  FilesTyped' /\ PartPrinted'
<1> DEFINE full == mudlle_file_count >= MAX_MUDLLE_OPEN_FILES
           after == IF full THEN Collected ELSE data
           count == IF full THEN CountAfter ELSE mudlle_file_count
<1>1. after \in [FileObjects -> FileData] /\ Reaches /\ disk \in Texts
  BY CollectedTyped DEF FilesTyped
<1>2. /\ disk' = (IF truncates THEN <<>> ELSE disk)
      /\ IF count >= MAX_MUDLLE_OPEN_FILES
         THEN /\ answer' = [op |-> "open", errno |-> "EMFILE"] /\ data' = after /\ UNCHANGED reach
         ELSE /\ answer' = [op |-> "open", errno |-> "none"]
              /\ data' = [after EXCEPT ![o] = Opened(writable)]
              /\ reach' = [reach EXCEPT !.file = @ \cup {o}]
  BY DEF file_open
<1> HIDE DEF after, count
<1>3. Opened(writable) \in FileData
  BY DEF Opened, NoFile, FileData
<1> HIDE DEF FileData
<1>4. disk' \in Texts
  <2>1. <<>> \in Texts
    BY DEF Texts
  <2> QED BY <1>1, <1>2, <2>1
<1>5. data' \in [FileObjects -> FileData]
  BY <1>1, <1>2, <1>3
<1>6. Reaches'
  BY <1>1, <1>2 DEF Reaches
<1>7. Silent(answer')
  BY <1>2, SilentAnswers
<1> QED BY <1>4, <1>5, <1>6, <1>7, SilentPrints DEF FilesTyped

LEMMA CloseTyped ==
  ASSUME FilesTyped, NEW o \in FileObjects, NEW fails \in BOOLEAN, file_close(o, fails)
  PROVE  FilesTyped' /\ PartPrinted'
<1>1. data[o] \in FileData
  BY DEF FilesTyped
<1>2. close_mudlle_file_oport(data[o]) \in FileData
  BY <1>1 DEF close_mudlle_file_oport, FileData
<1>3. [close_mudlle_file_oport(data[o]) EXCEPT !.FILE = FALSE, !.f = fails] \in FileData
  BY <1>2 DEF FileData
<1>4. data' \in [FileObjects -> FileData]
  BY <1>3 DEF file_close, FilesTyped
<1>5. Silent(answer')
  BY SilentAnswers DEF file_close
<1> QED BY <1>4, <1>5, SilentPrints DEF file_close, FilesTyped, Reaches

LEMMA OportTyped ==
  ASSUME FilesTyped, NEW o \in FileObjects, file_oport(o)
  PROVE  FilesTyped' /\ PartPrinted'
<1>1. data[o] \in FileData
  BY DEF FilesTyped
<1>2. data' = data \/ data' = [data EXCEPT ![o] = [data[o] EXCEPT !.port = "open", !.linked = TRUE]]
  BY DEF file_oport, FilesTyped
<1>3. [data[o] EXCEPT !.port = "open", !.linked = TRUE] \in FileData
  BY <1>1 DEF FileData
<1>4. data' \in [FileObjects -> FileData]
  BY <1>2, <1>3 DEF FilesTyped
<1>5. Reaches' /\ disk' = disk
  BY DEF file_oport, FilesTyped, Reaches
<1>6. Silent(answer')
  BY SilentAnswers DEF file_oport
<1> QED BY <1>4, <1>5, <1>6, SilentPrints DEF FilesTyped

LEMMA WriteTyped ==
  ASSUME FilesTyped, NEW h \in Handles, NEW n \in Nat, NEW do_append, file_write(h, n, 1, do_append)
  PROVE  FilesTyped' /\ PartPrinted'
<1>1. (h = ByName \/ h \in FileObjects) /\ PositionOf(h) \in Nat /\ PositionOf(h) + n \in Nat
  BY HandleFacts
<1>2. UNCHANGED reach /\ Silent(answer')
  BY SilentAnswers DEF file_write
<1>3. CASE h = ByName
  <2>1. data' = data /\ disk' = (IF do_append THEN disk ELSE <<>>) \o [i \in 1..n |-> 1]
    BY <1>3 DEF file_write
  <2>2. (IF do_append THEN disk ELSE <<>>) \in Texts /\ [i \in 1..n |-> 1] \in Texts
    BY DEF FilesTyped, Texts
  <2>3. disk' \in Texts
    BY <2>1, <2>2, ConcatProperties DEF Texts
  <2> QED BY <1>2, <2>1, <2>3, SilentPrints DEF FilesTyped, Reaches
<1>4. CASE h # ByName
  <2>1. disk' = Written(PositionOf(h), n, 1) /\ data' = Moved(h, PositionOf(h) + n)
    BY <1>4 DEF file_write
  <2>2. disk' \in Texts
    BY <1>1, <2>1, WrittenText DEF FilesTyped
  <2>3. data' \in [FileObjects -> FileData]
    BY <1>1, <2>1, MovedTyped
  <2> QED BY <1>2, <2>2, <2>3, SilentPrints DEF FilesTyped, Reaches
<1> QED BY <1>3, <1>4

LEMMA PortTyped ==
  ASSUME FilesTyped, NEW o \in FileObjects, port_write(o, 1)
  PROVE  FilesTyped' /\ PartPrinted'
<1>1. UNCHANGED reach /\ Silent(answer')
  BY SilentAnswers DEF port_write
<1>2. CASE data[o].port = "closed"
  BY <1>1, <1>2, SilentPrints DEF port_write, FilesTyped, Reaches
<1>3. CASE data[o].port # "closed"
  <2>1. disk' = Written(data[o].pos, 1, 1) /\ data' = Moved(o, data[o].pos + 1)
    BY <1>3 DEF port_write
  <2>2. data[o].pos \in Nat /\ data[o].pos + 1 \in Nat
    BY DEF FilesTyped, FileData
  <2>3. disk' \in Texts /\ data' \in [FileObjects -> FileData]
    BY <2>1, <2>2, WrittenText, MovedTyped DEF FilesTyped
  <2> QED BY <1>1, <2>3, SilentPrints DEF FilesTyped, Reaches
<1> QED BY <1>2, <1>3

LEMMA TruncateTyped ==
  ASSUME FilesTyped, NEW h \in Handles, NEW len \in Nat, file_truncate(h, len)
  PROVE  FilesTyped' /\ PartPrinted'
<1>1. h = ByName \/ h \in FileObjects
  BY HandleFacts
<1>2. UNCHANGED reach /\ Silent(answer')
  BY SilentAnswers DEF file_truncate
<1>3. data' \in [FileObjects -> FileData]
  BY <1>1, MovedTyped DEF file_truncate, FilesTyped
<1>4. disk' \in Texts
  <2>1. Len(disk) \in Nat
    BY DEF FilesTyped, Texts
  <2>2. ASSUME NEW i \in 1..len PROVE (IF i <= Len(disk) THEN disk[i] ELSE 0) \in Nat
    BY <2>1 DEF FilesTyped, Texts
  <2>3. disk' = [i \in 1..len |-> IF i <= Len(disk) THEN disk[i] ELSE 0]
    BY DEF file_truncate
  <2> QED BY <2>2, <2>3 DEF Texts
<1> QED BY <1>2, <1>3, <1>4, SilentPrints DEF FilesTyped, Reaches

LEMMA ReadStart == ASSUME FilesInit PROVE ReadInv
<1>1. NoFile \in FileData
  BY DEF NoFile, FileData
<1>2. data \in [FileObjects -> FileData]
  BY <1>1 DEF FilesInit
<1>3. Reaches
  BY DEF FilesInit, NoReach, Reaches
<1>4. disk \in Texts
  BY DEF FilesInit, Texts
<1>5. PartPrinted
  BY SilentAnswers DEF FilesInit, PartPrinted, Silent
<1> QED BY <1>2, <1>3, <1>4, <1>5 DEF ReadInv, FilesTyped

LEMMA ReadStep == ASSUME ReadInv, [FilesNext]_file_vars PROVE ReadInv'
<1> USE DEF ReadInv
<1>1. CASE garbage_collect
  <2>1. data' = Collected /\ UNCHANGED <<reach, disk>> /\ Silent(answer')
    BY <1>1, SilentAnswers DEF garbage_collect
  <2> QED BY <2>1, CollectedTyped, SilentPrints DEF FilesTyped, Reaches
<1>2. CASE \E o \in FileObjects, writable, truncates \in BOOLEAN : file_open(o, writable, truncates)
  BY <1>2, OpenTyped
<1>3. CASE \E o \in FileObjects, fails \in CloseFails : file_close(o, fails)
  BY <1>3, CloseTyped, FileAssumption DEF FileAssumption
<1>4. CASE \E o \in FileObjects : file_oport(o)
  BY <1>4, OportTyped
<1>5. CASE \E o \in FileObjects, what \in {"file", "port"} : forget(o, what)
  <2>1. PICK o \in FileObjects, what \in {"file", "port"} : forget(o, what)
    BY <1>5
  <2>2. UNCHANGED <<data, disk>> /\ Silent(answer') /\ reach' = [reach EXCEPT ![what] = @ \ {o}]
    BY <2>1, SilentAnswers DEF forget
  <2>3. Reaches'
    BY <2>2 DEF FilesTyped, Reaches
  <2> QED BY <2>2, <2>3, SilentPrints DEF FilesTyped
<1>6. CASE \E h \in Handles, start \in 0..2, bytes \in -1..2, size \in {0, MAXSIZE - 2} :
             print_file_part(h, start, bytes, size)
  <2>1. PICK h \in Handles, start \in 0..2, bytes \in -1..2, size \in {0, MAXSIZE - 2} :
          print_file_part(h, start, bytes, size)
    BY <1>6
  <2>2. start \in Nat /\ bytes \in Int /\ size \in Int
    BY FileAssumption DEF FileAssumption
  <2> QED BY <2>1, <2>2, PrintReads
<1>7. CASE \E h \in Handles : file_read(h)
  BY <1>7, ReadReads
<1>8. CASE \E h \in Handles, n \in 0..2, do_append \in BOOLEAN : file_write(h, n, 1, do_append)
  <2>1. PICK h \in Handles, n \in 0..2, do_append \in BOOLEAN : file_write(h, n, 1, do_append)
    BY <1>8
  <2>2. n \in Nat
    OBVIOUS
  <2> QED BY <2>1, <2>2, WriteTyped
<1>9. CASE \E o \in FileObjects : port_write(o, 1)
  BY <1>9, PortTyped
<1>10. CASE \E o \in FileObjects, pos \in 0..MaxDisk : file_seek(o, pos)
  <2>1. PICK o \in FileObjects, pos \in 0..MaxDisk : file_seek(o, pos)
    BY <1>10
  <2>2. pos \in Nat /\ data' = Moved(o, pos) /\ UNCHANGED <<reach, disk>> /\ Silent(answer')
    BY <2>1, SilentAnswers, FileAssumption DEF file_seek, FileAssumption
  <2> QED BY <2>2, MovedTyped, SilentPrints DEF FilesTyped, Reaches
<1>11. CASE \E h \in Handles, len \in 0..MaxDisk : file_truncate(h, len)
  <2>1. PICK h \in Handles, len \in 0..MaxDisk : file_truncate(h, len)
    BY <1>11
  <2>2. len \in Nat
    BY FileAssumption DEF FileAssumption
  <2> QED BY <2>1, <2>2, TruncateTyped
<1>12. CASE Return
  BY <1>12, SilentAnswers, SilentPrints DEF Return, FilesTyped, Reaches
<1>13. CASE UNCHANGED file_vars
  BY <1>13 DEF file_vars, FilesTyped, Reaches, PartPrinted
<1> QED BY <1>1, <1>2, <1>3, <1>4, <1>5, <1>6, <1>7, <1>8, <1>9, <1>10, <1>11, <1>12, <1>13 DEF FilesNext

\* print_file_part() and file_read() give the bytes that were asked for, all
\* of them and without a gap, however long the file, the buffer and the
\* limits are; printing stops early only when the port is full
\* (files.c:952-953)
THEOREM PartsPrinted == FilesSpec => []PartPrinted
<1>1. FilesInit => ReadInv
  BY ReadStart
<1>2. ReadInv /\ [FilesNext]_file_vars => ReadInv'
  BY ReadStep
<1>3. ReadInv => PartPrinted
  BY DEF ReadInv
<1> QED BY <1>1, <1>2, <1>3, PTL DEF FilesSpec

\* As long as fclose() does not fail, files are counted and read as they
\* should be (files.c:678-686, 786-803, 952)
THEOREM FilesSafety ==
  ASSUME CloseFails \subseteq {FALSE}
  PROVE  FilesSpec => []FilesSound
<1>1. FilesSpec => []FilesCounted
  BY OpenFilesCounted
<1>2. FilesSpec => []PartPrinted
  BY PartsPrinted
<1>3. FilesCounted /\ PartPrinted => FilesSound
  BY DEF FilesSound
<1> QED BY <1>1, <1>2, <1>3, PTL

-----------------------------------------------------------------------------
(***************************************************************************)
(* The arguments of calls, for any functions whose parameters are in       *)
(* order: how many a closure takes depends on how many parameters are      *)
(* required, how many there are, and whether the last one gets the rest.   *)
(***************************************************************************)
ParamsOK(p) == p \in Seq({"req", "opt", "rest"}) /\ InOrder(p) /\ Len(p) <= MAX_FUNCTION_ARGS

\* The first r parameters are the required ones
Required(p, r) == r \in 0..Len(p) /\ \A i \in 1..Len(p) : p[i] = "req" <=> i <= r
HasRest(p) == Len(p) > 0 /\ p[Len(p)] = "rest"
Takes(p, r, n) == n <= MAX_FUNCTION_ARGS /\ r <= n /\ (n <= Len(p) \/ HasRest(p))

\* The required parameters come first
LEMMA RequiredFirst ==
  ASSUME NEW p, ParamsOK(p)
  PROVE  \E r : Required(p, r)
<1> DEFINE S == {k \in 0..Len(p) : k = Len(p) \/ p[k + 1] # "req"}
<1>1. Len(p) \in Nat
  BY DEF ParamsOK
<1>2. S \in SUBSET Nat /\ Len(p) \in S
  BY <1>1
<1>3. PICK r \in S : \A k \in S : r <= k
  <2> HIDE DEF S
  <2> QED BY <1>2, LeastTurn
<1>4. r \in 0..Len(p) /\ (r = Len(p) \/ p[r + 1] # "req")
  OBVIOUS
<1>5. ASSUME NEW i \in 1..Len(p), i <= r PROVE p[i] = "req"
  <2>1. i - 1 \in 0..Len(p) /\ i - 1 # Len(p) /\ (i - 1) + 1 = i /\ ~(r <= i - 1)
    BY <1>1, <1>4, <1>5
  <2>2. i - 1 \notin S
    <3> HIDE DEF S
    <3> QED BY <1>3, <2>1
  <2> QED BY <2>1, <2>2
<1>6. ASSUME NEW i \in 1..Len(p), ~(i <= r) PROVE p[i] # "req"
  <2>1. r + 1 \in 1..Len(p) /\ p[r + 1] # "req" /\ (r + 1 = i \/ r + 1 < i)
    BY <1>1, <1>4, <1>6
  <2> QED BY <2>1 DEF ParamsOK, InOrder
<1> QED BY <1>4, <1>5, <1>6 DEF Required

\* Only the last parameter gets the rest
LEMMA RestIsLast ==
  ASSUME NEW p, ParamsOK(p)
  PROVE  (\E i \in 1..Len(p) : p[i] = "rest") <=> HasRest(p)
<1>1. Len(p) \in Nat
  BY DEF ParamsOK
<1>2. ASSUME NEW i \in 1..Len(p), p[i] = "rest" PROVE HasRest(p)
  <2>1. Len(p) \in 1..Len(p) /\ (i = Len(p) \/ i < Len(p))
    BY <1>1
  <2>2. CASE i < Len(p)
    BY <1>2, <2>1, <2>2 DEF ParamsOK, InOrder
  <2> QED BY <1>1, <1>2, <2>1, <2>2 DEF HasRest
<1>3. HasRest(p) => Len(p) \in 1..Len(p) /\ p[Len(p)] = "rest"
  BY <1>1 DEF HasRest
<1> QED BY <1>2, <1>3

LEMMA CallableTakes ==
  ASSUME NEW p, ParamsOK(p), NEW r, Required(p, r), NEW n \in Nat, MAX_FUNCTION_ARGS \in Nat
  PROVE  /\ closure_callable(p, n) <=> Takes(p, r, n)
         /\ n <= MAX_FUNCTION_ARGS => (maybe_get_arguments(p, n) <=> Takes(p, r, n))
<1>1. /\ Len(p) \in Nat /\ Len(p) <= MAX_FUNCTION_ARGS /\ r \in 0..Len(p)
      /\ p = <<>> <=> Len(p) = 0
      /\ \A i \in 1..Len(p) : p[i] \in {"req", "opt", "rest"}
  BY DEF ParamsOK, Required
<1>2. CASE n = Len(p)
  BY <1>1, <1>2 DEF closure_callable, maybe_get_arguments, Takes
<1>3. CASE n # Len(p) /\ p = <<>>
  BY <1>1, <1>3 DEF closure_callable, maybe_get_arguments, Takes, HasRest
<1>4. CASE n > Len(p) /\ p # <<>>
  BY <1>1, <1>4 DEF closure_callable, maybe_get_arguments, Takes, HasRest, Last
<1>5. CASE n < Len(p)
  <2>1. n + 1 \in 1..Len(p) /\ (n + 1 <= r <=> ~(r <= n))
    BY <1>1, <1>5
  <2>2. p[n + 1] \in {"rest", "opt"} <=> r <= n
    BY <1>1, <2>1 DEF Required
  <2> QED BY <1>1, <1>5, <2>2 DEF closure_callable, maybe_get_arguments, Takes
<1> QED BY <1>1, <1>2, <1>3, <1>4, <1>5

LEMMA PrologueTakes ==
  ASSUME NEW p, ParamsOK(p), NEW r, Required(p, r), NEW n \in Nat, MAX_FUNCTION_ARGS \in Nat
  PROVE  Prologue(p, n) <=> Takes(p, r, n)
<1> DEFINE Of(kind) == {i \in 1..Len(p) : p[i] = kind}
<1>1. Len(p) \in Nat /\ Len(p) <= MAX_FUNCTION_ARGS /\ r \in 0..Len(p)
  BY DEF ParamsOK, Required
<1>2. \A kind : IsFiniteSet(Of(kind)) /\ Cardinality(Of(kind)) \in Nat
                /\ (Cardinality(Of(kind)) = 0 <=> Of(kind) = {})
  <2> TAKE kind
  <2>1. IsFiniteSet(1..Len(p))
    BY <1>1, FS_Interval
  <2>2. IsFiniteSet(Of(kind))
    BY <2>1, FS_Subset
  <2> QED BY <2>2, FS_EmptySet, FS_CardinalityType
<1>3. Cardinality(Of("req")) = r
  <2>1. Of("req") = 1..r
    BY <1>1 DEF Required
  <2>2. Cardinality(1..r) = IF 1 > r THEN 0 ELSE r - 1 + 1
    BY <1>1, FS_Interval
  <2> HIDE DEF Of
  <2> QED BY <1>1, <2>1, <2>2
<1>4. Cardinality(Of("rest")) > 0 <=> HasRest(p)
  <2>1. Of("rest") # {} <=> HasRest(p)
    BY RestIsLast
  <2> HIDE DEF Of
  <2> QED BY <1>2, <2>1
<1>5. ~HasRest(p) => (Cardinality(Of("opt")) = 0 <=> r = Len(p))
  <2>1. SUFFICES ASSUME ~HasRest(p) PROVE Of("opt") = {} <=> r = Len(p)
    BY <1>2
  <2>2. \A i \in 1..Len(p) : p[i] = "opt" <=> ~(i <= r)
    BY <2>1, RestIsLast DEF ParamsOK, Required
  <2>3. r # Len(p) => Len(p) \in Of("opt")
    BY <1>1, <2>2
  <2>4. r = Len(p) => Of("opt") = {}
    BY <1>1, <2>2
  <2> QED BY <2>3, <2>4
<1>6. Prologue(p, n) <=> IF n > MAX_FUNCTION_ARGS THEN FALSE
                         ELSE IF Cardinality(Of("rest")) > 0 THEN n >= Cardinality(Of("req"))
                         ELSE IF Cardinality(Of("opt")) > 0 THEN n >= Cardinality(Of("req")) /\ n <= Len(p)
                         ELSE n = Len(p)
  BY DEF Prologue
<1> HIDE DEF Of
<1>7. Cardinality(Of("opt")) \in Nat
  BY <1>2
<1> QED BY <1>1, <1>3, <1>4, <1>5, <1>6, <1>7 DEF Takes

LEMMA MessageTakes ==
  ASSUME NEW p, ParamsOK(p), NEW r, Required(p, r), NEW n \in Nat, n <= MAX_FUNCTION_ARGS
  PROVE  InMessage(p, n) <=> Takes(p, r, n)
<1> DEFINE FirstShort(m) == /\ \A i \in m + 1..Len(p) : p[i] \in {"rest", "opt"}
                            /\ m > 0 => p[m] \notin {"rest", "opt"}
<1>1. Len(p) \in Nat /\ r \in 0..Len(p) /\ \A i \in 1..Len(p) : p[i] \in {"req", "opt", "rest"}
  BY DEF ParamsOK, Required
<1>2. \A i \in 1..Len(p) : p[i] \in {"rest", "opt"} <=> ~(i <= r)
  BY <1>1 DEF Required
<1>3. FirstShort(r)
  <2>1. \A i \in r + 1..Len(p) : i \in 1..Len(p) /\ ~(i <= r)
    BY <1>1
  <2>2. r > 0 => r \in 1..Len(p) /\ r <= r
    BY <1>1
  <2> QED BY <1>2, <2>1, <2>2
<1>4. ASSUME NEW m \in 0..Len(p), FirstShort(m) PROVE m = r
  <2>1. CASE m > r
    <3>1. m > 0 /\ m \in 1..Len(p) /\ ~(m <= r)
      BY <1>1, <2>1
    <3> QED BY <1>2, <1>4, <3>1
  <2>2. CASE m < r
    <3>1. r \in m + 1..Len(p) /\ r \in 1..Len(p) /\ r <= r
      BY <1>1, <2>2
    <3> QED BY <1>2, <1>4, <3>1
  <2> QED BY <1>1, <2>1, <2>2
<1>5. MinArgs(p) = r
  <2>1. MinArgs(p) = CHOOSE m \in 0..Len(p) : FirstShort(m)
    BY DEF MinArgs
  <2> HIDE DEF FirstShort
  <2> QED BY <1>1, <1>3, <1>4, <2>1
<1> QED BY <1>1, <1>5, RestIsLast DEF InMessage, Takes

LEMMA Agreement ==
  ASSUME NEW f, ParamsOK(f.params), NEW n \in Nat, MAX_FUNCTION_ARGS \in Nat
  PROVE  ArityAgrees(f, n)
<1>1. PICK r : Required(f.params, r)
  BY RequiredFirst
<1>2. SUFFICES ASSUME f.kind = "closure" PROVE ArityAgrees(f, n)
  BY DEF ArityAgrees
<1>3. callablep(f, n) <=> Takes(f.params, r, n)
  BY <1>1, <1>2, CallableTakes DEF callablep
<1>4. Prologue(f.params, n) <=> Takes(f.params, r, n)
  BY <1>1, PrologueTakes
<1>5. n <= MAX_FUNCTION_ARGS => /\ InMessage(f.params, n) <=> Takes(f.params, r, n)
                                /\ maybe_get_arguments(f.params, n) <=> Takes(f.params, r, n)
  BY <1>1, CallableTakes, MessageTakes
<1> QED BY <1>3, <1>4, <1>5 DEF ArityAgrees

-----------------------------------------------------------------------------
(***************************************************************************)
(* Handing over                                                            *)
(***************************************************************************)
Known(f) == /\ f \in Fn /\ ParamsOK(f.params)
            /\ f.kind \in {"primitive", "secure"} => f.n <= MAX_PRIMITIVE_ARGS

\* A function got the arguments s
Gets(f, s, r) ==
  /\ r.how \notin {"abort", "error"}
  /\ r.fixed \o r.rest.elems = s
  /\ r.how \in {"primitive", "varargs"} => Len(r.fixed) = f.n
  /\ r.how = "varargs" /\ f.copy => r.rest.made # "caller"

LEMMA KnownFacts ==
  ASSUME NEW f, Known(f)
  PROVE  /\ f.kind \in {"closure", "primitive", "secure", "varargs", "other"}
         /\ f.n \in Nat /\ f.seclevel \in Nat /\ f.copy \in BOOLEAN
  BY DEF Known, Fn

\* All in the first part, or cut in two
LEMMA Cut ==
  ASSUME NEW s \in Seq(Nat), NEW k \in 0..Len(s)
  PROVE  /\ SubSeq(s, 1, k) \o From(s, k) = s /\ Len(SubSeq(s, 1, k)) = k
         
<1>1. Len(s) \in Nat /\ \A i \in 1..Len(s) : s[i] \in Nat
  BY LenProperties
<1>2. 1 \in 1..Len(s) + 1 /\ k \in 1 - 1..Len(s) /\ Len(s) \in k..Len(s)
  BY <1>1
<1>3. SubSeq(s, 1, k) \o SubSeq(s, k + 1, Len(s)) = SubSeq(s, 1, Len(s))
  BY <1>2, ConcatAdjacentSubSeq
<1>4. SubSeq(s, 1, Len(s)) = s
  BY SubSeqFull
<1>5. Len(SubSeq(s, 1, k)) = IF 1 <= k THEN k - 1 + 1 ELSE 0
  <2>1. 1 \in Int /\ k \in Int /\ \A i \in 1..k : s[i] \in Nat
    BY <1>1
  <2> QED BY <2>1, SubSeqProperties
<1>6. s \o <<>> = s
  BY ConcatEmptySeq
<1>7. SubSeq(s, 1, k) \o From(s, k) = s
  BY <1>3, <1>4 DEF From
<1>8. Len(SubSeq(s, 1, k)) = k
  BY <1>5
<1> QED BY <1>6, <1>7, <1>8

LEMMA GetsAll ==
  ASSUME NEW f, NEW s \in Seq(Nat)
  PROVE  Gets(f, s, Closure(s)) /\ (f.n = Len(s) => Gets(f, s, Primitive(s)))
<1>1. s \o <<>> = s
  BY ConcatEmptySeq
<1>2. Closure(s).how = "closure" /\ Closure(s).fixed = s /\ Closure(s).rest.elems = <<>>
  BY DEF Closure, Vec
<1>3. Primitive(s).how = "primitive" /\ Primitive(s).fixed = s /\ Primitive(s).rest.elems = <<>>
  BY DEF Primitive, Vec
<1> QED BY <1>1, <1>2, <1>3 DEF Gets

LEMMA GetsCut ==
  ASSUME NEW f, NEW s \in Seq(Nat), f.n \in 0..Len(s),
         NEW v, v.elems = From(s, f.n), f.copy => v.made # "caller"
  PROVE  Gets(f, s, call_vararg(f.n, s, v))
<1> DEFINE r == call_vararg(f.n, s, v)
<1>1. r.how = "varargs" /\ r.fixed = SubSeq(s, 1, f.n) /\ r.rest = v
  BY DEF call_vararg
<1>2. SubSeq(s, 1, f.n) \o From(s, f.n) = s /\ Len(SubSeq(s, 1, f.n)) = f.n
  BY Cut
<1> HIDE DEF r
<1>3. Gets(f, s, r)
  BY <1>1, <1>2 DEF Gets
<1> QED BY <1>3 DEF r

LEMMA CallNGets ==
  ASSUME NEW f, Known(f), NEW s \in Seq(Nat), callablep(f, Len(s))
  PROVE  Gets(f, s, callN(f, s))
<1>1. f.n \in Nat /\ Len(s) \in Nat
  BY KnownFacts, LenProperties
<1>2. CASE f.kind = "closure"
  <2>1. callN(f, s) = Closure(s) 
    BY <1>2 DEF callN
  <2> QED BY <2>1, GetsAll
<1>3. CASE f.kind \in {"primitive", "secure"}
  <2>1. f.n = Len(s) /\ f.n <= MAX_PRIMITIVE_ARGS
    BY <1>3 DEF Known, callablep
  <2>2. callN(f, s) = Primitive(s) 
    BY <1>3, <2>1 DEF callN, CallOp
  <2> QED BY <2>1, <2>2, GetsAll
<1>4. CASE f.kind = "varargs"
  <2>1. f.n \in 0..Len(s)
    BY <1>1, <1>4 DEF callablep
  <2>2. callN(f, s) = call_vararg(f.n, s, Vec("call", From(s, f.n)))
    BY <1>1, <1>4, <2>1 DEF callN
  <2>3. Vec("call", From(s, f.n)).elems = From(s, f.n) /\ Vec("call", From(s, f.n)).made = "call"
    BY DEF Vec
  <2> QED BY <2>1, <2>2, <2>3, GetsCut
<1>5. f.kind # "other"
  BY DEF callablep
<1> QED BY <1>2, <1>3, <1>4, <1>5, KnownFacts

LEMMA CallvGets ==
  ASSUME NEW f, Known(f), NEW s \in Seq(Nat), callablep(f, Len(s)),
         NEW made, callv_needs_copy(f) => made # "caller"
  PROVE  Gets(f, s, callv(f, Vec(made, s)))
<1>1. f.n \in Nat /\ Len(s) \in Nat /\ Vec(made, s).elems = s /\ Vec(made, s).made = made
  BY KnownFacts, LenProperties DEF Vec
<1>2. CASE s = <<>>
  <2>1. callv(f, Vec(made, s)) = callN(f, s)
    BY <1>1, <1>2, Zenon DEF callv
  <2> QED BY <2>1, CallNGets
<1>3. CASE s # <<>> /\ f.kind = "closure"
  <2>1. callv(f, Vec(made, s)) = Closure(s) 
    BY <1>1, <1>3 DEF callv
  <2> QED BY <2>1, GetsAll
<1>4. CASE s # <<>> /\ f.kind \in {"primitive", "secure"}
  <2>1. f.n = Len(s) /\ f.n <= MAX_PRIMITIVE_ARGS
    BY <1>4 DEF Known, callablep
  <2>2. callv(f, Vec(made, s)) = Primitive(s) 
    BY <1>1, <1>4, <2>1 DEF callv, CallOp
  <2> QED BY <2>1, <2>2, GetsAll
<1>5. CASE s # <<>> /\ f.kind = "varargs"
  <2>1. f.n \in 0..Len(s)
    BY <1>1, <1>5 DEF callablep
  <2>2. callv(f, Vec(made, s)) =
          call_vararg(f.n, s, IF f.n > 0 THEN Vec("call", From(s, f.n)) ELSE Vec(made, s))
    BY <1>1, <1>5, <2>1 DEF callv
  <2>4. CASE f.n > 0
    <3>1. Vec("call", From(s, f.n)).elems = From(s, f.n) /\ Vec("call", From(s, f.n)).made = "call"
      BY DEF Vec
    <3>2. callv(f, Vec(made, s)) = call_vararg(f.n, s, Vec("call", From(s, f.n)))
      BY <2>2, <2>4
    <3> QED BY <2>1, <3>1, <3>2, GetsCut
  <2>5. CASE f.n = 0
    <3>1. From(s, 0) = s
      BY SubSeqFull DEF From
    <3>2. f.copy => made # "caller"
      BY <1>5, <2>5 DEF callv_needs_copy
    <3>3. callv(f, Vec(made, s)) = call_vararg(f.n, s, Vec(made, s))
      BY <2>2, <2>5
    <3>4. Vec(made, s).elems = From(s, f.n) /\ Vec(made, s).made = made
      BY <1>1, <2>5, <3>1
    <3> QED BY <2>1, <3>2, <3>3, <3>4, GetsCut
  <2> QED BY <1>1, <2>4, <2>5
<1>6. f.kind # "other"
  BY DEF callablep
<1> QED BY <1>2, <1>3, <1>4, <1>5, <1>6, KnownFacts

LEMMA Call1plusGets ==
  ASSUME NEW f, Known(f), NEW s \in Seq(Nat), s # <<>>, callablep(f, Len(s)),
         NEW made, call1plus_needs_copy(f) => made # "caller"
  PROVE  Gets(f, s, call1plus(f, s[1], Vec(made, From(s, 1))))
<1>1. f.n \in Nat /\ Len(s) \in Nat /\ Len(s) >= 1
  BY KnownFacts, LenProperties, EmptySeq
<1>2. <<s[1]>> \o Vec(made, From(s, 1)).elems = s
  <2>1. 1 \in 1..Len(s) /\ Len(s) \in 1..Len(s)
    BY <1>1
  <2>2. SubSeq(s, 1, Len(s)) = <<s[1]>> \o SubSeq(s, 1 + 1, Len(s))
    BY <2>1, SubSeqRecursiveFirst
  <2> QED BY <2>2, SubSeqFull DEF From, Vec
<1> DEFINE r == call1plus(f, s[1], Vec(made, From(s, 1)))
<1>3. CASE f.kind = "closure"
  <2>1. r = Closure(s) 
    BY <1>2, <1>3 DEF call1plus
  <2> QED BY <2>1, GetsAll
<1>4. CASE f.kind \in {"primitive", "secure"}
  <2>1. f.n = Len(s) /\ f.n <= MAX_PRIMITIVE_ARGS
    BY <1>4 DEF Known, callablep
  <2>2. r = Primitive(s) 
    BY <1>2, <1>4, <2>1 DEF call1plus, CallOp
  <2> QED BY <2>1, <2>2, GetsAll
<1>5. CASE f.kind = "varargs"
  <2>1. f.n \in 0..Len(s)
    BY <1>1, <1>5 DEF callablep
  <2>2. r = call_vararg(f.n, s, IF f.n = 1 THEN Vec(made, From(s, 1)) ELSE Vec("call", From(s, f.n)))
    <3>1. ~(f.n > Len(s))
      BY <1>1, <2>1
    <3> DEFINE e == <<s[1]>> \o Vec(made, From(s, 1)).elems
    <3>2. r = CASE f.kind = "closure" -> Closure(e)
                [] f.kind \in {"secure", "primitive"} -> CallOp(f, e)
                [] f.kind = "varargs" ->
                     IF f.n > Len(e) THEN Aborted
                     ELSE call_vararg(f.n, e, IF f.n = 1 THEN Vec(made, From(s, 1))
                                              ELSE Vec("call", From(e, f.n)))
      BY Zenon DEF call1plus
    <3>3. e = s
      BY <1>2
    <3> HIDE DEF e, r
    <3> QED BY <1>5, <3>1, <3>2, <3>3
  <2>4. CASE f.n # 1
    <3>1. Vec("call", From(s, f.n)).elems = From(s, f.n) /\ Vec("call", From(s, f.n)).made = "call"
      BY DEF Vec
    <3>2. r = call_vararg(f.n, s, Vec("call", From(s, f.n)))
      BY <2>2, <2>4
    <3> QED BY <2>1, <3>1, <3>2, GetsCut
  <2>5. CASE f.n = 1
    <3>1. f.copy => made # "caller"
      BY <1>5, <2>5 DEF call1plus_needs_copy
    <3>2. r = call_vararg(f.n, s, Vec(made, From(s, 1)))
      BY <2>2, <2>5
    <3>3. Vec(made, From(s, 1)).elems = From(s, f.n) /\ Vec(made, From(s, 1)).made = made
      BY <2>5 DEF Vec
    <3> QED BY <2>1, <3>1, <3>2, <3>3, GetsCut
  <2> QED BY <2>4, <2>5
<1>6. f.kind # "other"
  BY DEF callablep
<1> QED BY <1>3, <1>4, <1>5, <1>6, KnownFacts

\* A call is refused in an orderly way, or gets the arguments s
Outcome(f, s, r) == IF function_callable(f, Len(s)) # "none" THEN r.how = "error" ELSE Gets(f, s, r)

LEMMA Callable ==
  ASSUME NEW f, Known(f), NEW n, function_callable(f, n) = "none"
  PROVE  callablep(f, n)
  BY DEF function_callable

LEMMA ErrorHow == \A e : Error(e).how = "error"
  BY DEF Error

LEMMA FromC ==
  ASSUME NEW f, Known(f), NEW s \in Seq(Nat)
  PROVE  /\ Outcome(f, s, docallv(f, s)) /\ Outcome(f, s, docall_argv(f, s))
         /\ s # <<>> => Outcome(f, s, docall1plus(f, s))
<1>1. CASE function_callable(f, Len(s)) # "none"
  BY <1>1, ErrorHow DEF Outcome, docallv, docall_argv, docall1plus
<1>2. CASE function_callable(f, Len(s)) = "none"
  <2>1. callablep(f, Len(s))
    BY <1>2, Callable
  <2>2. Gets(f, s, callv(f, Vec("new", s))) /\ Gets(f, s, callv(f, Vec("call", s)))
    BY <2>1, CallvGets
  <2>3. Gets(f, s, callN(f, s))
    BY <2>1, CallNGets
  <2>4. s # <<>> => Gets(f, s, call1plus(f, s[1], Vec("new", Tail(s))))
    <3>1. SUFFICES ASSUME s # <<>> PROVE Gets(f, s, call1plus(f, s[1], Vec("new", Tail(s))))
      OBVIOUS
    <3>2. Tail(s) = From(s, 1)
      <4>1. Tail(s) = SubSeq(s, 2, Len(s))
        BY <3>1, TailIsSubSeq
      <4> QED BY <4>1 DEF From
    <3>3. Gets(f, s, call1plus(f, s[1], Vec("new", From(s, 1))))
      BY <2>1, <3>1, Call1plusGets
    <3> QED BY <3>2, <3>3
  <2> QED BY <1>2, <2>2, <2>3, <2>4, Zenon DEF Outcome, docallv, docall_argv, docall1plus
<1> QED BY <1>1, <1>2

LEMMA FromApply ==
  ASSUME NEW f, Known(f), NEW s \in Seq(Nat), NEW tail_len \in 0..Len(s)
  PROVE  Outcome(f, s, apply(f, s, tail_len))
<1> DEFINE k == Len(s) - tail_len
           tail == Vec("caller", From(s, k))
           copy == IF k = 1 THEN call1plus_needs_copy(f) ELSE callv_needs_copy(f)
<1>1. apply(f, s, tail_len) =
        IF function_callable(f, Len(s)) # "none" THEN Error(function_callable(f, Len(s)))
        ELSE IF k > 1 \/ copy THEN callv(f, Vec("apply", s))
        ELSE IF k = 1 THEN call1plus(f, s[1], tail) ELSE callv(f, tail)
  BY Zenon DEF apply
<1>2. Len(s) \in Nat /\ k \in Nat
  BY LenProperties
<1>3. CASE function_callable(f, Len(s)) # "none"
  BY <1>1, <1>3, ErrorHow, Zenon DEF Outcome
<1>4. CASE function_callable(f, Len(s)) = "none"
  <2>1. callablep(f, Len(s))
    BY <1>4, Callable
  <2>2. CASE k > 1 \/ copy
    <3>1. Gets(f, s, callv(f, Vec("apply", s)))
      BY <2>1, CallvGets
    <3>2. apply(f, s, tail_len) = callv(f, Vec("apply", s))
      BY <1>1, <1>4, <2>2, Zenon
    <3> QED BY <1>4, <3>1, <3>2, Zenon DEF Outcome
  <2>3. CASE k = 1 /\ ~copy
    <3>1. s # <<>> /\ ~(k > 1) /\ ~call1plus_needs_copy(f)
      BY <1>2, <2>3, EmptySeq
    <3>2. Gets(f, s, call1plus(f, s[1], Vec("caller", From(s, 1))))
      BY <2>1, <3>1, Call1plusGets
    <3>3. apply(f, s, tail_len) = call1plus(f, s[1], Vec("caller", From(s, 1)))
      BY <1>1, <1>4, <2>3, <3>1, Zenon
    <3> QED BY <1>4, <3>2, <3>3, Zenon DEF Outcome
  <2>4. CASE k = 0 /\ ~copy
    <3>1. ~(k > 1) /\ k # 1 /\ ~callv_needs_copy(f)
      BY <2>4
    <3>2. From(s, 0) = s
      BY SubSeqFull DEF From
    <3>3. Gets(f, s, callv(f, Vec("caller", s)))
      BY <2>1, <3>1, CallvGets
    <3>4. apply(f, s, tail_len) = callv(f, Vec("caller", From(s, 0)))
      BY <1>1, <1>4, <2>4, <3>1, Zenon
    <3> QED BY <1>4, <3>2, <3>3, <3>4, Zenon DEF Outcome
  <2>5. k > 1 \/ k = 1 \/ k = 0
    BY <1>2
  <2> QED BY <2>2, <2>3, <2>4, <2>5, Zenon
<1> QED BY <1>3, <1>4

LEMMA FromBytecode ==
  ASSUME NEW f, Known(f), NEW s \in Seq(Nat), Len(s) <= MAX_FUNCTION_ARGS, MAX_FUNCTION_ARGS \in Nat
  PROVE  Outcome(f, s, execute(f, s))
<1>1. Len(s) \in Nat /\ f.n \in Nat /\ f.kind \in {"closure", "primitive", "secure", "varargs", "other"}
  BY KnownFacts, LenProperties
<1>2. CASE f.kind = "closure"
  <2>1. callablep(f, Len(s)) <=> Prologue(f.params, Len(s))
    BY <1>1, <1>2, Agreement DEF Known, ArityAgrees
  <2>2. execute(f, s) = IF Prologue(f.params, Len(s)) THEN Closure(s) ELSE Error("wrong_parameters")
    BY <1>2 DEF execute
  <2>3. function_callable(f, Len(s)) = "none" <=> callablep(f, Len(s))
    BY <1>2 DEF function_callable
  <2> QED BY <2>1, <2>2, <2>3, GetsAll, ErrorHow, Zenon DEF Outcome
<1>3. CASE f.kind = "varargs"
  <2> DEFINE v == Vec("call", From(s, f.n))
  <2>1. function_callable(f, Len(s)) = "none" <=> ~(f.n > Len(s))
    BY <1>1, <1>3 DEF function_callable, callablep
  <2>2. execute(f, s) = IF f.n > Len(s) THEN Error("wrong_parameters") ELSE call_vararg(f.n, s, v)
    BY <1>3 DEF execute
  <2>3. ~(f.n > Len(s)) => Gets(f, s, call_vararg(f.n, s, v))
    <3>1. ~(f.n > Len(s)) => f.n \in 0..Len(s)
      BY <1>1
    <3>2. v.elems = From(s, f.n) /\ v.made = "call"
      BY DEF Vec
    <3> HIDE DEF v
    <3> QED BY <3>1, <3>2, GetsCut
  <2> QED BY <2>1, <2>2, <2>3, ErrorHow, Zenon DEF Outcome
<1>4. CASE f.kind = "other"
  <2>1. function_callable(f, Len(s)) # "none" /\ execute(f, s) = Error("bad_function")
    BY <1>4 DEF function_callable, execute
  <2> QED BY <2>1, ErrorHow DEF Outcome
<1>5. CASE f.kind \in {"primitive", "secure"}
  <2> DEFINE refused == f.kind = "secure" /\ (DEFAULT_SECLEVEL < f.seclevel \/ MaxSeclevel < f.seclevel)
  <2>1. function_callable(f, Len(s)) = IF refused THEN "security_violation"
                                       ELSE IF f.n = Len(s) THEN "none" ELSE "wrong_parameters"
    BY <1>5 DEF function_callable, callablep
  <2>2. execute(f, s) = IF refused THEN Error("security_violation")
                        ELSE IF f.n = Len(s) THEN Primitive(s) ELSE Error("wrong_parameters")
    BY <1>5 DEF execute
  <2> HIDE DEF refused
  <2> QED BY <2>1, <2>2, GetsAll, ErrorHow DEF Outcome
<1> QED BY <1>1, <1>2, <1>3, <1>4, <1>5

LEMMA ElemsFacts == \A n \in Nat : Elems(n) \in Seq(Nat) /\ Len(Elems(n)) = n
  BY DEF Elems

\* A call as `call' and `got' have it
LEMMA MadeCall ==
  ASSUME CallsAssumptions, NEW f \in Functions, NEW n \in Nat, NEW by, NEW tail, NEW r,
         Outcome(f, Elems(n), r), Made(by, f, n, tail, r)
  PROVE  ArgumentsArrive'
<1>1. call' = [by |-> by, f |-> f, n |-> n, tail |-> tail] /\ got' = r
  BY DEF Made
<1>2. call'.f = f /\ call'.n = n
  BY <1>1
<1>3. Known(f) /\ MAX_FUNCTION_ARGS \in Nat
  BY DEF CallsAssumptions, Known, ParamsOK, Fn
<1>4. ArityAgrees(f, n)
  BY <1>3, Agreement DEF Known
<1>5. Len(Elems(n)) = n
  BY ElemsFacts
<1>6. CASE function_callable(f, n) # "none"
  <2>1. r.how = "error"
    BY <1>5, <1>6 DEF Outcome
  <2> QED BY <1>1, <1>2, <1>4, <1>6, <2>1 DEF ArgumentsArrive, HandedOver
<1>7. CASE function_callable(f, n) = "none"
  <2>1. Gets(f, Elems(n), r)
    BY <1>5, <1>7 DEF Outcome
  <2> QED BY <1>1, <1>2, <1>4, <1>7, <2>1 DEF ArgumentsArrive, HandedOver, Gets
<1> QED BY <1>6, <1>7

\* Whatever the functions and however a call is made, by C, by apply() or by
\* byte code, with any number of arguments, the function gets exactly these,
\* or an error is what function_callable() says there is (call.c:44-180,
\* 428-499, interpret.c:515-568)
THEOREM CallsSafety == CallsAssumptions => (CallSpec => []ArgumentsArrive)
<1> SUFFICES ASSUME CallsAssumptions PROVE CallSpec => []ArgumentsArrive
  OBVIOUS
<1>1. CallInit => ArgumentsArrive
  BY DEF CallInit, ArgumentsArrive
<1>2. ArgumentsArrive /\ [CallNext]_call_vars => ArgumentsArrive'
  <2> SUFFICES ASSUME ArgumentsArrive, [CallNext]_call_vars PROVE ArgumentsArrive'
    OBVIOUS
  <2>1. MAX_FUNCTION_ARGS \in Nat /\ MaxArgs \in Nat /\ \A f \in Functions : Known(f)
    BY DEF CallsAssumptions, Known, ParamsOK, Fn
  <2>2. ASSUME NEW f \in Functions, NEW n \in Nat
        PROVE  /\ Outcome(f, Elems(n), docallv(f, Elems(n))) /\ Outcome(f, Elems(n), docall_argv(f, Elems(n)))
               /\ n > 0 => Outcome(f, Elems(n), docall1plus(f, Elems(n)))
    <3>1. Elems(n) \in Seq(Nat) /\ Len(Elems(n)) = n /\ Known(f) /\ (n > 0 => Elems(n) # <<>>)
      BY <2>1, ElemsFacts, EmptySeq
    <3> QED BY <3>1, FromC
  <2>3. CASE mcatch_callv
    BY <2>1, <2>2, <2>3, MadeCall DEF mcatch_callv
  <2>4. CASE mcatch_call1plus
    BY <2>1, <2>2, <2>4, MadeCall DEF mcatch_call1plus
  <2>5. CASE mcatch_call
    BY <2>1, <2>2, <2>5, MadeCall DEF mcatch_call
  <2>6. CASE apply_tail
    <3>1. PICK f \in Functions, n \in 0..MaxArgs : \E tail \in 0..n :
            Made("apply", f, n, tail, apply(f, Elems(n), tail))
      BY <2>6 DEF apply_tail
    <3>2. PICK tail \in 0..n : Made("apply", f, n, tail, apply(f, Elems(n), tail))
      BY <3>1
    <3>3. n \in Nat /\ Elems(n) \in Seq(Nat) /\ tail \in 0..Len(Elems(n)) /\ Known(f)
      BY <2>1, ElemsFacts
    <3>4. Outcome(f, Elems(n), apply(f, Elems(n), tail))
      BY <3>3, FromApply
    <3> QED BY <3>2, <3>3, <3>4, MadeCall
  <2>7. CASE execute_ins
    <3>1. PICK f \in Functions, n \in 0..MAX_FUNCTION_ARGS : Made("execute", f, n, 0, execute(f, Elems(n)))
      BY <2>7 DEF execute_ins
    <3>2. n \in Nat /\ Elems(n) \in Seq(Nat) /\ Len(Elems(n)) <= MAX_FUNCTION_ARGS /\ Known(f)
      BY <2>1, ElemsFacts
    <3>3. Outcome(f, Elems(n), execute(f, Elems(n)))
      BY <2>1, <3>2, FromBytecode
    <3> QED BY <3>1, <3>2, <3>3, MadeCall
  <2>8. CASE Finished
    BY <2>8 DEF Finished, ArgumentsArrive
  <2>9. CASE UNCHANGED call_vars
    BY <2>9 DEF call_vars, ArgumentsArrive, HandedOver
  <2> QED BY <2>3, <2>4, <2>5, <2>6, <2>7, <2>8, <2>9 DEF CallNext
<1> QED BY <1>1, <1>2, PTL DEF CallSpec

-----------------------------------------------------------------------------
(***************************************************************************)
(* String buffers, for any strings and any size of a short one. A buffer   *)
(* holds a string when its first bytes are these characters and a nul      *)
(* follows; each function of strbuf.c makes one that holds what it should  *)
(* of one that does.                                                       *)
(***************************************************************************)
Buffer == [isbig : BOOLEAN, len : Nat, buf : Seq(Alphabet)]
IsText(h) == h \in Seq(Alphabet)

\* The buffer s holds the string h
Stores(s, h) ==
  /\ s \in Buffer /\ IsText(h)
  /\ s.len = Len(h) /\ s.len < Len(s.buf) /\ s.buf[s.len + 1] = NUL
  /\ \A i \in 1..Len(h) : s.buf[i] = h[i]
  /\ Len(s.buf) >= STRBUF_SMALL_SIZE /\ (s.isbig <=> Len(s.buf) > STRBUF_SMALL_SIZE)

SmallSize == STRBUF_SMALL_SIZE \in Nat \ {0}

LEMMA InAlphabet == NUL \in Alphabet /\ GARBAGE \in Alphabet /\ SPACE \in Alphabet /\ "a" \in Alphabet
  BY Zenon DEF Alphabet

LEMMA IsTextFacts ==
  ASSUME NEW h, IsText(h)
  PROVE  Len(h) \in Nat /\ DOMAIN h = 1..Len(h) /\ \A i \in 1..Len(h) : h[i] \in Alphabet
  BY LenProperties DEF IsText

LEMMA CutText ==
  ASSUME NEW h, IsText(h), NEW n \in 0..Len(h)
  PROVE  /\ IsText(SubSeq(h, 1, n)) /\ Len(SubSeq(h, 1, n)) = n
         /\ \A i \in 1..n : SubSeq(h, 1, n)[i] = h[i]
<1>1. Len(h) \in Nat /\ \A i \in 1..n : h[i] \in Alphabet
  BY IsTextFacts
<1>2. n \in Int /\ 1 \in Int
  BY <1>1
<1>3. /\ SubSeq(h, 1, n) \in Seq(Alphabet)
      /\ Len(SubSeq(h, 1, n)) = IF 1 <= n THEN n - 1 + 1 ELSE 0
      /\ \A i \in 1..n - 1 + 1 : SubSeq(h, 1, n)[i] = h[1 + i - 1]
  BY <1>1, <1>2, SubSeqProperties
<1>4. n - 1 + 1 = n /\ \A i \in 1..n : 1 + i - 1 = i
  BY <1>2
<1> QED BY <1>2, <1>3, <1>4 DEF IsText

LEMMA SameText ==
  ASSUME NEW g, IsText(g), NEW h, IsText(h), Len(g) = Len(h), \A i \in 1..Len(h) : g[i] = h[i]
  PROVE  g = h
  BY SeqEqual DEF IsText

LEMMA JoinText ==
  ASSUME NEW g, IsText(g), NEW h, IsText(h)
  PROVE  /\ IsText(g \o h) /\ Len(g \o h) = Len(g) + Len(h)
         /\ \A i \in 1..Len(g) + Len(h) : (g \o h)[i] = IF i <= Len(g) THEN g[i] ELSE h[i - Len(g)]
  BY ConcatProperties DEF IsText

LEMMA MakeText ==
  ASSUME NEW n \in Nat, NEW c \in Alphabet
  PROVE  IsText([i \in 1..n |-> c]) /\ Len([i \in 1..n |-> c]) = n
<1>1. [i \in 1..n |-> c] \in Seq(Alphabet)
  OBVIOUS
<1>2. Len([i \in 1..n |-> c]) = n
  OBVIOUS
<1> QED BY <1>1, <1>2 DEF IsText

-----------------------------------------------------------------------------
\* The room that is asked for is there
LEMMA PowersOf2 ==
  /\ POW2[0] = 1 /\ \A k \in Nat : POW2[k] \in Nat /\ POW2[k + 1] = 2 * POW2[k]
<1> DEFINE Turn == [p \in Nat \X Nat |-> 2 * p[2]]
           Is(g) == g = [k \in Nat |-> IF k = 0 THEN 1 ELSE 2 * g[k - 1]]
<1>1. Turn \in Bodies(Nat, Nat)
  BY DEF Bodies
<1>2. \A n \in Nat, m \in Nat : Turn[<<n, m>>] = 2 * m
  OBVIOUS
<1> HIDE DEF Turn
<1>3. PICK g : IsLoop(g, Nat, Nat, 1, Turn)
  BY <1>1, LoopExists
<1>4. g[0] = 1 /\ \A n \in Nat : g[n] \in Nat /\ g[n + 1] = 2 * g[n]
  BY <1>2, <1>3 DEF IsLoop
<1> DEFINE f == [n \in Nat |-> g[n]]
<1>5. Is(f)
  <2>1. ASSUME NEW n \in Nat PROVE f[n] = IF n = 0 THEN 1 ELSE 2 * f[n - 1]
    <3>1. n = 0 \/ (n - 1 \in Nat /\ (n - 1) + 1 = n)
      OBVIOUS
    <3> QED BY <1>4, <3>1
  <2>2. f = [n \in Nat |-> f[n]]
    OBVIOUS
  <2> HIDE DEF f
  <2> QED BY <2>1, <2>2
<1>6. POW2 = CHOOSE h : Is(h)
  BY DEF POW2
<1> HIDE DEF f
<1>7. Is(POW2)
  <2> HIDE DEF Is
  <2> QED BY <1>5, <1>6
<1>8. \A k \in Nat : POW2[k] = IF k = 0 THEN 1 ELSE 2 * POW2[k - 1]
  BY <1>7
<1> DEFINE T == {k \in Nat : POW2[k] \in Nat}
<1>9. Nat \subseteq T
  <2>1. 0 \in T
    BY <1>8
  <2>2. ASSUME NEW n \in Nat, n \in T PROVE n + 1 \in T
    <3>1. n + 1 # 0 /\ (n + 1) - 1 = n /\ n + 1 \in Nat
      OBVIOUS
    <3>2. POW2[n + 1] = 2 * POW2[n]
      BY <1>8, <3>1
    <3> QED BY <2>2, <3>1, <3>2
  <2> HIDE DEF T
  <2> QED BY <2>1, <2>2, Induction
<1>10. ASSUME NEW k \in Nat PROVE POW2[k] \in Nat /\ POW2[k + 1] = 2 * POW2[k]
  <2>1. k + 1 # 0 /\ (k + 1) - 1 = k /\ k + 1 \in Nat
    OBVIOUS
  <2> QED BY <1>8, <1>9, <2>1
<1> QED BY <1>8, <1>10

LEMMA NextPower ==
  ASSUME NEW n \in Nat
  PROVE  NEXT_POW2(n) \in Nat /\ NEXT_POW2(n) > n
<1> DEFINE Above == {k \in Nat : k < POW2[k]}
           S == {k \in Nat : n < POW2[k]}
<1>1. Nat \subseteq Above
  <2>1. 0 \in Above
    BY PowersOf2
  <2>2. ASSUME NEW k \in Nat, k \in Above PROVE k + 1 \in Above
    BY <2>2, PowersOf2
  <2> HIDE DEF Above
  <2> QED BY <2>1, <2>2, Induction
<1>2. n \in S /\ S \in SUBSET Nat
  BY <1>1
<1>3. PICK m \in S : \A k \in S : m <= k
  <2> HIDE DEF S
  <2> QED BY <1>2, LeastTurn
<1>4. m \in 0..n /\ n < POW2[m]
  BY <1>2, <1>3
<1>5. \A j \in 0..m - 1 : POW2[j] <= n
  <2> TAKE j \in 0..m - 1
  <2>1. j \in Nat /\ ~(m <= j) /\ POW2[j] \in Nat
    BY <1>4, PowersOf2
  <2> QED BY <1>3, <2>1
<1> DEFINE P(k) == n < POW2[k] /\ \A j \in 0..k - 1 : POW2[j] <= n
<1>6. P(m)
  BY <1>4, <1>5
<1>7. NEXT_POW2(n) = POW2[CHOOSE k \in 0..n : P(k)]
  BY DEF NEXT_POW2
<1>8. \E k \in 0..n : P(k) /\ NEXT_POW2(n) = POW2[k]
  <2> HIDE DEF P
  <2> QED BY <1>4, <1>6, <1>7
<1> QED BY <1>8, PowersOf2

-----------------------------------------------------------------------------
(***************************************************************************)
(* The functions of strbuf.c                                               *)
(***************************************************************************)
LEMMA SizedFacts ==
  ASSUME NEW size \in Nat, NEW h, IsText(h), Len(h) < size
  PROVE  /\ Sized(size, h) \in Seq(Alphabet) /\ Len(Sized(size, h)) = size
         /\ \A i \in 1..Len(h) : Sized(size, h)[i] = h[i]
         /\ Sized(size, h)[Len(h) + 1] = NUL
<1>1. Len(h) \in Nat /\ \A i \in 1..Len(h) : h[i] \in Alphabet
  BY IsTextFacts
<1> DEFINE b == Sized(size, h)
<1>2. /\ b = [i \in 1..size |-> IF i <= Len(h) THEN h[i] ELSE IF i = Len(h) + 1 THEN NUL ELSE GARBAGE]
  BY DEF Sized
<1>3. \A i \in 1..size : (IF i <= Len(h) THEN h[i] ELSE IF i = Len(h) + 1 THEN NUL ELSE GARBAGE) \in Alphabet
  <2> TAKE i \in 1..size
  <2>1. i <= Len(h) => i \in 1..Len(h)
    BY <1>1
  <2>2. i <= Len(h) => h[i] \in Alphabet
    BY <1>1, <2>1
  <2>3. NUL \in Alphabet /\ GARBAGE \in Alphabet
    BY InAlphabet
  <2> QED BY <2>2, <2>3, Zenon
<1>4. b \in [1..size -> Alphabet]
  BY <1>2, <1>3
<1>5. \A i \in 1..Len(h) : i \in 1..size /\ i <= Len(h)
  BY <1>1
<1>6. Len(h) + 1 \in 1..size /\ ~(Len(h) + 1 <= Len(h))
  BY <1>1
<1> QED BY <1>2, <1>4, <1>5, <1>6

LEMMA BigHolds ==
  ASSUME SmallSize, NEW size \in Nat, NEW h, IsText(h), Len(h) < size, size > STRBUF_SMALL_SIZE
  PROVE  Stores(Big(size, h), h) /\ Len(Big(size, h).buf) = size
<1>1. Len(h) \in Nat
  BY IsTextFacts
<1> DEFINE s == Big(size, h)
<1>2. s.isbig = TRUE /\ s.len = Len(h) /\ s.buf = Sized(size, h)
  BY DEF Big
<1>3. s \in Buffer
  BY <1>1, SizedFacts DEF Big, Buffer
<1> HIDE DEF s
<1> QED BY <1>1, <1>2, <1>3, SizedFacts DEF Stores, SmallSize, s

LEMMA SmallHolds ==
  ASSUME SmallSize, NEW h, IsText(h), Len(h) < STRBUF_SMALL_SIZE
  PROVE  Stores(Small(h), h)
<1>1. Len(h) \in Nat /\ STRBUF_SMALL_SIZE \in Nat
  BY IsTextFacts DEF SmallSize
<1> DEFINE s == Small(h)
<1>2. s.isbig = FALSE /\ s.len = Len(h) /\ s.buf = Sized(STRBUF_SMALL_SIZE, h)
  BY DEF Small
<1>3. s \in Buffer
  BY <1>1, SizedFacts DEF Small, Buffer
<1> HIDE DEF s
<1>4. Stores(s, h)
  BY <1>1, <1>2, <1>3, SizedFacts DEF Stores
<1> QED BY <1>4 DEF s

LEMMA HoldsFacts ==
  ASSUME NEW s, NEW h, Stores(s, h)
  PROVE  /\ s.isbig \in BOOLEAN /\ s.len \in Nat /\ Len(s.buf) \in Nat
         /\ IsText(h) /\ Len(h) \in Nat /\ s.len = Len(h) /\ s.len < Len(s.buf) /\ IsText(s.buf)
         /\ s = [isbig |-> s.isbig, len |-> s.len, buf |-> s.buf]
<1>1. s \in Buffer /\ IsText(h) /\ s.len = Len(h) /\ s.len < Len(s.buf)
  BY DEF Stores
<1>2. s.isbig \in BOOLEAN /\ s.len \in Nat /\ IsText(s.buf) /\ s = [isbig |-> s.isbig, len |-> s.len, buf |-> s.buf]
  BY <1>1 DEF Buffer, IsText
<1> QED BY <1>1, <1>2, IsTextFacts

LEMMA CharsHeld ==
  ASSUME NEW s, NEW h, Stores(s, h)
  PROVE  Chars(s) = h
<1>1. IsText(s.buf) /\ IsText(h) /\ s.len \in 0..Len(s.buf) /\ s.len = Len(h)
  BY HoldsFacts
<1>2. IsText(Chars(s)) /\ Len(Chars(s)) = Len(h) /\ \A i \in 1..Len(h) : Chars(s)[i] = s.buf[i]
  BY <1>1, CutText DEF Chars
<1>3. \A i \in 1..Len(h) : s.buf[i] = h[i]
  BY DEF Stores
<1> QED BY <1>1, <1>2, <1>3, SameText

LEMMA GrownHolds ==
  ASSUME SmallSize, NEW s, NEW h, Stores(s, h), NEW size \in Nat,
         size > Len(h), size > STRBUF_SMALL_SIZE
  PROVE  /\ Stores(sb_setsize_big(s, size), h)
         /\ Len(sb_setsize_big(s, size).buf) = size
<1>1. CASE size = Len(s.buf)
  BY <1>1 DEF sb_setsize_big, internal_sb_size
<1>2. CASE size # Len(s.buf)
  <2>1. ~(s.len >= size)
    BY HoldsFacts
  <2>2. sb_setsize_big(s, size) = Big(size, h)
    BY <1>2, <2>1, CharsHeld DEF sb_setsize_big, internal_sb_size
  <2> QED BY <2>2, BigHolds, HoldsFacts
<1> QED BY <1>1, <1>2

LEMMA RoomMade ==
  ASSUME SmallSize, NEW s, NEW h, Stores(s, h), NEW n \in Nat
  PROVE  Stores(sb_makeroom(s, n), h) /\ Len(sb_makeroom(s, n).buf) > Len(h) + n
<1>1. s.len = Len(h) /\ Len(h) \in Nat /\ Len(s.buf) \in Nat /\ IsText(h)
  BY HoldsFacts
<1> DEFINE need == Len(h) + n + 1
<1>2. CASE need > Len(s.buf)
  <2>1. sb_makeroom(s, n) = sb_setsize_big(s, NEXT_POW2(need - 1))
    BY <1>1, <1>2 DEF sb_makeroom, internal_sb_size
  <2>2. need - 1 \in Nat /\ need - 1 = Len(h) + n
    BY <1>1
  <2>3. NEXT_POW2(need - 1) \in Nat /\ NEXT_POW2(need - 1) > need - 1
    BY <2>2, NextPower
  <2>4. STRBUF_SMALL_SIZE \in Nat /\ Len(s.buf) >= STRBUF_SMALL_SIZE
    BY DEF Stores, SmallSize
  <2> DEFINE size == NEXT_POW2(need - 1)
  <2>5. size \in Nat /\ size > Len(h) + n
    BY <2>2, <2>3
  <2> HIDE DEF size
  <2>6. size > Len(h) /\ size > STRBUF_SMALL_SIZE
    BY <1>1, <1>2, <2>4, <2>5
  <2>7. Stores(sb_setsize_big(s, size), h) /\ Len(sb_setsize_big(s, size).buf) = size
    BY <2>5, <2>6, GrownHolds
  <2> QED BY <2>1, <2>5, <2>7 DEF size
<1>3. CASE ~(need > Len(s.buf))
  <2>1. sb_makeroom(s, n) = s
    BY <1>1, <1>3 DEF sb_makeroom, internal_sb_size
  <2> QED BY <1>1, <1>3, <2>1
<1> QED BY <1>2, <1>3

\* A length that is set keeps the characters before it
LEMMA LengthSet ==
  ASSUME NEW s \in Buffer, NEW n \in Nat, n < Len(s.buf)
  PROVE  LET t == internal_sb_setlen(s, n) IN
         /\ t \in Buffer /\ t.isbig = s.isbig /\ t.len = n /\ Len(t.buf) = Len(s.buf)
         /\ t.buf[n + 1] = NUL /\ \A i \in 1..n : t.buf[i] = s.buf[i]
<1> DEFINE b == Sized(Len(s.buf), SubSeq(s.buf, 1, n))
           t == internal_sb_setlen(s, n)
<1>1. s = [isbig |-> s.isbig, len |-> s.len, buf |-> s.buf] /\ s.isbig \in BOOLEAN /\ IsText(s.buf)
  BY DEF Buffer, IsText
<1>2. Len(s.buf) \in Nat /\ n \in 0..Len(s.buf)
  BY <1>1, IsTextFacts
<1>3. IsText(SubSeq(s.buf, 1, n)) /\ Len(SubSeq(s.buf, 1, n)) = n
      /\ \A i \in 1..n : SubSeq(s.buf, 1, n)[i] = s.buf[i]
  BY <1>1, <1>2, CutText
<1>4. /\ b \in Seq(Alphabet) /\ Len(b) = Len(s.buf)
      /\ \A i \in 1..n : b[i] = s.buf[i]
      /\ b[n + 1] = NUL
  <2> DEFINE cut == SubSeq(s.buf, 1, n)
  <2> HIDE DEF cut
  <2>1. IsText(cut) /\ Len(cut) = n /\ \A i \in 1..n : cut[i] = s.buf[i]
    BY <1>3 DEF cut
  <2>2. /\ Sized(Len(s.buf), cut) \in Seq(Alphabet) /\ Len(Sized(Len(s.buf), cut)) = Len(s.buf)
        /\ \A i \in 1..n : Sized(Len(s.buf), cut)[i] = cut[i]
        /\ Sized(Len(s.buf), cut)[n + 1] = NUL
    <3>1. Len(cut) < Len(s.buf)
      BY <2>1
    <3> QED BY <1>2, <2>1, <3>1, SizedFacts
  <2>3. b = Sized(Len(s.buf), cut)
    BY DEF cut
  <2> HIDE DEF b
  <2> QED BY <2>1, <2>2, <2>3
<1>5. t = [isbig |-> s.isbig, len |-> n, buf |-> b]
  <2> DEFINE t1 == [s EXCEPT !.len = n]
  <2>1. t1 = [isbig |-> s.isbig, len |-> n, buf |-> s.buf]
    BY <1>1
  <2>2. t = [t1 EXCEPT !.buf = IF n < Len(@) THEN Sized(Len(@), SubSeq(@, 1, n)) ELSE <<>>]
    BY DEF internal_sb_setlen
  <2> HIDE DEF t1, t
  <2>3. t1.buf = s.buf
    BY <2>1
  <2>4. t = [t1 EXCEPT !.buf = b]
    BY <2>2, <2>3
  <2> HIDE DEF b
  <2> QED BY <2>1, <2>4
<1> HIDE DEF b
<1>6. t \in Buffer /\ t.isbig = s.isbig /\ t.len = n /\ t.buf = b
  BY <1>1, <1>4, <1>5 DEF Buffer
<1> HIDE DEF t
<1> QED BY <1>4, <1>6 DEF t

\* t is s, with str put in after ofs
IsPut(t, s, ofs, str) ==
  /\ t \in Buffer /\ t.isbig = s.isbig /\ t.len = s.len /\ Len(t.buf) = Len(s.buf)
  /\ \A i \in 1..Len(s.buf) :
       t.buf[i] = IF i - ofs \in 1..Len(str) THEN str[i - ofs] ELSE s.buf[i]

LEMMA PutFacts ==
  ASSUME NEW s \in Buffer, NEW ofs \in Nat, NEW str, IsText(str)
  PROVE  IsPut(Put(s, ofs, str), s, ofs, str)
<1> DEFINE b == [i \in DOMAIN s.buf |-> IF i - ofs \in DOMAIN str THEN str[i - ofs] ELSE s.buf[i]]
           t == Put(s, ofs, str)
<1>1. /\ s = [isbig |-> s.isbig, len |-> s.len, buf |-> s.buf]
      /\ s.isbig \in BOOLEAN /\ s.len \in Nat /\ IsText(s.buf)
  BY DEF Buffer, IsText
<1>2. /\ Len(s.buf) \in Nat /\ DOMAIN s.buf = 1..Len(s.buf) /\ DOMAIN str = 1..Len(str)
      /\ \A i \in 1..Len(s.buf) : s.buf[i] \in Alphabet
      /\ \A i \in 1..Len(str) : str[i] \in Alphabet
  BY <1>1, IsTextFacts
<1>3. b = [i \in 1..Len(s.buf) |-> IF i - ofs \in 1..Len(str) THEN str[i - ofs] ELSE s.buf[i]]
  BY <1>2
<1>4. \A i \in 1..Len(s.buf) : (IF i - ofs \in 1..Len(str) THEN str[i - ofs] ELSE s.buf[i]) \in Alphabet
  BY <1>2, Zenon
<1>5. b \in [1..Len(s.buf) -> Alphabet]
  BY <1>3, <1>4, Zenon
<1>6. b \in Seq(Alphabet) /\ Len(b) = Len(s.buf)
  <2> HIDE DEF b
  <2> QED BY <1>2, <1>5
<1>7. \A i \in 1..Len(s.buf) : b[i] = IF i - ofs \in 1..Len(str) THEN str[i - ofs] ELSE s.buf[i]
  BY <1>3, Zenon
<1>8. t = [isbig |-> s.isbig, len |-> s.len, buf |-> b]
  BY <1>1 DEF Put
<1> HIDE DEF b
<1>9. t \in Buffer /\ t.isbig = s.isbig /\ t.len = s.len /\ t.buf = b
  BY <1>1, <1>6, <1>8 DEF Buffer
<1> HIDE DEF t
<1> QED BY <1>6, <1>7, <1>9, Zenon DEF t, IsPut

LEMMA MemAdded ==
  ASSUME SmallSize, NEW s, NEW h, Stores(s, h), NEW str, IsText(str)
  PROVE  Stores(sb_addmem(s, str), h \o str)
<1>1. s.len = Len(h) /\ Len(h) \in Nat /\ IsText(h) /\ Len(str) \in Nat
  BY HoldsFacts, IsTextFacts
<1>2. CASE str = <<>>
  <2>1. h \o <<>> = h
    BY <1>1, ConcatEmptySeq DEF IsText
  <2> QED BY <1>2, <2>1 DEF sb_addmem
<1>3. CASE str # <<>>
  <2> DEFINE r == sb_makeroom(s, Len(str))
             n == Len(h) + Len(str)
             u == internal_sb_setlen(r, n)
             t == Put(u, Len(h), str)
             g == h \o str
  <2>1. sb_addmem(s, str) = t
    BY <1>1, <1>3, Zenon DEF sb_addmem
  <2>2. Stores(r, h) /\ Len(r.buf) > n
    BY <1>1, RoomMade
  <2>3. IsText(g) /\ Len(g) = n /\ \A i \in 1..n : g[i] = IF i <= Len(h) THEN h[i] ELSE str[i - Len(h)]
    BY <1>1, JoinText
  <2>4. r \in Buffer /\ n \in Nat /\ Len(r.buf) \in Nat
    BY <1>1, <2>2, HoldsFacts DEF Stores
  <2> HIDE DEF r
  <2>5. /\ u \in Buffer /\ u.isbig = r.isbig /\ u.len = n /\ Len(u.buf) = Len(r.buf)
        /\ u.buf[n + 1] = NUL /\ \A i \in 1..n : u.buf[i] = r.buf[i]
    BY <2>2, <2>4, LengthSet
  <2> HIDE DEF u
  <2>6. /\ t \in Buffer /\ t.isbig = u.isbig /\ t.len = u.len /\ Len(t.buf) = Len(u.buf)
        /\ \A i \in 1..Len(u.buf) :
             t.buf[i] = IF i - Len(h) \in 1..Len(str) THEN str[i - Len(h)] ELSE u.buf[i]
    <3>1. IsPut(t, u, Len(h), str)
      BY <1>1, <2>5, PutFacts, Zenon
    <3> HIDE DEF t
    <3> QED BY <3>1 DEF IsPut
  <2> HIDE DEF t, g
  <2>7. t.buf[n + 1] = NUL
    <3>1. n + 1 \in 1..Len(u.buf) /\ ~((n + 1) - Len(h) \in 1..Len(str))
      BY <1>1, <2>2, <2>4, <2>5
    <3> QED BY <2>5, <2>6, <3>1
  <2>8. ASSUME NEW i \in 1..n PROVE t.buf[i] = g[i]
    <3>1. i \in 1..Len(u.buf)
      BY <2>2, <2>4, <2>5
    <3>2. CASE i <= Len(h)
      <4>1. ~(i - Len(h) \in 1..Len(str)) /\ i \in 1..Len(h)
        BY <1>1, <3>2
      <4>2. r.buf[i] = h[i]
        BY <2>2, <4>1 DEF Stores
      <4>3. t.buf[i] = u.buf[i] /\ u.buf[i] = r.buf[i]
        BY <2>5, <2>6, <3>1, <4>1
      <4> QED BY <2>3, <3>2, <4>2, <4>3
    <3>3. CASE ~(i <= Len(h))
      <4>1. i - Len(h) \in 1..Len(str)
        BY <1>1, <3>3
      <4>2. t.buf[i] = str[i - Len(h)]
        BY <2>6, <3>1, <4>1
      <4> QED BY <2>3, <3>3, <4>2
    <3> QED BY <3>2, <3>3
  <2>9. Len(t.buf) >= STRBUF_SMALL_SIZE /\ (t.isbig <=> Len(t.buf) > STRBUF_SMALL_SIZE)
    BY <2>2, <2>5, <2>6 DEF Stores
  <2>10. t.len = Len(g) /\ t.len < Len(t.buf) /\ t.buf[t.len + 1] = NUL
    BY <2>2, <2>3, <2>5, <2>6, <2>7
  <2>11. Stores(t, g)
    BY <2>3, <2>6, <2>8, <2>9, <2>10 DEF Stores
  <2> QED BY <2>1, <2>11 DEF g
<1> QED BY <1>2, <1>3

LEMMA Trimmed ==
  ASSUME SmallSize, NEW s, NEW h, Stores(s, h)
  PROVE  Stores(sb_trim(s), h)
<1>1. s.len = Len(h) /\ Len(h) \in Nat /\ IsText(h) /\ STRBUF_SMALL_SIZE \in Nat
  BY HoldsFacts DEF SmallSize
<1>2. CASE s.len >= STRBUF_SMALL_SIZE
  <2>1. sb_trim(s) = sb_setsize_big(s, Len(h) + 1)
    BY <1>1, <1>2 DEF sb_trim
  <2>2. Len(h) + 1 \in Nat /\ Len(h) + 1 > Len(h) /\ Len(h) + 1 > STRBUF_SMALL_SIZE
    BY <1>1, <1>2
  <2> QED BY <2>1, <2>2, GrownHolds
<1>3. CASE ~(s.len >= STRBUF_SMALL_SIZE) /\ s.isbig
  <2>1. Len(h) < STRBUF_SMALL_SIZE /\ Len(h) + 1 <= STRBUF_SMALL_SIZE
    BY <1>1, <1>3
  <2>2. sb_trim(s) = Small(h)
    BY <1>3, <2>1, CharsHeld DEF sb_trim, sb_initmem
  <2> QED BY <1>1, <2>1, <2>2, SmallHolds
<1>4. CASE ~(s.len >= STRBUF_SMALL_SIZE) /\ ~s.isbig
  BY <1>4 DEF sb_trim
<1> QED BY <1>2, <1>3, <1>4

LEMMA Initialised ==
  ASSUME SmallSize, NEW str, IsText(str)
  PROVE  Stores(sb_initmem(str), str)
<1>1. Len(str) \in Nat /\ STRBUF_SMALL_SIZE \in Nat
  BY IsTextFacts DEF SmallSize
<1>2. CASE Len(str) + 1 <= STRBUF_SMALL_SIZE
  <2>1. Len(str) < STRBUF_SMALL_SIZE
    BY <1>1, <1>2
  <2> QED BY <1>2, <2>1, SmallHolds DEF sb_initmem
<1>3. CASE ~(Len(str) + 1 <= STRBUF_SMALL_SIZE)
  <2>1. Len(str) < Len(str) + 1 /\ Len(str) + 1 > STRBUF_SMALL_SIZE /\ Len(str) + 1 \in Nat
    BY <1>1, <1>3
  <2> QED BY <1>3, <2>1, BigHolds DEF sb_initmem
<1> QED BY <1>2, <1>3

\* Shorter than what it was
LEMMA Shortened ==
  ASSUME NEW s, NEW h, Stores(s, h), NEW n \in 0..Len(h)
  PROVE  Stores(sb_setlen(s, n), SubSeq(h, 1, n))
<1>1. s.len = Len(h) /\ Len(h) \in Nat /\ IsText(h) /\ s.len < Len(s.buf) /\ Len(s.buf) \in Nat /\ s \in Buffer
  BY HoldsFacts DEF Stores
<1>2. n \in Nat /\ n < Len(s.buf)
  BY <1>1
<1> DEFINE u == internal_sb_setlen(s, n)
           none == [i \in 1..(n - s.len) |-> GARBAGE]
           t == Put(u, s.len, none)
           g == SubSeq(h, 1, n)
<1>3. sb_setlen(s, n) = t
  BY Zenon DEF sb_setlen
<1>4. none = <<>> /\ IsText(<<>>) /\ Len(<<>>) = 0
  <2>1. 1..(n - s.len) = {}
    BY <1>1
  <2> QED BY <2>1, EmptySeq DEF IsText
<1> HIDE DEF none
<1>5. /\ u \in Buffer /\ u.isbig = s.isbig /\ u.len = n /\ Len(u.buf) = Len(s.buf)
      /\ u.buf[n + 1] = NUL /\ \A i \in 1..n : u.buf[i] = s.buf[i]
  BY <1>1, <1>2, LengthSet
<1> HIDE DEF u
<1>6. /\ t \in Buffer /\ t.isbig = u.isbig /\ t.len = u.len /\ Len(t.buf) = Len(u.buf)
      /\ \A i \in 1..Len(u.buf) :
           t.buf[i] = IF i - s.len \in 1..Len(none) THEN none[i - s.len] ELSE u.buf[i]
  <2>1. s.len \in Nat /\ IsText(none)
    BY <1>1, <1>4
  <2>2. IsPut(t, u, s.len, none)
    BY <1>5, <2>1, PutFacts, Zenon
  <2> HIDE DEF t
  <2> QED BY <2>2 DEF IsPut
<1>7. \A i \in 1..Len(u.buf) : t.buf[i] = u.buf[i]
  <2>1. Len(none) = 0
    BY <1>4
  <2>2. \A i \in 1..Len(u.buf) : ~(i - s.len \in 1..Len(none))
    BY <1>1, <2>1
  <2> QED BY <1>6, <2>2
<1>8. IsText(g) /\ Len(g) = n /\ \A i \in 1..n : g[i] = h[i]
  BY <1>1, CutText
<1> HIDE DEF t, g
<1>9. t.buf[n + 1] = NUL
  <2>1. n + 1 \in 1..Len(u.buf)
    BY <1>1, <1>2, <1>5
  <2> QED BY <1>5, <1>7, <2>1
<1>10. ASSUME NEW i \in 1..n PROVE t.buf[i] = g[i]
  <2>1. i \in 1..Len(u.buf) /\ i \in 1..Len(h)
    BY <1>1, <1>2, <1>5
  <2>2. s.buf[i] = h[i]
    BY <2>1 DEF Stores
  <2> QED BY <1>5, <1>7, <1>8, <2>1, <2>2
<1>11. Len(t.buf) >= STRBUF_SMALL_SIZE /\ (t.isbig <=> Len(t.buf) > STRBUF_SMALL_SIZE)
  BY <1>5, <1>6 DEF Stores
<1>12. t.len = Len(g) /\ t.len < Len(t.buf) /\ t.buf[t.len + 1] = NUL
  BY <1>2, <1>5, <1>6, <1>8, <1>9
<1>13. Stores(t, g)
  BY <1>6, <1>8, <1>10, <1>11, <1>12 DEF Stores
<1> QED BY <1>3, <1>13 DEF g

-----------------------------------------------------------------------------
(***************************************************************************)
(* sb_strftime()                                                           *)
(***************************************************************************)
\* What is written inside of a string changes these characters only
Over(g, ofs, str) == [i \in 1..Len(g) |-> IF i - ofs \in 1..Len(str) THEN str[i - ofs] ELSE g[i]]

IsOver(o, g, ofs, str) ==
  /\ IsText(o) /\ Len(o) = Len(g)
  /\ \A i \in 1..Len(g) : o[i] = IF i - ofs \in 1..Len(str) THEN str[i - ofs] ELSE g[i]

LEMMA OverFacts ==
  ASSUME NEW g, IsText(g), NEW ofs \in Nat, NEW str, IsText(str)
  PROVE  IsOver(Over(g, ofs, str), g, ofs, str)
<1> DEFINE o == Over(g, ofs, str)
<1>1. /\ Len(g) \in Nat /\ \A i \in 1..Len(g) : g[i] \in Alphabet
      /\ \A i \in 1..Len(str) : str[i] \in Alphabet
  BY IsTextFacts
<1>2. \A i \in 1..Len(g) : (IF i - ofs \in 1..Len(str) THEN str[i - ofs] ELSE g[i]) \in Alphabet
  BY <1>1, Zenon
<1>3. o \in [1..Len(g) -> Alphabet]
  BY <1>2, Zenon DEF Over
<1>4. \A i \in 1..Len(g) : o[i] = IF i - ofs \in 1..Len(str) THEN str[i - ofs] ELSE g[i]
  BY Zenon DEF Over
<1> HIDE DEF o
<1>5. o \in Seq(Alphabet) /\ Len(o) = Len(g)
  BY <1>1, <1>3
<1>6. IsText(o) /\ Len(o) = Len(g)
  BY <1>5 DEF IsText
<1> QED BY <1>4, <1>6, Zenon DEF o, IsOver

LEMMA Overwritten ==
  ASSUME NEW s, NEW g, Stores(s, g), NEW ofs \in Nat, NEW str, IsText(str), ofs + Len(str) <= Len(g)
  PROVE  Stores(Put(s, ofs, str), Over(g, ofs, str))
<1> DEFINE t == Put(s, ofs, str)
           o == Over(g, ofs, str)
<1>1. /\ s.len = Len(g) /\ Len(g) \in Nat /\ IsText(g) /\ s.len < Len(s.buf) /\ Len(s.buf) \in Nat /\ s \in Buffer
      /\ Len(str) \in Nat /\ s.buf[Len(g) + 1] = NUL /\ \A i \in 1..Len(g) : s.buf[i] = g[i]
  BY HoldsFacts, IsTextFacts DEF Stores
<1>2. IsPut(t, s, ofs, str)
  BY <1>1, PutFacts
<1>3. IsOver(o, g, ofs, str)
  BY <1>1, OverFacts
<1> HIDE DEF t, o
<1>4. /\ IsText(o) /\ Len(o) = Len(g)
      /\ \A i \in 1..Len(g) : o[i] = IF i - ofs \in 1..Len(str) THEN str[i - ofs] ELSE g[i]
  BY <1>3 DEF IsOver
<1>5. t.buf[Len(g) + 1] = NUL
  <2>1. Len(g) + 1 \in 1..Len(s.buf) /\ ~((Len(g) + 1) - ofs \in 1..Len(str))
    BY <1>1
  <2> QED BY <1>1, <1>2, <2>1 DEF IsPut
<1>6. ASSUME NEW i \in 1..Len(g) PROVE t.buf[i] = o[i]
  <2>1. i \in 1..Len(s.buf)
    BY <1>1
  <2>2. t.buf[i] = IF i - ofs \in 1..Len(str) THEN str[i - ofs] ELSE s.buf[i]
    BY <1>2, <2>1, Zenon DEF IsPut
  <2> QED BY <1>1, <1>4, <2>2, Zenon
<1>7. /\ t \in Buffer /\ t.len = Len(o) /\ t.len < Len(t.buf) /\ t.buf[t.len + 1] = NUL
      /\ Len(t.buf) >= STRBUF_SMALL_SIZE /\ (t.isbig <=> Len(t.buf) > STRBUF_SMALL_SIZE)
  BY <1>1, <1>2, <1>4, <1>5 DEF IsPut, Stores
<1>8. Stores(t, o)
  BY <1>4, <1>6, <1>7 DEF Stores
<1> QED BY <1>8 DEF t, o

\* The first turn that ends a loop
LEMMA FirstTurn ==
  ASSUME NEW N \in Nat, NEW S \in SUBSET (1..N), S # {}
  PROVE  \E n \in S : \A k \in 1..n - 1 : k \notin S
<1>1. S \in SUBSET Nat
  OBVIOUS
<1>2. PICK n \in S : \A k \in S : n <= k
  BY <1>1, LeastTurn
<1>3. \A k \in 1..n - 1 : ~(n <= k)
  OBVIOUS
<1> QED BY <1>2, <1>3

\* A buffer that holds h and more, and the size of the next step
Steps == MinStep \in Nat \ {0}
Longer(h) == {t \in [sb : Buffer, step : Nat \ {0}] : \E x : IsText(x) /\ Stores(t.sb, h \o x)}
NextTurn(t) == [sb |-> sb_addmem(t.sb, [i \in 1..t.step |-> GARBAGE]),
                step |-> IF t.step < MinStep THEN MinStep ELSE 2 * t.step]

LEMMA LongerStep ==
  ASSUME SmallSize, Steps, NEW h, IsText(h), NEW t \in Longer(h)
  PROVE  /\ NextTurn(t) \in Longer(h)
         /\ NextTurn(t).sb.len >= t.sb.len + 1 /\ t.sb.len \in Nat
<1>1. PICK x : IsText(x) /\ Stores(t.sb, h \o x)
  BY DEF Longer
<1>2. t.step \in Nat \ {0} /\ t.sb \in Buffer
  BY DEF Longer
<1> DEFINE junk == [i \in 1..t.step |-> GARBAGE]
           u == NextTurn(t)
<1>3. IsText(junk) /\ Len(junk) = t.step
  BY <1>2, MakeText, InAlphabet
<1> HIDE DEF junk
<1>4. Stores(sb_addmem(t.sb, junk), (h \o x) \o junk)
  BY <1>1, <1>3, MemAdded
<1>5. (h \o x) \o junk = h \o (x \o junk) /\ IsText(x \o junk)
  BY <1>1, <1>3, ConcatAssociative, JoinText DEF IsText
<1>6. u.sb = sb_addmem(t.sb, junk) /\ u.step = (IF t.step < MinStep THEN MinStep ELSE 2 * t.step)
      /\ u = [sb |-> u.sb, step |-> u.step]
  BY DEF NextTurn, junk
<1>7. u.step \in Nat \ {0}
  BY <1>2, <1>6 DEF Steps
<1>8. u.sb \in Buffer /\ Stores(u.sb, h \o (x \o junk))
  BY <1>4, <1>5, <1>6 DEF Stores
<1>9. Len(h \o x) \in Nat /\ t.sb.len = Len(h \o x) /\ IsText(h \o x)
  BY <1>1, HoldsFacts
<1>10. u.sb.len = Len(h \o x) + t.step
  <2>1. Len((h \o x) \o junk) = Len(h \o x) + t.step
    BY <1>3, <1>9, JoinText
  <2> QED BY <1>4, <1>6, <2>1 DEF Stores
<1> HIDE DEF u
<1>11. u \in [sb : Buffer, step : Nat \ {0}]
  BY <1>6, <1>7, <1>8
<1>12. u \in Longer(h)
  BY <1>5, <1>8, <1>11 DEF Longer
<1> QED BY <1>2, <1>9, <1>10, <1>12 DEF u

\* The loop exists and each turn makes the buffer longer
LEMMA TurnsFacts ==
  ASSUME SmallSize, Steps, NEW s, NEW h, Stores(s, h)
  PROVE  \A n \in Nat : Turns(s)[n] \in Longer(h) /\ Turns(s)[n].sb.len >= Len(h) + n
<1> DEFINE first == internal_sb_size(s) - 1 - s.len
           a == [sb |-> s, step |-> IF first = 0 THEN MinStep ELSE first]
           X == Longer(h)
           Turn == [p \in Nat \X X |-> NextTurn(p[2])]
           Is(g) == g = [n \in Nat |-> IF n = 0 THEN a ELSE NextTurn(g[n - 1])]
<1>1. IsText(h) /\ Len(h) \in Nat /\ s.len = Len(h) /\ s.len < Len(s.buf) /\ Len(s.buf) \in Nat /\ s \in Buffer
  BY HoldsFacts DEF Stores
<1>2. a \in X
  <2>1. first \in Nat
    BY <1>1 DEF internal_sb_size
  <2> HIDE DEF first
  <2>2. a \in [sb : Buffer, step : Nat \ {0}] /\ a.sb = s
    BY <1>1, <2>1 DEF Steps
  <2>3. IsText(<<>>) /\ h \o <<>> = h
    BY <1>1, EmptySeq, ConcatEmptySeq DEF IsText
  <2>4. \E x : IsText(x) /\ Stores(a.sb, h \o x)
    <3>1. Stores(a.sb, h \o <<>>)
      BY <2>2, <2>3
    <3> HIDE DEF a
    <3> QED BY <2>3, <3>1
  <2> HIDE DEF a
  <2> QED BY <2>2, <2>4 DEF Longer
<1>3. a.sb = s
  OBVIOUS
<1>4. \A t \in X : NextTurn(t) \in X /\ NextTurn(t).sb.len >= t.sb.len + 1 /\ t.sb.len \in Nat
  BY <1>1, LongerStep
<1> HIDE DEF a, X
<1>5. Turn \in Bodies(Nat, X)
  BY <1>4 DEF Bodies
<1>6. \A n \in Nat, t \in X : Turn[<<n, t>>] = NextTurn(t)
  OBVIOUS
<1> HIDE DEF Turn
<1>7. PICK g : IsLoop(g, Nat, X, a, Turn)
  BY <1>2, <1>5, LoopExists
<1>8. g[0] = a /\ \A n \in Nat : g[n] \in X /\ g[n + 1] = NextTurn(g[n])
  BY <1>6, <1>7 DEF IsLoop
<1> DEFINE f == [n \in Nat |-> g[n]]
<1>9. Is(f)
  <2>1. ASSUME NEW n \in Nat PROVE f[n] = IF n = 0 THEN a ELSE NextTurn(f[n - 1])
    <3>1. n = 0 \/ (n - 1 \in Nat /\ (n - 1) + 1 = n)
      OBVIOUS
    <3> QED BY <1>8, <3>1
  <2>2. f = [n \in Nat |-> f[n]]
    OBVIOUS
  <2> HIDE DEF f
  <2> QED BY <2>1, <2>2
<1>10. Turns(s) = CHOOSE turn : Is(turn)
  BY Zenon DEF Turns, NextTurn, a
<1> HIDE DEF f
<1>11. Is(Turns(s))
  <2> HIDE DEF Is
  <2> QED BY <1>9, <1>10
<1> DEFINE r == Turns(s)
<1> HIDE DEF r
<1>12. \A n \in Nat : r[n] = IF n = 0 THEN a ELSE NextTurn(r[n - 1])
  BY <1>11 DEF r
<1> DEFINE T == {n \in Nat : r[n] \in X /\ r[n].sb.len >= Len(h) + n}
<1>13. Nat \subseteq T
  <2>1. 0 \in T
    <3>1. r[0] = a
      BY <1>12
    <3> QED BY <1>1, <1>2, <1>3, <3>1
  <2>2. ASSUME NEW n \in Nat, n \in T PROVE n + 1 \in T
    <3>1. n + 1 # 0 /\ (n + 1) - 1 = n /\ n + 1 \in Nat
      OBVIOUS
    <3>2. r[n + 1] = NextTurn(r[n])
      BY <1>12, <3>1
    <3>3. r[n] \in X /\ r[n].sb.len >= Len(h) + n
      BY <2>2
    <3>4. NextTurn(r[n]) \in X /\ NextTurn(r[n]).sb.len >= r[n].sb.len + 1 /\ r[n].sb.len \in Nat
      BY <1>4, <3>3
    <3>5. NextTurn(r[n]).sb.len \in Nat
      BY <1>4, <3>4
    <3>6. NextTurn(r[n]).sb.len >= Len(h) + (n + 1)
      BY <1>1, <3>3, <3>4, <3>5
    <3> QED BY <3>2, <3>4, <3>6
  <2> HIDE DEF T
  <2> QED BY <2>1, <2>2, Induction
<1> QED BY <1>13 DEF r, X

LEMMA TimeText ==
  ASSUME NEW str, IsText(str), NEW n
  PROVE  /\ IsText(TextOf(str, n)) /\ Len(TextOf(str, n)) \in Len(str)..Len(str) + 1
         /\ \A i \in 1..Len(str) : TextOf(str, n)[i] = str[i]
         /\ n # 1 => TextOf(str, n) # <<>>
<1>1. Len(str) \in Nat
  BY IsTextFacts
<1>2. CASE n = 1
  BY <1>1, <1>2 DEF TextOf
<1>3. CASE n # 1
  <2>1. /\ Append(str, SPACE) \in Seq(Alphabet) /\ Len(Append(str, SPACE)) = Len(str) + 1
        /\ \A i \in 1..Len(str) : Append(str, SPACE)[i] = str[i]
        /\ Append(str, SPACE) # <<>>
    BY <1>1, InAlphabet, AppendProperties DEF IsText
  <2> QED BY <1>1, <1>3, <2>1 DEF TextOf, IsText
<1> QED BY <1>2, <1>3

LEMMA TimeAdded ==
  ASSUME SmallSize, Steps, NEW s, NEW h, Stores(s, h), NEW str, IsText(str)
  PROVE  Stores(sb_strftime(s, str), h \o str)
<1>1. s.len = Len(h) /\ Len(h) \in Nat /\ IsText(h) /\ Len(str) \in Nat
  BY HoldsFacts, IsTextFacts
<1> DEFINE P(n) == TextFits(s, str, n) /\ \A k \in 1..n - 1 : ~TextFits(s, str, k)
           last == CHOOSE n \in 1..Len(str) + 2 : P(n)
           text == TextOf(str, last)
           app == Append(text, NUL)
           r == Turns(s)[last].sb
<1>2. sb_strftime(s, str) = sb_setlen(Put(r, s.len, app), s.len + Len(str))
  BY Zenon DEF sb_strftime
<1>3. last \in 1..Len(str) + 2 /\ TextFits(s, str, last)
  <2> DEFINE S == {n \in 1..Len(str) + 2 : TextFits(s, str, n)}
             N == Len(str) + 2
  <2>1. N \in Nat /\ N \in 1..N /\ N # 1
    BY <1>1
  <2>2. TextFits(s, str, N)
    <3>1. Turns(s)[N] \in Longer(h) /\ Turns(s)[N].sb.len >= Len(h) + N
      BY <2>1, TurnsFacts
    <3>2. Turns(s)[N].sb.len \in Nat
      BY <1>1, <3>1, LongerStep
    <3>3. TextOf(str, N) # <<>> /\ Len(TextOf(str, N)) \in Len(str)..Len(str) + 1
      BY <2>1, TimeText
    <3>4. Len(TextOf(str, N)) < Turns(s)[N].sb.len - s.len
      BY <1>1, <3>1, <3>2, <3>3
    <3> QED BY <3>3, <3>4 DEF TextFits
  <2>3. PICK n \in S : \A k \in 1..n - 1 : k \notin S
    <3>1. S \in SUBSET (1..N) /\ S # {}
      BY <2>1, <2>2
    <3> HIDE DEF S, N
    <3> QED BY <2>1, <3>1, FirstTurn
  <2>4. n \in 1..N /\ P(n)
    <3>1. \A k \in 1..n - 1 : k \in 1..N
      BY <1>1
    <3> QED BY <2>3, <3>1
  <2> HIDE DEF P
  <2>5. last \in 1..N /\ P(last)
    BY <2>4
  <2> QED BY <2>5 DEF P
<1> HIDE DEF last
<1>4. PICK x : IsText(x) /\ Stores(r, h \o x)
  <2>1. last \in Nat
    BY <1>3
  <2>2. Turns(s)[last] \in Longer(h)
    BY <2>1, TurnsFacts
  <2> QED BY <2>2 DEF Longer
<1>5. /\ IsText(text) /\ Len(text) \in Len(str)..Len(str) + 1
      /\ \A i \in 1..Len(str) : text[i] = str[i]
  BY TimeText
<1>6. Len(text) < r.len - Len(h)
  BY <1>1, <1>3 DEF TextFits
<1> DEFINE g == h \o x
           o == Over(g, Len(h), app)
           n == Len(h) + Len(str)
<1>7. /\ IsText(g) /\ Len(g) = Len(h) + Len(x) /\ Len(x) \in Nat
      /\ \A i \in 1..Len(h) + Len(x) : g[i] = IF i <= Len(h) THEN h[i] ELSE x[i - Len(h)]
  BY <1>1, <1>4, JoinText, IsTextFacts
<1> HIDE DEF text, r
<1>8. /\ IsText(app) /\ Len(app) = Len(text) + 1
      /\ \A i \in 1..Len(text) : app[i] = text[i]
  BY <1>5, InAlphabet, AppendProperties DEF IsText
<1> HIDE DEF app, g
<1>9. r.len = Len(g)
  BY <1>4 DEF Stores, g
<1>10. Len(h) + Len(app) <= Len(g) /\ n \in 0..Len(g)
  BY <1>1, <1>5, <1>6, <1>7, <1>8, <1>9
<1>11. Stores(Put(r, Len(h), app), o)
  BY <1>1, <1>4, <1>8, <1>10, Overwritten DEF g
<1>12. IsOver(o, g, Len(h), app)
  BY <1>1, <1>7, <1>8, OverFacts
<1> HIDE DEF o
<1>13. /\ IsText(o) /\ Len(o) = Len(g)
       /\ \A i \in 1..Len(g) : o[i] = IF i - Len(h) \in 1..Len(app) THEN app[i - Len(h)] ELSE g[i]
  BY <1>12 DEF IsOver
<1>14. Stores(sb_setlen(Put(r, Len(h), app), n), SubSeq(o, 1, n))
  <2>1. n \in 0..Len(o)
    BY <1>10, <1>13
  <2> QED BY <1>11, <2>1, Shortened
<1>15. SubSeq(o, 1, n) = h \o str
  <2>1. IsText(h \o str) /\ Len(h \o str) = n
        /\ \A i \in 1..n : (h \o str)[i] = IF i <= Len(h) THEN h[i] ELSE str[i - Len(h)]
    BY <1>1, JoinText
  <2>2. IsText(SubSeq(o, 1, n)) /\ Len(SubSeq(o, 1, n)) = n /\ \A i \in 1..n : SubSeq(o, 1, n)[i] = o[i]
    <3>1. n \in 0..Len(o)
      BY <1>10, <1>13
    <3> QED BY <1>13, <3>1, CutText
  <2>3. ASSUME NEW i \in 1..n PROVE o[i] = (h \o str)[i]
    <3>1. i \in 1..Len(g) /\ i \in 1..Len(h) + Len(x)
      BY <1>1, <1>7, <1>10
    <3>2. CASE i <= Len(h)
      <4>1. ~(i - Len(h) \in 1..Len(app))
        BY <1>1, <3>2
      <4>2. o[i] = g[i] /\ g[i] = h[i]
        BY <1>7, <1>13, <3>1, <3>2, <4>1
      <4> QED BY <2>1, <3>2, <4>2
    <3>3. CASE ~(i <= Len(h))
      <4>1. i - Len(h) \in 1..Len(app) /\ i - Len(h) \in 1..Len(text) /\ i - Len(h) \in 1..Len(str)
        BY <1>1, <1>5, <1>8, <3>3
      <4>2. o[i] = app[i - Len(h)]
        BY <1>13, <3>1, <4>1
      <4>3. app[i - Len(h)] = str[i - Len(h)]
        BY <1>5, <1>8, <4>1
      <4> QED BY <2>1, <3>3, <4>2, <4>3
    <3> QED BY <3>2, <3>3
  <2> HIDE DEF n
  <2>4. \A i \in 1..n : SubSeq(o, 1, n)[i] = (h \o str)[i]
    BY <2>2, <2>3
  <2> QED BY <2>1, <2>2, <2>4, SameText
<1> QED BY <1>1, <1>2, <1>14, <1>15

-----------------------------------------------------------------------------
BufInv == Stores(sb, held)

LEMMA HoldsKept == ASSUME BufInv PROVE BufferKept
  BY CharsHeld DEF BufInv, BufferKept, Stores, internal_sb_size

LEMMA BufStep ==
  ASSUME StrBufAssumptions, BufInv, [BufNext]_buf_vars
  PROVE  BufInv'
<1>1. SmallSize /\ Steps /\ \A str \in Added : IsText(str)
  BY DEF StrBufAssumptions, SmallSize, Steps, IsText
<1>2. Stores(sb, held) /\ IsText(held) /\ sb.len = Len(held) /\ Len(held) \in Nat
  BY HoldsFacts DEF BufInv
<1>3. Stores(Small(<<>>), <<>>)
  <2>1. IsText(<<>>) /\ Len(<<>>) = 0
    BY EmptySeq DEF IsText
  <2> QED BY <1>1, <2>1, SmallHolds DEF SmallSize
<1>4. ASSUME NEW str \in Added, add(str) PROVE BufInv'
  BY <1>1, <1>2, <1>4, MemAdded DEF add, Becomes, BufInv
<1>5. ASSUME NEW str \in Added, init(str) PROVE BufInv'
  BY <1>1, <1>5, Initialised DEF init, Becomes, BufInv
<1>6. ASSUME NEW str \in Added, ftime(str) PROVE BufInv'
  BY <1>1, <1>2, <1>6, TimeAdded DEF ftime, Becomes, BufInv
<1>7. ASSUME NEW n \in 0..MaxLen, addnc("a", n) PROVE BufInv'
  <2>1. n \in Nat /\ "a" \in Alphabet
    BY InAlphabet
  <2> DEFINE str == [i \in 1..n |-> "a"]
  <2>2. IsText(str)
    BY <2>1, MakeText
  <2>3. add(str)
    BY <1>7 DEF addnc
  <2> HIDE DEF str
  <2> QED BY <1>1, <1>2, <2>2, <2>3, MemAdded DEF add, Becomes, BufInv
<1>8. ASSUME NEW n \in 0..MaxLen, setlen(n) PROVE BufInv'
  <2>1. n \in 0..Len(held)
    BY <1>2, <1>8 DEF setlen
  <2> QED BY <1>2, <1>8, <2>1, Shortened DEF setlen, Becomes, BufInv
<1>9. CASE vprintf_self
  <2> DEFINE S == {i \in 1..sb.len : sb.buf[i] = NUL} \cup {sb.len + 1}
             fmt == SubSeq(Chars(sb), 1, Min(S) - 1)
  <2>1. Becomes(sb_addmem(sb, fmt), held \o fmt)
    BY <1>9 DEF vprintf_self
  <2>2. Min(S) \in S
    <3>1. S \in SUBSET Nat /\ S # {}
      BY <1>2
    <3> HIDE DEF S
    <3>2. \E m \in S : \A k \in S : m <= k
      BY <3>1, LeastTurn
    <3> QED BY <3>2 DEF Min
  <2>3. Min(S) - 1 \in 0..Len(held)
    BY <1>2, <2>2
  <2>4. IsText(fmt)
    <3> HIDE DEF S
    <3> QED BY <1>2, <2>3, CharsHeld, CutText
  <2> HIDE DEF fmt
  <2> QED BY <1>1, <1>2, <2>1, <2>4, MemAdded DEF Becomes, BufInv
<1>10. CASE trim
  BY <1>1, <1>2, <1>10, Trimmed DEF trim, Becomes, BufInv
<1>11. CASE free
  BY <1>3, <1>11 DEF free, Becomes, BufInv
<1>12. CASE UNCHANGED buf_vars
  BY <1>12 DEF buf_vars, BufInv
<1> QED BY <1>4, <1>5, <1>6, <1>7, <1>8, <1>9, <1>10, <1>11, <1>12 DEF BufNext

\* Whatever is put into a string buffer, in any order of calls, it holds the
\* characters given, with a nul after them, inside what is allocated
\* (strbuf.c:28-206)
THEOREM StrBufSafety == StrBufAssumptions => (BufSpec => []BufferKept)
<1> SUFFICES ASSUME StrBufAssumptions PROVE BufSpec => []BufferKept
  OBVIOUS
<1>1. BufInit => BufInv
  <2>1. IsText(<<>>) /\ Len(<<>>) = 0
    BY EmptySeq DEF IsText
  <2> QED BY <2>1, SmallHolds DEF StrBufAssumptions, SmallSize, BufInit, BufInv
<1>2. BufInv /\ [BufNext]_buf_vars => BufInv'
  BY BufStep
<1>3. BufInv => BufferKept
  BY HoldsKept
<1> QED BY <1>1, <1>2, <1>3, PTL DEF BufSpec

(***************************************************************************)
(* The objects that C code holds (alloc.c), for any C variables, static    *)
(* roots, dynpros and sizes.  The invariant: each holder owns one block    *)
(* that is not free, what a function has its locals in is the function's   *)
(* alone, each free list is an order of the free blocks of its size, and   *)
(* the dynpros in use are a ring.  A collection is a sequence of three     *)
(* loops over what is held; each moves what was not moved, and what has    *)
(* been moved once is the same afterwards.                                 *)
(***************************************************************************)
(***************************************************************************)
(* Blocks and who holds them                                               *)
(***************************************************************************)
Holders == {Var(v) : v \in CVars} \cup {Dyn(d) : d \in Nodes} \cup {Local(i) : i \in Nat}
Blocks == [len : Nat, free : BOOLEAN, next : Nat, who : SUBSET Holders]
IsHeap(h) == h \in Seq(Blocks)

LEMMA HolderFacts ==
  /\ \A v \in CVars : Var(v) \in Holders
  /\ \A d \in Nodes : Dyn(d) \in Holders
  /\ \A i \in Nat : Local(i) \in Holders
  /\ \A v, w : Var(v) = Var(w) => v = w
  /\ \A v, w : Dyn(v) = Dyn(w) => v = w
  /\ \A v, w : Local(v) = Local(w) => v = w
  /\ \A v, w : Var(v) # Dyn(w) /\ Var(v) # Local(w) /\ Dyn(v) # Local(w)
<1>1. \A v \in CVars : Var(v) \in Holders
  BY DEF Holders
<1>2. \A d \in Nodes : Dyn(d) \in Holders
  BY DEF Holders
<1>3. \A i \in Nat : Local(i) \in Holders
  BY DEF Holders
<1>4. /\ \A v, w : Var(v) = Var(w) => v = w
      /\ \A v, w : Dyn(v) = Dyn(w) => v = w
      /\ \A v, w : Local(v) = Local(w) => v = w
      /\ \A v, w : Var(v) # Dyn(w) /\ Var(v) # Local(w) /\ Dyn(v) # Local(w)
  BY DEF Var, Dyn, Local
<1> QED BY <1>1, <1>2, <1>3, <1>4

LEMMA HeapFacts ==
  ASSUME NEW h, IsHeap(h)
  PROVE  /\ Len(h) \in Nat /\ DOMAIN h = 1..Len(h) /\ h = [p \in 1..Len(h) |-> h[p]]
         /\ \A p \in 1..Len(h) : h[p] \in Blocks /\ h[p].len \in Nat /\ h[p].free \in BOOLEAN
                                 /\ h[p].next \in Nat /\ h[p].who \in SUBSET Holders
<1>1. Len(h) \in Nat /\ DOMAIN h = 1..Len(h) /\ h = [p \in 1..Len(h) |-> h[p]]
  BY LenProperties DEF IsHeap
<1>2. \A p \in 1..Len(h) : h[p] \in Blocks
  BY <1>1 DEF IsHeap
<1>3. \A b \in Blocks : b.len \in Nat /\ b.free \in BOOLEAN /\ b.next \in Nat /\ b.who \in SUBSET Holders
  BY DEF Blocks
<1> QED BY <1>1, <1>2, <1>3

LEMMA MakeHeap ==
  ASSUME NEW n \in Nat, NEW h, h = [p \in 1..n |-> h[p]], \A p \in 1..n : h[p] \in Blocks
  PROVE  IsHeap(h) /\ Len(h) = n
<1>1. h \in [1..n -> Blocks]
  OBVIOUS
<1> QED BY <1>1 DEF IsHeap

\* In the heap h, the holder r holds the object at p, and nothing if it is 0
Owns(h, r, p) == /\ \A q \in 1..Len(h) : r \in h[q].who <=> q = p
                 /\ p # 0 => p \in 1..Len(h) /\ ~h[p].free

\* A heap where the blocks are as before, but for who holds them
SameBlocks(g, h) ==
  /\ Len(g) = Len(h)
  /\ \A p \in 1..Len(h) : g[p].len = h[p].len /\ g[p].free = h[p].free /\ g[p].next = h[p].next

\* A vector of locals, in one of the places vecs, is its function's alone
VectorsApart(h, vecs) == \A p \in 1..Len(h) : \A i \in vecs : Local(i) \in h[p].who => h[p].who = {Local(i)}

LEMMA HoldsOwns ==
  ASSUME IsHeap(heap), NEW r, NEW p \in Nat
  PROVE  Holds(r, p) <=> Owns(heap, r, p)
<1>1. DOMAIN heap = 1..Len(heap) /\ Len(heap) \in Nat
  BY HeapFacts
<1>2. ASSUME Holds(r, p) PROVE Owns(heap, r, p)
  BY <1>1, <1>2 DEF Holds, Owns
<1>3. ASSUME Owns(heap, r, p) PROVE Holds(r, p)
  BY <1>1, <1>3 DEF Holds, Owns
<1> QED BY <1>2, <1>3

HeldBy(c, b, W) == c \in Blocks /\ c.who = W /\ c.len = b.len /\ c.free = b.free /\ c.next = b.next
LEMMA OtherHolders ==
  ASSUME NEW b \in Blocks, NEW W \in SUBSET Holders, NEW c, c = [b EXCEPT !.who = W]
  PROVE  HeldBy(c, b, W)
  BY DEF Blocks, HeldBy

LEMMA UnheldFacts ==
  ASSUME NEW h, IsHeap(h), NEW R
  PROVE  /\ IsHeap(Unheld(h, R)) /\ SameBlocks(Unheld(h, R), h)
         /\ \A p \in 1..Len(h) : Unheld(h, R)[p].who = h[p].who \ R
<1> DEFINE g == Unheld(h, R)
<1>1. Len(h) \in Nat /\ DOMAIN h = 1..Len(h) /\ \A p \in 1..Len(h) : h[p] \in Blocks
  BY HeapFacts
<1>2. g = [p \in 1..Len(h) |-> [h[p] EXCEPT !.who = @ \ R]]
  BY <1>1 DEF Unheld
<1>3. \A p \in 1..Len(h) : g[p] = [h[p] EXCEPT !.who = @ \ R]
  BY <1>2
<1>4. \A p \in 1..Len(h) : /\ g[p] \in Blocks /\ g[p].who = h[p].who \ R
                           /\ g[p].len = h[p].len /\ g[p].free = h[p].free /\ g[p].next = h[p].next
  <2> TAKE p \in 1..Len(h)
  <2>1. h[p].who \ R \in SUBSET Holders
    BY HeapFacts
  <2>2. g[p] = [h[p] EXCEPT !.who = h[p].who \ R]
    BY <1>3
  <2> HIDE DEF g
  <2>3. HeldBy(g[p], h[p], h[p].who \ R)
    BY <1>1, <2>1, <2>2, OtherHolders
  <2> QED BY <2>3 DEF HeldBy
<1>5. g = [p \in 1..Len(h) |-> g[p]]
  BY <1>2
<1> HIDE DEF g
<1>6. IsHeap(g) /\ Len(g) = Len(h)
  BY <1>1, <1>4, <1>5, MakeHeap
<1>7. IsHeap(g) /\ SameBlocks(g, h) /\ \A p \in 1..Len(h) : g[p].who = h[p].who \ R
  BY <1>4, <1>6 DEF SameBlocks
<1> QED BY <1>7 DEF g

LEMMA HeldAtFacts ==
  ASSUME NEW h, IsHeap(h), NEW p, NEW r \in Holders
  PROVE  /\ IsHeap(HeldAt(h, p, r)) /\ SameBlocks(HeldAt(h, p, r), h)
         /\ \A q \in 1..Len(h) : r \in HeldAt(h, p, r)[q].who <=> q = p
         /\ \A q \in 1..Len(h) : \A s : s # r => (s \in HeldAt(h, p, r)[q].who <=> s \in h[q].who)
<1> DEFINE g == HeldAt(h, p, r)
           W(q) == IF q = p THEN h[q].who \cup {r} ELSE h[q].who \ {r}
<1>1. Len(h) \in Nat /\ DOMAIN h = 1..Len(h) /\ \A q \in 1..Len(h) : h[q] \in Blocks
  BY HeapFacts
<1>2. g = [q \in 1..Len(h) |-> [h[q] EXCEPT !.who = IF q = p THEN @ \cup {r} ELSE @ \ {r}]]
  BY <1>1 DEF HeldAt
<1>3. \A q \in 1..Len(h) : g[q] = [h[q] EXCEPT !.who = W(q)]
  BY <1>2
<1>5. g = [q \in 1..Len(h) |-> g[q]]
  BY <1>2
<1> HIDE DEF g
<1>4. \A q \in 1..Len(h) : /\ g[q] \in Blocks /\ g[q].who = W(q)
                           /\ g[q].len = h[q].len /\ g[q].free = h[q].free /\ g[q].next = h[q].next
  <2> TAKE q \in 1..Len(h)
  <2>1. W(q) \in SUBSET Holders
    BY HeapFacts
  <2>2. HeldBy(g[q], h[q], W(q))
    <3> HIDE DEF W
    <3> QED BY <1>1, <1>3, <2>1, OtherHolders
  <2> HIDE DEF W
  <2> QED BY <2>2 DEF HeldBy
<1>6. IsHeap(g) /\ Len(g) = Len(h)
  <2> HIDE DEF W
  <2> QED BY <1>1, <1>4, <1>5, MakeHeap
<1>7. SameBlocks(g, h)
  BY <1>4, <1>6 DEF SameBlocks
<1>8. \A q \in 1..Len(h) : r \in g[q].who <=> q = p
  BY <1>4
<1>9. \A q \in 1..Len(h) : \A s : s # r => (s \in g[q].who <=> s \in h[q].who)
  BY <1>4
<1> QED BY <1>6, <1>7, <1>8, <1>9 DEF g

LEMMA BlockFacts ==
  ASSUME NEW n \in Nat, NEW r \in Holders
  PROVE  /\ Block(n, r) \in Blocks /\ Block(n, r).len = n /\ Block(n, r).free = FALSE
         /\ Block(n, r).who = {r}
  BY DEF Block, Blocks

LEMMA AppendFacts ==
  ASSUME NEW h, IsHeap(h), NEW b \in Blocks
  PROVE  /\ IsHeap(Append(h, b)) /\ Len(Append(h, b)) = Len(h) + 1
         /\ \A q \in 1..Len(h) : Append(h, b)[q] = h[q]
         /\ Append(h, b)[Len(h) + 1] = b
  BY HeapFacts, AppendProperties DEF IsHeap

(***************************************************************************)
(* What the changes of the heap do to those who hold blocks                *)
(***************************************************************************)
LEMMA SameOwns ==
  ASSUME NEW h, IsHeap(h), NEW g, IsHeap(g), SameBlocks(g, h), NEW r, NEW p, Owns(h, r, p),
         \A q \in 1..Len(h) : r \in g[q].who <=> r \in h[q].who
  PROVE  Owns(g, r, p)
  BY DEF Owns, SameBlocks

LEMMA UnheldOwns ==
  ASSUME NEW h, IsHeap(h), NEW R, NEW vecs
  PROVE  /\ \A r \in R : Owns(Unheld(h, R), r, 0)
         /\ \A r, p : r \notin R /\ Owns(h, r, p) => Owns(Unheld(h, R), r, p)
         /\ VectorsApart(h, vecs) => VectorsApart(Unheld(h, R), vecs)
<1> DEFINE g == Unheld(h, R)
<1>1. /\ IsHeap(g) /\ SameBlocks(g, h)
      /\ \A p \in 1..Len(h) : g[p].who = h[p].who \ R
  BY UnheldFacts
<1> HIDE DEF g
<1>2. Len(g) = Len(h) /\ Len(h) \in Nat
  BY <1>1, HeapFacts DEF SameBlocks
<1>3. \A r \in R : Owns(g, r, 0)
  BY <1>1, <1>2 DEF Owns
<1>4. \A r, p : r \notin R /\ Owns(h, r, p) => Owns(g, r, p)
  BY <1>1, SameOwns
<1>5. VectorsApart(h, vecs) => VectorsApart(g, vecs)
  BY <1>1, <1>2 DEF VectorsApart
<1> QED BY <1>3, <1>4, <1>5 DEF g

LEMMA HeldAtOwns ==
  ASSUME NEW h, IsHeap(h), NEW r \in Holders, NEW p \in 0..Len(h), p # 0 => ~h[p].free, NEW vecs
  PROVE  /\ Owns(HeldAt(h, p, r), r, p)
         /\ \A s, q : s # r /\ Owns(h, s, q) => Owns(HeldAt(h, p, r), s, q)
         /\ VectorsApart(h, vecs) /\ (\A i \in vecs : r # Local(i))
            /\ (p # 0 => \A i \in vecs : Local(i) \notin h[p].who) => VectorsApart(HeldAt(h, p, r), vecs)
<1> DEFINE g == HeldAt(h, p, r)
<1>1. /\ IsHeap(g) /\ SameBlocks(g, h)
      /\ \A q \in 1..Len(h) : r \in g[q].who <=> q = p
      /\ \A q \in 1..Len(h) : \A s : s # r => (s \in g[q].who <=> s \in h[q].who)
  BY HeldAtFacts
<1> HIDE DEF g
<1>2. Len(g) = Len(h) /\ Len(h) \in Nat
  BY <1>1, HeapFacts DEF SameBlocks
<1>3. Owns(g, r, p)
  <2>1. p # 0 => p \in 1..Len(h) /\ ~g[p].free
    BY <1>1, <1>2 DEF SameBlocks
  <2> QED BY <1>1, <1>2, <2>1 DEF Owns
<1>4. \A s, q : s # r /\ Owns(h, s, q) => Owns(g, s, q)
  <2> TAKE s, q
  <2> HAVE s # r /\ Owns(h, s, q)
  <2>1. \A k \in 1..Len(h) : s \in g[k].who <=> s \in h[k].who
    BY <1>1
  <2> QED BY <1>1, <2>1, SameOwns
<1>5. ASSUME VectorsApart(h, vecs), \A i \in vecs : r # Local(i), p # 0 => \A i \in vecs : Local(i) \notin h[p].who
      PROVE  VectorsApart(g, vecs)
  <2> SUFFICES ASSUME NEW q \in 1..Len(g), NEW i \in vecs, Local(i) \in g[q].who
               PROVE  g[q].who = {Local(i)}
    BY DEF VectorsApart
  <2>1. q \in 1..Len(h) /\ Local(i) \in h[q].who
    BY <1>1, <1>2, <1>5
  <2>2. h[q].who = {Local(i)}
    BY <1>5, <2>1 DEF VectorsApart
  <2>3. q # p
    BY <1>5, <2>1, <1>2
  <2>4. r \notin g[q].who
    BY <1>1, <2>1, <2>3
  <2> QED BY <1>1, <2>1, <2>2, <2>4
<1> QED BY <1>3, <1>4, <1>5 DEF g

LEMMA AppendOwns ==
  ASSUME NEW h, IsHeap(h), NEW n \in Nat, NEW r \in Holders, Owns(h, r, 0), NEW vecs
  PROVE  /\ Owns(Append(h, Block(n, r)), r, Len(h) + 1)
         /\ \A s, q : s # r /\ Owns(h, s, q) => Owns(Append(h, Block(n, r)), s, q)
         /\ VectorsApart(h, vecs) => VectorsApart(Append(h, Block(n, r)), vecs)
<1> DEFINE b == Block(n, r)
           g == Append(h, b)
<1>1. b \in Blocks /\ b.free = FALSE /\ b.who = {r}
  BY BlockFacts
<1> HIDE DEF b
<1>2. /\ Len(h) \in Nat /\ Len(g) = Len(h) + 1 /\ g[Len(h) + 1] = b
      /\ \A q \in 1..Len(h) : g[q] = h[q]
  BY <1>1, AppendFacts, HeapFacts
<1> HIDE DEF g
<1>3. \A q \in 1..Len(g) : q \in 1..Len(h) \/ q = Len(h) + 1
  BY <1>2
<1>4. Owns(g, r, Len(h) + 1)
  <2>1. \A q \in 1..Len(h) : r \notin h[q].who
    BY <1>2 DEF Owns
  <2> QED BY <1>1, <1>2, <1>3, <2>1 DEF Owns
<1>5. \A s, q : s # r /\ Owns(h, s, q) => Owns(g, s, q)
  <2> TAKE s, q
  <2> HAVE s # r /\ Owns(h, s, q)
  <2>1. q # 0 => q \in 1..Len(g) /\ q \in 1..Len(h) /\ ~g[q].free
    BY <1>2 DEF Owns
  <2>2. q # Len(h) + 1
    BY <1>2, <2>1
  <2>3. \A k \in 1..Len(g) : s \in g[k].who <=> k = q
    BY <1>1, <1>2, <1>3, <2>2 DEF Owns
  <2> QED BY <2>1, <2>3 DEF Owns
<1>6. VectorsApart(h, vecs) => VectorsApart(g, vecs)
  <2> HAVE VectorsApart(h, vecs)
  <2>1. ASSUME NEW p \in 1..Len(g), NEW i \in vecs, Local(i) \in g[p].who PROVE g[p].who = {Local(i)}
    BY <1>1, <1>2, <1>3, <2>1 DEF VectorsApart
  <2> QED BY <2>1 DEF VectorsApart
<1> QED BY <1>4, <1>5, <1>6 DEF g, b
(***************************************************************************)
(* Orders of finite sets, and the free lists                               *)
(***************************************************************************)
IsOrder(L, S) == L \in Seq(S) /\ Len(L) = Cardinality(S) /\ \A i, j \in 1..Len(L) : i # j => L[i] # L[j]

LEMMA OrderDef ==
  ASSUME NEW S, IsFiniteSet(S), NEW L
  PROVE  IsOrder(L, S) <=> L \in SetToSeqs(S)
<1> DEFINE c == Cardinality(S)
<1>1. c \in Nat
  BY FS_CardinalityType
<1> HIDE DEF c
<1>2. IsOrder(L, S) <=> L \in [1..c -> S] /\ \A i, j \in 1..c : i # j => L[i] # L[j]
  <2>1. ASSUME L \in Seq(S), Len(L) = c PROVE L \in [1..c -> S]
    BY <2>1, LenProperties
  <2>2. ASSUME L \in [1..c -> S] PROVE L \in Seq(S) /\ Len(L) = c
    BY <1>1, <2>2
  <2> QED BY <2>1, <2>2 DEF IsOrder, c
<1>3. SetToSeqs(S) = {f \in [1..c -> S] : \A i, j \in 1..c : i # j => f[i] # f[j]}
  BY DEF SetToSeqs, c
<1> QED BY <1>2, <1>3

LEMMA OrderFacts ==
  ASSUME NEW S, NEW L, IsOrder(L, S), IsFiniteSet(S)
  PROVE  /\ Len(L) \in Nat /\ Cardinality(S) \in Nat /\ Len(L) = Cardinality(S) /\ DOMAIN L = 1..Len(L)
         /\ \A i \in 1..Len(L) : L[i] \in S
         /\ \A i, j \in 1..Len(L) : i # j => L[i] # L[j]
         /\ L = <<>> <=> Len(L) = 0
         /\ L = <<>> <=> S = {}
<1>1. Len(L) = Cardinality(S) /\ Cardinality(S) \in Nat /\ (Cardinality(S) = 0 <=> S = {})
  BY FS_CardinalityType, FS_EmptySet DEF IsOrder
<1>2. DOMAIN L = 1..Len(L) /\ L \in Seq(S)
  BY LenProperties DEF IsOrder
<1>3. \A i \in 1..Len(L) : L[i] \in S
  BY <1>2
<1>4. L = <<>> <=> Len(L) = 0
  BY <1>2, EmptySeq
<1> QED BY <1>1, <1>2, <1>3, <1>4 DEF IsOrder

\* The elements of an order are all of the set
LEMMA OrderOnto ==
  ASSUME NEW S, NEW L, IsOrder(L, S), IsFiniteSet(S), NEW x \in S
  PROVE  \E i \in 1..Len(L) : L[i] = x
<1>1. /\ Len(L) \in Nat /\ Len(L) = Cardinality(S) /\ L \in [1..Len(L) -> S]
      /\ \A i, j \in 1..Len(L) : i # j => L[i] # L[j]
  BY OrderFacts, LenProperties DEF IsOrder
<1>2. L \in Injection(1..Len(L), S)
  BY <1>1 DEF Injection, IsInjective
<1>3. IsFiniteSet(1..Len(L)) /\ Cardinality(1..Len(L)) = Len(L)
  BY <1>1, FS_Interval
<1>4. L \in Surjection(1..Len(L), S)
  BY <1>1, <1>2, <1>3, FS_Injection
<1> QED BY <1>4 DEF Surjection

LEMMA FirstAdded ==
  ASSUME NEW S, IsFiniteSet(S), NEW L, IsOrder(L, S), NEW x, x \notin S
  PROVE  /\ IsOrder(<<x>> \o L, S \cup {x}) /\ Len(<<x>> \o L) = Len(L) + 1
         /\ (<<x>> \o L)[1] = x /\ \A i \in 1..Len(L) : (<<x>> \o L)[i + 1] = L[i]
<1> DEFINE T == S \cup {x}
           M == <<x>> \o L
<1>1. /\ Len(L) \in Nat /\ Len(L) = Cardinality(S) /\ \A i \in 1..Len(L) : L[i] \in S
      /\ \A i, j \in 1..Len(L) : i # j => L[i] # L[j]
  BY OrderFacts
<1>2. <<x>> \in Seq(T) /\ L \in Seq(T) /\ Len(<<x>>) = 1 /\ <<x>>[1] = x
  <2>1. L \in Seq(S)
    BY DEF IsOrder
  <2>2. Seq(S) \subseteq Seq(T)
    BY SeqDef
  <2> QED BY <2>1, <2>2
<1>3. M \in Seq(T) /\ Len(M) = Len(L) + 1 /\ M[1] = x /\ \A i \in 1..Len(L) : M[i + 1] = L[i]
  <2>1. M \in Seq(T) /\ Len(M) = 1 + Len(L)
    BY <1>2, ConcatProperties
  <2>2. M[1] = x
    BY <1>1, <1>2, ConcatProperties
  <2>3. \A i \in 1..Len(L) : M[i + 1] = L[i]
    <3> TAKE i \in 1..Len(L)
    <3>1. i + 1 \in 1..Len(<<x>>) + Len(L) /\ ~(i + 1 <= Len(<<x>>)) /\ (i + 1) - Len(<<x>>) = i
      BY <1>1, <1>2
    <3> HIDE DEF M
    <3>2. (<<x>> \o L)[i + 1] = L[(i + 1) - Len(<<x>>)]
      BY <1>2, <3>1, ConcatProperties
    <3> QED BY <3>1, <3>2 DEF M
  <2> HIDE DEF M
  <2> QED BY <1>1, <2>1, <2>2, <2>3
<1>4. Cardinality(T) = Cardinality(S) + 1
  BY FS_AddElement
<1> HIDE DEF M, T
<1>5. ASSUME NEW i \in 1..Len(M), NEW j \in 1..Len(M), i < j PROVE M[i] # M[j]
  <2>1. j - 1 \in 1..Len(L) /\ M[j] = L[j - 1]
    <3>1. j - 1 \in 1..Len(L) /\ (j - 1) + 1 = j
      BY <1>1, <1>3, <1>5
    <3> QED BY <1>3, <3>1
  <2>2. CASE i = 1
    BY <1>1, <1>3, <2>1, <2>2
  <2>3. CASE i # 1
    <3>1. i - 1 \in 1..Len(L) /\ (i - 1) + 1 = i /\ i - 1 # j - 1
      BY <1>1, <1>3, <1>5, <2>3
    <3>2. M[i] = L[i - 1]
      BY <1>3, <3>1
    <3> QED BY <1>1, <2>1, <3>1, <3>2
  <2> QED BY <2>2, <2>3
<1>6. \A i, j \in 1..Len(M) : i # j => M[i] # M[j]
  <2> TAKE i, j \in 1..Len(M)
  <2> HAVE i # j
  <2>1. Len(M) \in Nat
    BY <1>1, <1>3
  <2>2. i < j \/ j < i
    BY <2>1
  <2> QED BY <1>5, <2>2
<1>7. IsOrder(M, T)
  BY <1>1, <1>3, <1>4, <1>6 DEF IsOrder
<1> QED BY <1>3, <1>7 DEF M, T

LEMMA FirstTaken ==
  ASSUME NEW S, IsFiniteSet(S), NEW L, IsOrder(L, S), L # <<>>
  PROVE  /\ IsOrder(Tail(L), S \ {L[1]}) /\ Len(Tail(L)) = Len(L) - 1
         /\ \A i \in 1..Len(L) - 1 : Tail(L)[i] = L[i + 1]
<1> DEFINE T == S \ {L[1]}
           M == Tail(L)
<1>1. /\ Len(L) \in Nat \ {0} /\ Len(L) = Cardinality(S) /\ \A i \in 1..Len(L) : L[i] \in S
      /\ \A i, j \in 1..Len(L) : i # j => L[i] # L[j]
  BY OrderFacts
<1>2. M \in Seq(S) /\ Len(M) = Len(L) - 1 /\ \A i \in 1..Len(L) - 1 : M[i] = L[i + 1]
  BY HeadTailProperties DEF IsOrder
<1>3. L[1] \in S
  BY <1>1
<1>4. Cardinality(T) = Cardinality(S) - 1
  BY <1>3, FS_RemoveElement
<1>5. \A i \in 1..Len(M) : i + 1 \in 1..Len(L) /\ i + 1 # 1 /\ M[i] = L[i + 1]
  BY <1>1, <1>2
<1> HIDE DEF M
<1>6. \A i \in 1..Len(M) : M[i] \in T
  BY <1>1, <1>5
<1>7. M \in Seq(T)
  <2>1. M \in [1..Len(M) -> S] /\ Len(M) \in Nat
    BY <1>1, <1>2, LenProperties
  <2>2. M \in [1..Len(M) -> T]
    BY <1>6, <2>1
  <2> QED BY <2>1, <2>2
<1>8. \A i, j \in 1..Len(M) : i # j => M[i] # M[j]
  <2> TAKE i, j \in 1..Len(M)
  <2> HAVE i # j
  <2>1. i + 1 # j + 1
    BY <1>1, <1>2
  <2> QED BY <1>1, <1>5, <2>1
<1> HIDE DEF T
<1>9. IsOrder(M, T)
  BY <1>1, <1>2, <1>4, <1>7, <1>8 DEF IsOrder
<1> QED BY <1>2, <1>9 DEF M, T

FreeOf(h, n) == {p \in 1..Len(h) : h[p].free /\ h[p].len = n}
Chained(h, first, L) ==
  /\ first = IF L = <<>> THEN 0 ELSE L[1]
  /\ \A i \in 1..Len(L) : h[L[i]].next = IF i = Len(L) THEN 0 ELSE L[i + 1]
Listed(h, first, n) == \E L : IsOrder(L, FreeOf(h, n)) /\ Chained(h, first, L)
AllListed(h, lists) == \A n \in 0..FREE_SIZES - 1 : Listed(h, lists[n], n)

LEMMA FreeFinite == \A h, n : IsHeap(h) => IsFiniteSet(FreeOf(h, n))
<1> TAKE h, n
<1> HAVE IsHeap(h)
<1>1. Len(h) \in Nat /\ FreeOf(h, n) \in SUBSET (1..Len(h))
  BY HeapFacts DEF FreeOf
<1>2. IsFiniteSet(1..Len(h))
  BY <1>1, FS_Interval
<1> QED BY <1>1, <1>2, FS_Subset

LEMMA ListedDef ==
  ASSUME IsHeap(heap), NEW n
  PROVE  Listed(heap, free_lists[n], n) <=> \E L \in SetToSeqs(FreeBlocks(n)) : FreeList(n, L)
<1> DEFINE F == FreeOf(heap, n)
<1>1. F = FreeBlocks(n) /\ IsFiniteSet(F)
  <2>1. DOMAIN heap = 1..Len(heap)
    BY HeapFacts
  <2>2. IsFiniteSet(F)
    BY FreeFinite
  <2> QED BY <2>1, <2>2 DEF FreeOf, FreeBlocks
<1>2. \A L : IsOrder(L, F) => (Chained(heap, free_lists[n], L) <=> FreeList(n, L))
  <2> TAKE L
  <2> HAVE IsOrder(L, F)
  <2>1. DOMAIN L = 1..Len(L)
    BY <1>1, OrderFacts
  <2> QED BY <2>1 DEF Chained, FreeList
<1> HIDE DEF F
<1>3. \A L : IsOrder(L, F) <=> L \in SetToSeqs(F)
  BY <1>1, OrderDef
<1> QED BY <1>1, <1>2, <1>3 DEF Listed, F

\* A list is kept when its blocks stay as they are and no others are free
LEMMA ListKept ==
  ASSUME NEW h, IsHeap(h), NEW g, NEW n, NEW first, Listed(h, first, n),
         FreeOf(g, n) = FreeOf(h, n), \A p \in FreeOf(h, n) : g[p].next = h[p].next
  PROVE  Listed(g, first, n)
<1>1. PICK L : IsOrder(L, FreeOf(h, n)) /\ Chained(h, first, L)
  BY DEF Listed
<1>2. \A i \in 1..Len(L) : L[i] \in FreeOf(h, n)
  BY <1>1, FreeFinite, OrderFacts
<1>3. Chained(g, first, L)
  BY <1>1, <1>2 DEF Chained
<1> QED BY <1>1, <1>3 DEF Listed

LEMMA SameListed ==
  ASSUME NEW h, IsHeap(h), NEW g, SameBlocks(g, h), NEW lists, AllListed(h, lists)
  PROVE  AllListed(g, lists)
<1>1. \A n : FreeOf(g, n) = FreeOf(h, n)
  BY DEF FreeOf, SameBlocks
<1>2. \A n : \A p \in FreeOf(h, n) : g[p].next = h[p].next
  BY DEF FreeOf, SameBlocks
<1> QED BY <1>1, <1>2, ListKept DEF AllListed

LEMMA MoreListed ==
  ASSUME NEW h, IsHeap(h), NEW b \in Blocks, b.free = FALSE, NEW lists, AllListed(h, lists)
  PROVE  AllListed(Append(h, b), lists)
<1> DEFINE g == Append(h, b)
<1>1. /\ Len(h) \in Nat /\ Len(g) = Len(h) + 1 /\ g[Len(h) + 1] = b
      /\ \A q \in 1..Len(h) : g[q] = h[q]
  BY AppendFacts, HeapFacts
<1> HIDE DEF g
<1>2. \A q \in 1..Len(g) : q \in 1..Len(h) \/ q = Len(h) + 1
  BY <1>1
<1>3. \A n : FreeOf(g, n) = FreeOf(h, n)
  <2> TAKE n
  <2>1. ASSUME NEW p \in FreeOf(g, n) PROVE p \in FreeOf(h, n)
    BY <1>1, <1>2 DEF FreeOf
  <2>2. ASSUME NEW p \in FreeOf(h, n) PROVE p \in FreeOf(g, n)
    BY <1>1 DEF FreeOf
  <2> QED BY <2>1, <2>2
<1>4. \A n : \A p \in FreeOf(h, n) : g[p].next = h[p].next
  BY <1>1 DEF FreeOf
<1> QED BY <1>3, <1>4, ListKept DEF AllListed, g

\* The first block of a list is taken
LEMMA Popped ==
  ASSUME NEW h, IsHeap(h), NEW lists \in [0..FREE_SIZES - 1 -> Nat], AllListed(h, lists), FREE_SIZES \in Nat,
         NEW n \in 0..FREE_SIZES - 1, lists[n] # 0,
         NEW g, Len(g) = Len(h), g[lists[n]].free = FALSE,
         \A p \in 1..Len(h) : p # lists[n] => g[p] = h[p]
  PROVE  /\ lists[n] \in FreeOf(h, n)
         /\ AllListed(g, [lists EXCEPT ![n] = h[lists[n]].next])
<1> DEFINE f == lists[n]
           new == [lists EXCEPT ![n] = h[f].next]
<1>1. PICK L : IsOrder(L, FreeOf(h, n)) /\ Chained(h, f, L)
  BY DEF AllListed, Listed
<1>2. IsFiniteSet(FreeOf(h, n)) /\ IsHeap(h)
  BY FreeFinite
<1>3. /\ Len(L) \in Nat \ {0} /\ L # <<>> /\ f = L[1] /\ DOMAIN L = 1..Len(L)
      /\ \A i \in 1..Len(L) : L[i] \in FreeOf(h, n)
      /\ \A i, j \in 1..Len(L) : i # j => L[i] # L[j]
  BY <1>1, <1>2, OrderFacts DEF Chained
<1>4. f \in FreeOf(h, n) /\ f \in 1..Len(h) /\ h[f].len = n
  <2>1. f \in FreeOf(h, n)
    BY <1>3
  <2> QED BY <2>1 DEF FreeOf
<1> HIDE DEF f
<1>5. FreeOf(g, n) = FreeOf(h, n) \ {f}
  BY <1>4 DEF FreeOf, f
<1>6. \A m : m # n => FreeOf(g, m) = FreeOf(h, m)
  <2> TAKE m
  <2> HAVE m # n
  <2>1. ASSUME NEW p \in FreeOf(g, m) PROVE p \in FreeOf(h, m)
    BY <1>4 DEF FreeOf, f
  <2>2. ASSUME NEW p \in FreeOf(h, m) PROVE p \in FreeOf(g, m)
    BY <1>4 DEF FreeOf, f
  <2> QED BY <2>1, <2>2
<1>7. new[n] = h[f].next /\ \A m \in 0..FREE_SIZES - 1 : m # n => new[m] = lists[m]
  BY DEF f
<1> HIDE DEF new
<1>8. Listed(g, new[n], n)
  <2> DEFINE M == Tail(L)
  <2>1. /\ IsOrder(M, FreeOf(g, n)) /\ Len(M) = Len(L) - 1
        /\ \A i \in 1..Len(L) - 1 : M[i] = L[i + 1]
    BY <1>1, <1>2, <1>3, <1>5, FirstTaken
  <2>2. M = <<>> <=> Len(M) = 0
    <3>1. IsFiniteSet(FreeOf(g, n))
      <4>1. IsFiniteSet(FreeOf(h, n) \ {f})
        BY <1>2, FS_RemoveElement
      <4> QED BY <1>5, <4>1
    <3> HIDE DEF M
    <3> QED BY <2>1, <3>1, OrderFacts
  <2> HIDE DEF M
  <2>3. h[f].next = IF Len(L) = 1 THEN 0 ELSE L[2]
    <3>1. 1 \in 1..Len(L) /\ L[1] = f
      BY <1>3
    <3>2. h[L[1]].next = IF 1 = Len(L) THEN 0 ELSE L[1 + 1]
      BY <1>1, <3>1 DEF Chained
    <3> QED BY <3>1, <3>2
  <2>4. new[n] = IF M = <<>> THEN 0 ELSE M[1]
    BY <1>3, <1>7, <2>1, <2>2, <2>3
  <2>5. ASSUME NEW i \in 1..Len(M) PROVE g[M[i]].next = IF i = Len(M) THEN 0 ELSE M[i + 1]
    <3>1. i + 1 \in 1..Len(L) /\ i + 1 # 1 /\ 1 \in 1..Len(L) /\ M[i] = L[i + 1]
      BY <1>3, <2>1
    <3>2. L[i + 1] # f /\ L[i + 1] \in 1..Len(h)
      <4>1. L[i + 1] \in FreeOf(h, n)
        BY <1>3, <3>1
      <4> QED BY <1>3, <3>1, <4>1 DEF FreeOf
    <3>3. g[M[i]] = h[L[i + 1]]
      BY <3>1, <3>2 DEF f
    <3>4. h[L[i + 1]].next = IF i + 1 = Len(L) THEN 0 ELSE L[(i + 1) + 1]
      BY <1>1, <3>1 DEF Chained
    <3>5. CASE i = Len(M)
      BY <1>3, <2>1, <3>3, <3>4, <3>5
    <3>6. CASE i # Len(M)
      <4>1. i + 1 \in 1..Len(L) - 1 /\ i + 1 # Len(L)
        <5>1. Len(L) \in Nat /\ Len(M) = Len(L) - 1
          BY <1>3, <2>1
        <5> QED BY <3>6, <5>1
      <4>2. M[i + 1] = L[(i + 1) + 1]
        BY <2>1, <4>1
      <4> QED BY <3>3, <3>4, <3>6, <4>1, <4>2
    <3> QED BY <3>5, <3>6
  <2>6. Chained(g, new[n], M)
    BY <2>4, <2>5 DEF Chained
  <2> QED BY <2>1, <2>6 DEF Listed
<1>9. ASSUME NEW m \in 0..FREE_SIZES - 1, m # n PROVE Listed(g, new[m], m)
  <2>1. Listed(h, lists[m], m)
    BY DEF AllListed
  <2>2. \A p \in FreeOf(h, m) : g[p].next = h[p].next
    <3> TAKE p \in FreeOf(h, m)
    <3>1. p \in 1..Len(h) /\ p # f
      BY <1>4, <1>9 DEF FreeOf
    <3> QED BY <3>1 DEF f
  <2> QED BY <1>6, <1>7, <1>9, <2>1, <2>2, ListKept
<1>10. AllListed(g, new)
  BY <1>8, <1>9 DEF AllListed
<1> QED BY <1>4, <1>10 DEF f, new

\* A block is put in front of the list of its size
LEMMA Pushed ==
  ASSUME NEW h, IsHeap(h), NEW lists \in [0..FREE_SIZES - 1 -> Nat], AllListed(h, lists), FREE_SIZES \in Nat,
         NEW p \in 1..Len(h), ~h[p].free, h[p].len \in 0..FREE_SIZES - 1,
         NEW g, Len(g) = Len(h), g[p].free = TRUE, g[p].next = lists[h[p].len], g[p].len = h[p].len,
         \A q \in 1..Len(h) : q # p => g[q] = h[q]
  PROVE  AllListed(g, [lists EXCEPT ![h[p].len] = p])
<1> DEFINE n == h[p].len
           new == [lists EXCEPT ![n] = p]
<1>1. PICK L : IsOrder(L, FreeOf(h, n)) /\ Chained(h, lists[n], L)
  BY DEF AllListed, Listed
<1>2. IsFiniteSet(FreeOf(h, n)) /\ p \notin FreeOf(h, n)
  <2>1. p \notin FreeOf(h, n)
    BY DEF FreeOf
  <2> QED BY <2>1, FreeFinite
<1>3. /\ Len(L) \in Nat /\ (L = <<>> <=> Len(L) = 0)
      /\ \A i \in 1..Len(L) : L[i] \in FreeOf(h, n)
  BY <1>1, <1>2, OrderFacts
<1> HIDE DEF n
<1>5. FreeOf(g, n) = FreeOf(h, n) \cup {p}
  <2>1. p \in FreeOf(g, n)
    BY DEF FreeOf, n
  <2>2. ASSUME NEW q \in FreeOf(g, n), q # p PROVE q \in FreeOf(h, n)
    BY <2>2 DEF FreeOf
  <2>3. ASSUME NEW q \in FreeOf(h, n) PROVE q \in FreeOf(g, n)
    BY <1>2 DEF FreeOf
  <2> QED BY <2>1, <2>2, <2>3
<1>6. \A m : m # n => FreeOf(g, m) = FreeOf(h, m)
  <2> TAKE m
  <2> HAVE m # n
  <2>1. ASSUME NEW q \in FreeOf(g, m) PROVE q \in FreeOf(h, m)
    BY DEF FreeOf, n
  <2>2. ASSUME NEW q \in FreeOf(h, m) PROVE q \in FreeOf(g, m)
    BY DEF FreeOf, n
  <2> QED BY <2>1, <2>2
<1>7. new[n] = p /\ \A m \in 0..FREE_SIZES - 1 : m # n => new[m] = lists[m]
  BY DEF n
<1> HIDE DEF new
<1>8. Listed(g, new[n], n)
  <2> DEFINE M == <<p>> \o L
  <2>1. /\ IsOrder(M, FreeOf(g, n)) /\ Len(M) = Len(L) + 1
        /\ M[1] = p /\ \A i \in 1..Len(L) : M[i + 1] = L[i]
    BY <1>1, <1>2, <1>5, FirstAdded
  <2>2. M # <<>>
    BY <1>3, <2>1
  <2> HIDE DEF M
  <2>4. new[n] = IF M = <<>> THEN 0 ELSE M[1]
    BY <1>7, <2>1, <2>2
  <2>5. ASSUME NEW i \in 1..Len(M) PROVE g[M[i]].next = IF i = Len(M) THEN 0 ELSE M[i + 1]
    <3>1. CASE i = 1
      <4>1. g[M[i]].next = lists[n]
        BY <2>1, <3>1 DEF n
      <4>2. lists[n] = IF L = <<>> THEN 0 ELSE L[1]
        BY <1>1 DEF Chained
      <4>3. L # <<>> => M[2] = L[1]
        <5>1. L # <<>> => 1 \in 1..Len(L)
          BY <1>3
        <5>2. L # <<>> => M[1 + 1] = L[1]
          BY <2>1, <5>1
        <5> QED BY <5>2
      <4> QED BY <1>3, <2>1, <3>1, <4>1, <4>2, <4>3
    <3>2. CASE i # 1
      <4>1. i - 1 \in 1..Len(L) /\ (i - 1) + 1 = i
        BY <1>3, <2>1, <3>2
      <4>2. M[i] = L[i - 1] /\ L[i - 1] \in FreeOf(h, n)
        BY <1>3, <2>1, <4>1
      <4>3. g[M[i]] = h[L[i - 1]]
        <5>1. L[i - 1] \in 1..Len(h) /\ L[i - 1] # p
          BY <1>2, <4>2 DEF FreeOf
        <5> QED BY <4>2, <5>1
      <4>4. h[L[i - 1]].next = IF i - 1 = Len(L) THEN 0 ELSE L[(i - 1) + 1]
        BY <1>1, <4>1 DEF Chained
      <4>5. CASE i = Len(M)
        BY <1>3, <2>1, <4>3, <4>4, <4>5
      <4>6. CASE i # Len(M)
        <5>1. i \in 1..Len(L) /\ i - 1 # Len(L)
          BY <1>3, <2>1, <4>6
        <5>2. M[i + 1] = L[i]
          BY <2>1, <5>1
        <5> QED BY <4>1, <4>3, <4>4, <4>6, <5>1, <5>2
      <4> QED BY <4>5, <4>6
    <3> QED BY <3>1, <3>2
  <2>6. Chained(g, new[n], M)
    BY <2>4, <2>5 DEF Chained
  <2> QED BY <2>1, <2>6 DEF Listed
<1>9. ASSUME NEW m \in 0..FREE_SIZES - 1, m # n PROVE Listed(g, new[m], m)
  <2>1. Listed(h, lists[m], m)
    BY DEF AllListed
  <2>2. \A q \in FreeOf(h, m) : g[q].next = h[q].next
    <3> TAKE q \in FreeOf(h, m)
    <3>1. q \in 1..Len(h) /\ q # p
      BY <1>9 DEF FreeOf, n
    <3> QED BY <3>1
  <2>3. FreeOf(g, m) = FreeOf(h, m) /\ new[m] = lists[m]
    BY <1>6, <1>7, <1>9
  <2> QED BY <2>1, <2>2, <2>3, ListKept
<1>10. AllListed(g, new)
  BY <1>8, <1>9 DEF AllListed
<1> QED BY <1>10 DEF n, new
(***************************************************************************)
(* The list of dynpros                                                     *)
(***************************************************************************)
Ends == HEAD \notin Nodes \cup {UNLINKED} /\ UNLINKED \notin Nodes /\ IsFiniteSet(Nodes)
Dynpro == [next : Nodes \cup {HEAD, UNLINKED}, prev : Nodes \cup {HEAD, UNLINKED}, obj : Nat]
Dynpros == [Nodes \cup {HEAD} -> Dynpro]
Entry(next, prev, obj) == [next |-> next, prev |-> prev, obj |-> obj]
LinkedIn(D) == {d \in Nodes : D[d].next # UNLINKED}
Ring(D, L) == \A i \in 0..Len(L) : /\ D[Around(L, i)].next = Around(L, i + 1)
                                  /\ D[Around(L, i + 1)].prev = Around(L, i)
IsRing(D) == \E L : IsOrder(L, LinkedIn(D)) /\ Ring(D, L)

LEMMA DynproFacts ==
  ASSUME NEW D \in Dynpros, NEW x \in Nodes \cup {HEAD}
  PROVE  D[x].next \in Nodes \cup {HEAD, UNLINKED} /\ D[x].prev \in Nodes \cup {HEAD, UNLINKED} /\ D[x].obj \in Nat
  BY DEF Dynpros, Dynpro

IsEntry(e, a, b, o) == e \in Dynpro /\ e.next = a /\ e.prev = b /\ e.obj = o
LEMMA EntryFacts ==
  ASSUME NEW a \in Nodes \cup {HEAD, UNLINKED}, NEW b \in Nodes \cup {HEAD, UNLINKED}, NEW o \in Nat,
         NEW e, e = Entry(a, b, o)
  PROVE  IsEntry(e, a, b, o)
  BY DEF Dynpro, Entry, IsEntry

LEMMA EntryChanged ==
  ASSUME NEW e \in Dynpro, NEW a, NEW b
  PROVE  [e EXCEPT !.next = a, !.prev = b] = Entry(a, b, e.obj)
<1>1. e = [next |-> e.next, prev |-> e.prev, obj |-> e.obj]
  BY DEF Dynpro
<1> DEFINE f == [e EXCEPT !.next = a]
<1>2. f = [next |-> a, prev |-> e.prev, obj |-> e.obj]
  BY <1>1
<1> HIDE DEF f
<1>3. [f EXCEPT !.prev = b] = [next |-> a, prev |-> b, obj |-> e.obj]
  BY <1>2
<1>4. [e EXCEPT !.next = a, !.prev = b] = [f EXCEPT !.prev = b]
  BY DEF f
<1> QED BY <1>3, <1>4 DEF Entry

LEMMA LinkedFinite ==
  ASSUME Ends, NEW D PROVE IsFiniteSet(LinkedIn(D))
<1>1. LinkedIn(D) \in SUBSET Nodes
  BY DEF LinkedIn
<1> QED BY <1>1, FS_Subset DEF Ends

\* Around a ring, from its head to its head
LEMMA AroundFacts ==
  ASSUME Ends, NEW S \in SUBSET Nodes, NEW L, IsOrder(L, S)
  PROVE  /\ Len(L) \in Nat /\ Around(L, 0) = HEAD /\ Around(L, Len(L) + 1) = HEAD
         /\ \A i \in 1..Len(L) : Around(L, i) = L[i] /\ Around(L, i) \in S /\ Around(L, i) # HEAD
         /\ \A i, j \in 0..Len(L) : i # j => Around(L, i) # Around(L, j)
         /\ \A i \in 1..Len(L), j \in 1..Len(L) + 1 : i # j => Around(L, i) # Around(L, j)
         /\ \A i \in 0..Len(L) + 1 : Around(L, i) \in S \cup {HEAD}
<1>1. IsFiniteSet(S)
  BY FS_Subset DEF Ends
<1>2. /\ Len(L) \in Nat /\ DOMAIN L = 1..Len(L) /\ \A i \in 1..Len(L) : L[i] \in S
      /\ \A i, j \in 1..Len(L) : i # j => L[i] # L[j]
  BY <1>1, OrderFacts
<1>3. \A i \in 1..Len(L) : Around(L, i) = L[i] /\ Around(L, i) \in S /\ Around(L, i) # HEAD
  BY <1>2 DEF Around, Ends
<1>4. \A i : i \notin 1..Len(L) => Around(L, i) = HEAD
  BY <1>2 DEF Around
<1>5. Around(L, 0) = HEAD /\ Around(L, Len(L) + 1) = HEAD
  BY <1>2, <1>4
<1>6. ASSUME NEW i, NEW j, i \in 1..Len(L), i # j PROVE Around(L, i) # Around(L, j)
  <2>1. CASE j \in 1..Len(L)
    BY <1>2, <1>3, <1>6, <2>1
  <2>2. CASE j \notin 1..Len(L)
    BY <1>3, <1>4, <1>6, <2>2
  <2> QED BY <2>1, <2>2
<1>7. \A i, j \in 0..Len(L) : i # j => Around(L, i) # Around(L, j)
  <2> TAKE i, j \in 0..Len(L)
  <2> HAVE i # j
  <2>1. i \in 1..Len(L) \/ j \in 1..Len(L)
    BY <1>2
  <2> QED BY <1>6, <2>1
<1>8. \A i \in 1..Len(L), j \in 1..Len(L) + 1 : i # j => Around(L, i) # Around(L, j)
  BY <1>6
<1>9. \A i \in 0..Len(L) + 1 : Around(L, i) \in S \cup {HEAD}
  <2> TAKE i \in 0..Len(L) + 1
  <2>1. CASE i \in 1..Len(L)
    BY <1>3, <2>1
  <2>2. CASE i \notin 1..Len(L)
    BY <1>4, <2>2
  <2> QED BY <2>1, <2>2
<1> QED BY <1>2, <1>3, <1>5, <1>7, <1>8, <1>9

LEMMA RingKept ==
  ASSUME Ends, NEW D, IsRing(D), NEW E, \A x \in Nodes \cup {HEAD} : E[x].next = D[x].next /\ E[x].prev = D[x].prev
  PROVE  IsRing(E) /\ LinkedIn(E) = LinkedIn(D)
<1>1. LinkedIn(E) = LinkedIn(D)
  BY DEF LinkedIn
<1>2. PICK L : IsOrder(L, LinkedIn(D)) /\ Ring(D, L)
  BY DEF IsRing
<1>3. LinkedIn(D) \in SUBSET Nodes
  BY DEF LinkedIn
<1>4. Len(L) \in Nat /\ \A i \in 0..Len(L) + 1 : Around(L, i) \in Nodes \cup {HEAD}
  BY <1>2, <1>3, AroundFacts
<1>5. Ring(E, L)
  <2> SUFFICES ASSUME NEW i \in 0..Len(L)
               PROVE  /\ E[Around(L, i)].next = Around(L, i + 1)
                      /\ E[Around(L, i + 1)].prev = Around(L, i)
    BY DEF Ring
  <2>1. i \in 0..Len(L) + 1 /\ i + 1 \in 0..Len(L) + 1
    BY <1>4
  <2> QED BY <1>2, <1>4, <2>1 DEF Ring
<1> QED BY <1>1, <1>2, <1>5 DEF IsRing

\* What Inserted() makes of each dynpro
LEMMA InsertedFacts ==
  ASSUME Ends, dyn \in Dynpros, NEW d \in Nodes, NEW o \in Nat, dyn[HEAD].next # UNLINKED
  PROVE  /\ Inserted(d, o) \in Dynpros
         /\ \A x \in Nodes \cup {HEAD} :
              /\ Inserted(d, o)[x].next = IF x = d THEN dyn[HEAD].next ELSE IF x = HEAD THEN d ELSE dyn[x].next
              /\ Inserted(d, o)[x].prev = IF x = d THEN HEAD ELSE IF x = dyn[HEAD].next THEN d ELSE dyn[x].prev
              /\ Inserted(d, o)[x].obj = IF x = d THEN o ELSE dyn[x].obj
<1> DEFINE E == Inserted(d, o)
           N(x) == IF x = d THEN dyn[HEAD].next ELSE IF x = HEAD THEN d ELSE dyn[x].next
           P(x) == IF x = d THEN HEAD ELSE IF x = dyn[HEAD].next THEN d ELSE dyn[x].prev
           O(x) == IF x = d THEN o ELSE dyn[x].obj
<1>1. DOMAIN dyn = Nodes \cup {HEAD}
  BY DEF Dynpros
<1>2. E = [x \in Nodes \cup {HEAD} |-> Entry(N(x), P(x), O(x))]
  BY <1>1 DEF Inserted, Entry
<1>3. \A x \in Nodes \cup {HEAD} : N(x) \in Nodes \cup {HEAD, UNLINKED} /\ P(x) \in Nodes \cup {HEAD, UNLINKED} /\ O(x) \in Nat
  <2> TAKE x \in Nodes \cup {HEAD}
  <2>1. /\ dyn[x].next \in Nodes \cup {HEAD, UNLINKED} /\ dyn[x].prev \in Nodes \cup {HEAD, UNLINKED} /\ dyn[x].obj \in Nat
        /\ dyn[HEAD].next \in Nodes \cup {HEAD, UNLINKED}
    BY DynproFacts
  <2> QED BY <2>1
<1> HIDE DEF N, P, O
<1>4. \A x \in Nodes \cup {HEAD} : E[x] \in Dynpro /\ E[x].next = N(x) /\ E[x].prev = P(x) /\ E[x].obj = O(x)
  <2> TAKE x \in Nodes \cup {HEAD}
  <2>1. E[x] = Entry(N(x), P(x), O(x))
    BY <1>2
  <2> HIDE DEF E
  <2>2. IsEntry(E[x], N(x), P(x), O(x))
    BY <1>3, <2>1, EntryFacts
  <2> QED BY <2>2 DEF IsEntry
<1>5. E \in Dynpros
  <2>1. E = [x \in Nodes \cup {HEAD} |-> E[x]]
    BY <1>2
  <2> HIDE DEF E
  <2> QED BY <1>4, <2>1 DEF Dynpros
<1> HIDE DEF E
<1>6. /\ E \in Dynpros
      /\ \A x \in Nodes \cup {HEAD} :
           /\ E[x].next = IF x = d THEN dyn[HEAD].next ELSE IF x = HEAD THEN d ELSE dyn[x].next
           /\ E[x].prev = IF x = d THEN HEAD ELSE IF x = dyn[HEAD].next THEN d ELSE dyn[x].prev
           /\ E[x].obj = IF x = d THEN o ELSE dyn[x].obj
  BY <1>4, <1>5 DEF N, P, O
<1> QED BY <1>6 DEF E

LEMMA InsertedRing ==
  ASSUME Ends, dyn \in Dynpros, IsRing(dyn), NEW d \in Nodes, d \notin LinkedIn(dyn), NEW o \in Nat
  PROVE  /\ IsRing(Inserted(d, o)) /\ LinkedIn(Inserted(d, o)) = LinkedIn(dyn) \cup {d}
         /\ dyn[HEAD].next # UNLINKED
<1> DEFINE E == Inserted(d, o)
           S == LinkedIn(dyn)
<1>1. PICK L : IsOrder(L, S) /\ Ring(dyn, L)
  BY DEF IsRing
<1>2. S \in SUBSET Nodes /\ IsFiniteSet(S) /\ d # HEAD
  BY LinkedFinite DEF LinkedIn, Ends
<1> HIDE DEF S
<1>3. /\ Len(L) \in Nat /\ Around(L, 0) = HEAD /\ Around(L, Len(L) + 1) = HEAD
      /\ \A i \in 1..Len(L) : Around(L, i) = L[i] /\ Around(L, i) \in S /\ Around(L, i) # HEAD
      /\ \A i \in 1..Len(L), j \in 1..Len(L) + 1 : i # j => Around(L, i) # Around(L, j)
      /\ \A i \in 0..Len(L) + 1 : Around(L, i) \in S \cup {HEAD}
  BY <1>1, <1>2, AroundFacts
<1>4. \A i \in 0..Len(L) : /\ dyn[Around(L, i)].next = Around(L, i + 1)
                           /\ dyn[Around(L, i + 1)].prev = Around(L, i)
  BY <1>1 DEF Ring
<1>5. dyn[HEAD].next = Around(L, 1) /\ Around(L, 1) \in S \cup {HEAD}
  <2>1. 0 \in 0..Len(L) /\ 1 \in 0..Len(L) + 1
    BY <1>3
  <2> QED BY <1>3, <1>4, <2>1
<1>6. dyn[HEAD].next # UNLINKED /\ Around(L, 1) # d
  BY <1>2, <1>5 DEF Ends, S
<1>7. \A x \in Nodes \cup {HEAD} :
              /\ E[x].next = IF x = d THEN Around(L, 1) ELSE IF x = HEAD THEN d ELSE dyn[x].next
              /\ E[x].prev = IF x = d THEN HEAD ELSE IF x = Around(L, 1) THEN d ELSE dyn[x].prev
  BY <1>5, <1>6, InsertedFacts
<1> HIDE DEF E
<1>8. LinkedIn(E) = S \cup {d}
  <2>1. \A x \in Nodes : x # HEAD
    BY DEF Ends
  <2>2. E[d].next # UNLINKED
    BY <1>5, <1>6, <1>7
  <2>3. \A x \in Nodes : x # d => E[x].next = dyn[x].next
    BY <1>7, <2>1
  <2> QED BY <2>2, <2>3 DEF LinkedIn, S
<1> DEFINE M == <<d>> \o L
<1>9. /\ IsOrder(M, S \cup {d}) /\ Len(M) = Len(L) + 1
      /\ M[1] = d /\ \A i \in 1..Len(L) : M[i + 1] = L[i]
  BY <1>1, <1>2, FirstAdded DEF S
<1> HIDE DEF M
<1>10. /\ Around(M, 0) = HEAD /\ Around(M, 1) = d
       /\ \A i \in 1..Len(L) + 1 : Around(M, i + 1) = Around(L, i)
  <2>1. S \cup {d} \in SUBSET Nodes
    BY <1>2
  <2>2. /\ Around(M, 0) = HEAD /\ Around(M, Len(M) + 1) = HEAD
        /\ \A i \in 1..Len(M) : Around(M, i) = M[i]
    <3>1. IsOrder(M, S \cup {d})
      BY <1>9
    <3> QED BY <2>1, <3>1, AroundFacts
  <2>3. Around(M, 1) = d
    <3>1. 1 \in 1..Len(M)
      BY <1>3, <1>9
    <3> QED BY <1>9, <2>2, <3>1
  <2>4. ASSUME NEW i \in 1..Len(L) + 1 PROVE Around(M, i + 1) = Around(L, i)
    <3>1. CASE i = Len(L) + 1
      BY <1>3, <1>9, <2>2, <3>1
    <3>2. CASE i # Len(L) + 1
      <4>1. i \in 1..Len(L) /\ i + 1 \in 1..Len(M)
        BY <1>3, <1>9, <3>2
      <4> QED BY <1>3, <1>9, <2>2, <4>1
    <3> QED BY <3>1, <3>2
  <2> QED BY <2>2, <2>3, <2>4
<1>11. Ring(E, M)
  <2> SUFFICES ASSUME NEW i \in 0..Len(M)
               PROVE  /\ E[Around(M, i)].next = Around(M, i + 1)
                      /\ E[Around(M, i + 1)].prev = Around(M, i)
    BY DEF Ring
  <2>1. CASE i = 0
    <3>1. E[HEAD].next = d /\ E[d].prev = HEAD
      BY <1>2, <1>7
    <3> QED BY <1>10, <2>1, <3>1
  <2>2. CASE i = 1
    <3>1. Around(M, i) = d /\ Around(M, i + 1) = Around(L, 1)
      <4>1. 1 \in 1..Len(L) + 1
        BY <1>3
      <4> QED BY <1>10, <2>2, <4>1
    <3>2. E[d].next = Around(L, 1) /\ E[Around(L, 1)].prev = d
      BY <1>2, <1>5, <1>6, <1>7
    <3> QED BY <3>1, <3>2
  <2>3. CASE i > 1
    <3>1. i - 1 \in 1..Len(L) /\ i \in 1..Len(L) + 1 /\ (i - 1) + 1 = i /\ i - 1 \in 1..Len(L) + 1 /\ i - 1 \in 0..Len(L)
      BY <1>3, <1>9, <2>3
    <3>2. Around(M, i) = Around(L, i - 1) /\ Around(M, i + 1) = Around(L, i)
      BY <1>10, <3>1
    <3>3. Around(L, i - 1) \in S /\ Around(L, i - 1) # HEAD /\ Around(L, i) \in S \cup {HEAD} /\ Around(L, i) # Around(L, 1)
      <4>1. i \in 0..Len(L) + 1 /\ 1 \in 1..Len(L) /\ 1 # i
        BY <1>3, <2>3, <3>1
      <4> QED BY <1>3, <3>1, <4>1
    <3>4. Around(L, i - 1) # d /\ Around(L, i) # d
      BY <1>2, <3>3 DEF S
    <3>5. E[Around(L, i - 1)].next = dyn[Around(L, i - 1)].next /\ E[Around(L, i)].prev = dyn[Around(L, i)].prev
      BY <1>2, <1>7, <3>3, <3>4
    <3> QED BY <1>4, <3>1, <3>2, <3>5
  <2> QED BY <1>3, <1>9, <2>1, <2>2, <2>3
<1>12. IsRing(E)
  BY <1>8, <1>9, <1>11 DEF IsRing
<1> QED BY <1>6, <1>8, <1>12 DEF E, S

\* What Removed() makes of each dynpro
LEMMA RemovedFacts ==
  ASSUME Ends, dyn \in Dynpros, NEW d \in Nodes
  PROVE  /\ Removed(d) \in Dynpros
         /\ \A x \in Nodes \cup {HEAD} :
              /\ Removed(d)[x].next = IF x = d THEN UNLINKED ELSE IF x = dyn[d].prev THEN dyn[d].next ELSE dyn[x].next
              /\ Removed(d)[x].prev = IF x = d THEN UNLINKED ELSE IF x = dyn[d].next THEN dyn[d].prev ELSE dyn[x].prev
              /\ Removed(d)[x].obj = IF x = d THEN 0 ELSE dyn[x].obj
<1> DEFINE E == Removed(d)
           N(x) == IF x = d THEN UNLINKED ELSE IF x = dyn[d].prev THEN dyn[d].next ELSE dyn[x].next
           P(x) == IF x = d THEN UNLINKED ELSE IF x = dyn[d].next THEN dyn[d].prev ELSE dyn[x].prev
           O(x) == IF x = d THEN 0 ELSE dyn[x].obj
<1>1. DOMAIN dyn = Nodes \cup {HEAD} /\ \A x \in Nodes \cup {HEAD} : dyn[x] \in Dynpro
  BY DEF Dynpros
<1>2. \A x \in Nodes \cup {HEAD} : E[x] = Entry(N(x), P(x), O(x))
  <2> TAKE x \in Nodes \cup {HEAD}
  <2>1. CASE x = d
    BY <1>1, <2>1 DEF Removed, Entry
  <2>2. CASE x # d
    <3>1. E[x] = [dyn[x] EXCEPT !.next = IF x = dyn[d].prev THEN dyn[d].next ELSE @,
                                !.prev = IF x = dyn[d].next THEN dyn[d].prev ELSE @]
      BY <1>1, <2>2 DEF Removed
    <3> HIDE DEF E
    <3>2. E[x] = [dyn[x] EXCEPT !.next = N(x), !.prev = P(x)]
      BY <2>2, <3>1
    <3>3. O(x) = dyn[x].obj
      BY <2>2
    <3> HIDE DEF N, P, O
    <3>4. [dyn[x] EXCEPT !.next = N(x), !.prev = P(x)] = Entry(N(x), P(x), dyn[x].obj)
      BY <1>1, EntryChanged
    <3> QED BY <3>2, <3>3, <3>4
  <2> QED BY <2>1, <2>2
<1>3. \A x \in Nodes \cup {HEAD} : N(x) \in Nodes \cup {HEAD, UNLINKED} /\ P(x) \in Nodes \cup {HEAD, UNLINKED} /\ O(x) \in Nat
  <2> TAKE x \in Nodes \cup {HEAD}
  <2>1. /\ dyn[x].next \in Nodes \cup {HEAD, UNLINKED} /\ dyn[x].prev \in Nodes \cup {HEAD, UNLINKED} /\ dyn[x].obj \in Nat
        /\ dyn[d].next \in Nodes \cup {HEAD, UNLINKED} /\ dyn[d].prev \in Nodes \cup {HEAD, UNLINKED}
    BY DynproFacts
  <2> QED BY <2>1
<1> HIDE DEF N, P, O
<1>4. \A x \in Nodes \cup {HEAD} : E[x] \in Dynpro /\ E[x].next = N(x) /\ E[x].prev = P(x) /\ E[x].obj = O(x)
  <2> TAKE x \in Nodes \cup {HEAD}
  <2>1. E[x] = Entry(N(x), P(x), O(x))
    BY <1>2
  <2> HIDE DEF E
  <2>2. IsEntry(E[x], N(x), P(x), O(x))
    BY <1>3, <2>1, EntryFacts
  <2> QED BY <2>2 DEF IsEntry
<1>5. E \in Dynpros
  <2>1. E = [x \in Nodes \cup {HEAD} |-> E[x]]
    BY <1>1 DEF Removed
  <2> HIDE DEF E
  <2> QED BY <1>4, <2>1 DEF Dynpros
<1> HIDE DEF E
<1>6. /\ E \in Dynpros
      /\ \A x \in Nodes \cup {HEAD} :
           /\ E[x].next = IF x = d THEN UNLINKED ELSE IF x = dyn[d].prev THEN dyn[d].next ELSE dyn[x].next
           /\ E[x].prev = IF x = d THEN UNLINKED ELSE IF x = dyn[d].next THEN dyn[d].prev ELSE dyn[x].prev
           /\ E[x].obj = IF x = d THEN 0 ELSE dyn[x].obj
  BY <1>4, <1>5 DEF N, P, O
<1> QED BY <1>6 DEF E

\* An order without its k-th element
OneOut(L, k) == [i \in 1..Len(L) - 1 |-> IF i < k THEN L[i] ELSE L[i + 1]]
LEMMA OneDropped ==
  ASSUME NEW S, IsFiniteSet(S), NEW L, IsOrder(L, S), NEW k \in 1..Len(L)
  PROVE  /\ IsOrder(OneOut(L, k), S \ {L[k]}) /\ Len(OneOut(L, k)) = Len(L) - 1
         /\ \A i \in 1..Len(L) - 1 : OneOut(L, k)[i] = IF i < k THEN L[i] ELSE L[i + 1]
<1> DEFINE T == S \ {L[k]}
           M == OneOut(L, k)
<1>1. /\ Len(L) \in Nat \ {0} /\ Len(L) = Cardinality(S) /\ \A i \in 1..Len(L) : L[i] \in S
      /\ \A i, j \in 1..Len(L) : i # j => L[i] # L[j]
  BY OrderFacts
<1>2. \A i \in 1..Len(L) - 1 : M[i] = IF i < k THEN L[i] ELSE L[i + 1]
  BY DEF OneOut
<1>3. M = [i \in 1..Len(L) - 1 |-> M[i]]
  BY DEF OneOut
<1>4. L[k] \in S
  BY <1>1
<1>5. Cardinality(T) = Cardinality(S) - 1
  BY <1>4, FS_RemoveElement
<1> HIDE DEF M
<1> DEFINE f(i) == IF i < k THEN i ELSE i + 1
<1>6. \A i \in 1..Len(L) - 1 : f(i) \in 1..Len(L) /\ f(i) # k /\ M[i] = L[f(i)]
  BY <1>1, <1>2
<1>7. \A i, j \in 1..Len(L) - 1 : i # j => f(i) # f(j)
  BY <1>1
<1> HIDE DEF f, T
<1>8. \A i \in 1..Len(L) - 1 : M[i] \in T
  <2> TAKE i \in 1..Len(L) - 1
  <2>1. f(i) \in 1..Len(L) /\ f(i) # k /\ M[i] = L[f(i)]
    BY <1>6
  <2> QED BY <1>1, <2>1 DEF T
<1>9. M \in Seq(T) /\ Len(M) = Len(L) - 1
  <2>1. M \in [1..Len(L) - 1 -> T]
    BY <1>3, <1>8
  <2>2. Len(L) - 1 \in Nat
    BY <1>1
  <2> QED BY <2>1, <2>2
<1>10. \A i, j \in 1..Len(M) : i # j => M[i] # M[j]
  BY <1>1, <1>6, <1>7, <1>9
<1>11. IsOrder(M, T)
  BY <1>1, <1>5, <1>9, <1>10 DEF IsOrder
<1> QED BY <1>2, <1>9, <1>11 DEF T, M

LEMMA RemovedRing ==
  ASSUME Ends, dyn \in Dynpros, IsRing(dyn), NEW d \in LinkedIn(dyn)
  PROVE  IsRing(Removed(d)) /\ LinkedIn(Removed(d)) = LinkedIn(dyn) \ {d}
<1> DEFINE E == Removed(d)
           S == LinkedIn(dyn)
<1>1. PICK L : IsOrder(L, S) /\ Ring(dyn, L)
  BY DEF IsRing
<1>2. S \in SUBSET Nodes /\ IsFiniteSet(S) /\ d \in S
  BY LinkedFinite DEF LinkedIn
<1>12. \A x \in S : dyn[x].next # UNLINKED
  BY DEF LinkedIn
<1> HIDE DEF S
<1>3. /\ Len(L) \in Nat /\ Around(L, 0) = HEAD /\ Around(L, Len(L) + 1) = HEAD
      /\ \A i \in 1..Len(L) : Around(L, i) = L[i] /\ Around(L, i) \in S /\ Around(L, i) # HEAD
      /\ \A i, j \in 0..Len(L) : i # j => Around(L, i) # Around(L, j)
      /\ \A i \in 1..Len(L), j \in 1..Len(L) + 1 : i # j => Around(L, i) # Around(L, j)
      /\ \A i \in 0..Len(L) + 1 : Around(L, i) \in S \cup {HEAD}
  BY <1>1, <1>2, AroundFacts
<1>4. \A i \in 0..Len(L) : /\ dyn[Around(L, i)].next = Around(L, i + 1)
                           /\ dyn[Around(L, i + 1)].prev = Around(L, i)
  BY <1>1 DEF Ring
<1>5. PICK k \in 1..Len(L) : L[k] = d
  BY <1>1, <1>2, OrderOnto
<1>6. /\ k - 1 \in 0..Len(L) /\ k \in 0..Len(L) /\ k + 1 \in 0..Len(L) + 1 /\ (k - 1) + 1 = k
      /\ Around(L, k) = d /\ dyn[d].next = Around(L, k + 1) /\ dyn[d].prev = Around(L, k - 1)
  <2>1. k - 1 \in 0..Len(L) /\ k \in 0..Len(L) /\ k + 1 \in 0..Len(L) + 1 /\ (k - 1) + 1 = k
    BY <1>3
  <2>2. Around(L, k) = d
    BY <1>3, <1>5
  <2>3. dyn[Around(L, k)].next = Around(L, k + 1)
    BY <1>4, <2>1
  <2>4. dyn[Around(L, (k - 1) + 1)].prev = Around(L, k - 1)
    BY <1>4, <2>1
  <2> QED BY <2>1, <2>2, <2>3, <2>4
<1> DEFINE p == Around(L, k - 1)
           n == Around(L, k + 1)
<1>7. \A x \in Nodes \cup {HEAD} :
              /\ E[x].next = IF x = d THEN UNLINKED ELSE IF x = p THEN n ELSE dyn[x].next
              /\ E[x].prev = IF x = d THEN UNLINKED ELSE IF x = n THEN p ELSE dyn[x].prev
  BY <1>2, <1>6, RemovedFacts
<1>8. p \in S \cup {HEAD} /\ n \in S \cup {HEAD} /\ p # d /\ n # d
  <2>1. k - 1 \in 0..Len(L) + 1 /\ k - 1 # k /\ k + 1 # k /\ k + 1 \in 1..Len(L) + 1
    BY <1>3, <1>5
  <2> QED BY <1>3, <1>5, <1>6, <2>1
<1> HIDE DEF E, p, n
<1>9. LinkedIn(E) = S \ {d}
  <2>1. UNLINKED \notin Nodes \cup {HEAD} /\ n \in Nodes \cup {HEAD}
    BY <1>2, <1>8 DEF Ends
  <2>2. E[d].next = UNLINKED
    BY <1>2, <1>7
  <2>3. \A x \in S : x # d => E[x].next # UNLINKED
    BY <1>2, <1>7, <1>12, <2>1
  <2>4. \A x \in Nodes \ S : E[x].next = UNLINKED
    <3> TAKE x \in Nodes \ S
    <3>1. dyn[x].next = UNLINKED /\ x # d
      BY <1>2 DEF S, LinkedIn
    <3>2. x # p
      BY <1>8 DEF Ends
    <3> QED BY <1>7, <3>1, <3>2
  <2> QED BY <1>2, <2>2, <2>3, <2>4 DEF LinkedIn
<1> DEFINE M == OneOut(L, k)
<1>10. /\ IsOrder(M, S \ {d}) /\ Len(M) = Len(L) - 1
       /\ \A i \in 1..Len(L) - 1 : M[i] = IF i < k THEN L[i] ELSE L[i + 1]
  BY <1>1, <1>2, <1>5, OneDropped
<1> HIDE DEF M
<1>11. \A i \in 0..Len(L) : Around(M, i) = IF i < k THEN Around(L, i) ELSE Around(L, i + 1)
  <2>1. S \ {d} \in SUBSET Nodes /\ IsOrder(M, S \ {d})
    BY <1>2, <1>10
  <2>2. /\ Around(M, 0) = HEAD /\ Around(M, Len(M) + 1) = HEAD
        /\ \A i \in 1..Len(M) : Around(M, i) = M[i]
    BY <2>1, AroundFacts
  <2> TAKE i \in 0..Len(L)
  <2>3. CASE i = 0
    BY <1>3, <1>5, <2>2, <2>3
  <2>4. CASE i = Len(L)
    <3>1. ~(i < k) /\ Len(M) + 1 = i
      BY <1>3, <1>10, <2>4
    <3> QED BY <1>3, <2>2, <2>4, <3>1
  <2>5. CASE i # 0 /\ i # Len(L)
    <3>1. i \in 1..Len(L) - 1 /\ i \in 1..Len(M) /\ i \in 1..Len(L) /\ i + 1 \in 1..Len(L)
      BY <1>3, <1>10, <2>5
    <3> QED BY <1>3, <1>10, <2>2, <3>1
  <2> QED BY <2>3, <2>4, <2>5
<1>13. Ring(E, M)
  <2> SUFFICES ASSUME NEW i \in 0..Len(M)
               PROVE  /\ E[Around(M, i)].next = Around(M, i + 1)
                      /\ E[Around(M, i + 1)].prev = Around(M, i)
    BY DEF Ring
  <2>1. i \in 0..Len(L) /\ i + 1 \in 0..Len(L)
    BY <1>3, <1>10
  <2>2. CASE i = k - 1
    <3>1. i < k /\ ~(i + 1 < k) /\ (i + 1) + 1 = k + 1
      BY <1>6, <2>2
    <3>2. Around(M, i) = p /\ Around(M, i + 1) = n
      BY <1>11, <2>1, <2>2, <3>1 DEF p, n
    <3> QED BY <1>2, <1>7, <1>8, <3>2
  <2>3. ASSUME NEW j \in 0..Len(L), j # k - 1, j # k,
               Around(M, i) = Around(L, j), Around(M, i + 1) = Around(L, j + 1)
        PROVE  /\ E[Around(M, i)].next = Around(M, i + 1)
               /\ E[Around(M, i + 1)].prev = Around(M, i)
    <3>1. j \in 0..Len(L) + 1 /\ j + 1 \in 0..Len(L) + 1 /\ j + 1 # k /\ j + 1 # k + 1 /\ j + 1 \in 1..Len(L) + 1
      BY <1>3, <1>6, <2>3
    <3>2. Around(L, j) # p /\ Around(L, j) # d /\ Around(L, j) \in S \cup {HEAD}
      BY <1>3, <1>6, <2>3, <3>1 DEF p
    <3>3. Around(L, j + 1) # d /\ Around(L, j + 1) \in S \cup {HEAD}
      BY <1>3, <1>5, <1>6, <3>1
    <3>4. Around(L, j + 1) # n
      <4>1. CASE j + 1 \in 1..Len(L)
        <5>1. k + 1 \in 1..Len(L) + 1
          BY <1>3, <1>5
        <5> QED BY <1>3, <3>1, <4>1, <5>1 DEF n
      <4>2. CASE j + 1 = Len(L) + 1
        <5>1. k + 1 \in 1..Len(L)
          BY <1>3, <1>5, <3>1, <4>2
        <5> QED BY <1>3, <3>1, <4>2, <5>1 DEF n
      <4> QED BY <1>3, <3>1, <4>1, <4>2
    <3>5. E[Around(L, j)].next = dyn[Around(L, j)].next
      BY <1>2, <1>7, <3>2
    <3>6. E[Around(L, j + 1)].prev = dyn[Around(L, j + 1)].prev
      BY <1>2, <1>7, <3>3, <3>4
    <3> QED BY <1>4, <2>3, <3>5, <3>6
  <2>4. CASE i < k - 1
    <3>1. i < k /\ i + 1 < k /\ i # k - 1 /\ i # k
      BY <1>6, <2>4
    <3>2. Around(M, i) = Around(L, i) /\ Around(M, i + 1) = Around(L, i + 1)
      BY <1>11, <2>1, <3>1
    <3> QED BY <2>1, <2>3, <3>1, <3>2
  <2>5. CASE i >= k
    <3>1. ~(i < k) /\ ~(i + 1 < k) /\ i + 1 # k - 1 /\ i + 1 # k
      BY <1>6, <2>1, <2>5
    <3>2. Around(M, i) = Around(L, i + 1) /\ Around(M, i + 1) = Around(L, (i + 1) + 1)
      BY <1>11, <2>1, <3>1
    <3> QED BY <2>1, <2>3, <3>1, <3>2
  <2> QED BY <1>6, <2>1, <2>2, <2>4, <2>5
<1>14. IsRing(E)
  BY <1>9, <1>10, <1>13 DEF IsRing
<1> QED BY <1>9, <1>14 DEF E, S
(***************************************************************************)
(* A collection                                                            *)
(***************************************************************************)
States == [new : Seq(Blocks), fwd : [1..Len(heap) -> Nat], var : [CVars -> Nat], marked : SUBSET CVars]
IsState(S, new, fwd, vs, marked) ==
  S \in States /\ S.new = new /\ S.fwd = fwd /\ S.var = vs /\ S.marked = marked

\* An object that may be moved, or none
Live(p) == p = 0 \/ (p \in 1..Len(heap) /\ ~heap[p].free)
Roots0 == IsHeap(heap) /\ var \in [CVars -> Nat] /\ \A v \in CVars : Live(var[v])

\* The blocks that have been moved are the new heap
Places(new, fwd) ==
  /\ \A p \in 1..Len(heap) : fwd[p] # 0 => fwd[p] \in 1..Len(new) /\ new[fwd[p]] = heap[p] /\ ~heap[p].free
  /\ \A p, q \in 1..Len(heap) : fwd[p] = fwd[q] /\ fwd[p] # 0 => p = q
  /\ \A i \in 1..Len(new) : \E p \in 1..Len(heap) : fwd[p] = i

\* The variables with a mark, and no others, have the new places
MarkedMoved(vs, marked, fwd) ==
  /\ \A v \in marked : var[v] # 0 /\ fwd[var[v]] # 0 /\ vs[v] = fwd[var[v]]
  /\ \A v \in CVars \ marked : vs[v] = var[v]

Collecting == {S \in States : Places(S.new, S.fwd) /\ MarkedMoved(S.var, S.marked, S.fwd)}
Grows(S, T) == /\ \A p \in 1..Len(heap) : S.fwd[p] # 0 => T.fwd[p] = S.fwd[p]
               /\ S.marked \subseteq T.marked
Moved0(S, p) == p # 0 => S.fwd[p] # 0

LEMMA MakeState ==
  ASSUME NEW new \in Seq(Blocks), NEW fwd \in [1..Len(heap) -> Nat], NEW vs \in [CVars -> Nat], NEW marked \in SUBSET CVars,
         NEW S, S = [new |-> new, fwd |-> fwd, var |-> vs, marked |-> marked]
  PROVE  IsState(S, new, fwd, vs, marked)
  BY DEF IsState, States

LEMMA StateFacts ==
  ASSUME NEW S \in States
  PROVE  /\ S = [new |-> S.new, fwd |-> S.fwd, var |-> S.var, marked |-> S.marked]
         /\ S.new \in Seq(Blocks) /\ S.fwd \in [1..Len(heap) -> Nat] /\ S.var \in [CVars -> Nat] /\ S.marked \in SUBSET CVars
  BY DEF States

LEMMA MoveOne ==
  ASSUME IsHeap(heap), NEW S \in States, NEW p \in 1..Len(heap), S.fwd[p] = 0
  PROVE  IsState(Move(S, p), Append(S.new, heap[p]), [S.fwd EXCEPT ![p] = Len(S.new) + 1], S.var, S.marked)
<1> DEFINE new == Append(S.new, heap[p])
           fwd == [S.fwd EXCEPT ![p] = Len(S.new) + 1]
<1>1. p # 0 /\ heap[p] \in Blocks /\ DOMAIN heap = 1..Len(heap)
  BY HeapFacts
<1>2. /\ S = [new |-> S.new, fwd |-> S.fwd, var |-> S.var, marked |-> S.marked]
      /\ S.new \in Seq(Blocks) /\ S.fwd \in [1..Len(heap) -> Nat] /\ S.var \in [CVars -> Nat] /\ S.marked \in SUBSET CVars
  BY StateFacts
<1>3. new \in Seq(Blocks) /\ fwd \in [1..Len(heap) -> Nat]
  <2>1. Len(S.new) + 1 \in Nat
    BY <1>2, LenProperties
  <2>2. new \in Seq(Blocks)
    BY <1>1, <1>2, AppendProperties
  <2> QED BY <1>2, <2>1, <2>2
<1>4. Move(S, p) = [S EXCEPT !.new = Append(@, heap[p]), !.fwd[p] = Len(S.new) + 1]
  BY <1>1 DEF Move
<1> DEFINE T == [S EXCEPT !.new = new]
<1>5. T = [new |-> new, fwd |-> S.fwd, var |-> S.var, marked |-> S.marked]
  <2> HIDE DEF new
  <2> QED BY <1>2
<1>6. [S EXCEPT !.new = Append(@, heap[p]), !.fwd[p] = Len(S.new) + 1] = [T EXCEPT !.fwd = fwd]
  <2>1. T.fwd = S.fwd
    BY <1>5
  <2>2. [S EXCEPT !.new = Append(@, heap[p]), !.fwd[p] = Len(S.new) + 1] = [T EXCEPT !.fwd[p] = Len(S.new) + 1]
    OBVIOUS
  <2> HIDE DEF T
  <2>3. [T EXCEPT !.fwd[p] = Len(S.new) + 1] = [T EXCEPT !.fwd = [T.fwd EXCEPT ![p] = Len(S.new) + 1]]
    OBVIOUS
  <2> QED BY <2>1, <2>2, <2>3
<1> HIDE DEF T, new, fwd
<1>7. Move(S, p) = [new |-> new, fwd |-> fwd, var |-> S.var, marked |-> S.marked]
  BY <1>4, <1>5, <1>6
<1> QED BY <1>2, <1>3, <1>7, MakeState DEF new, fwd

LEMMA Moving ==
  ASSUME Roots0, NEW S \in Collecting, NEW p, Live(p)
  PROVE  /\ Move(S, p) \in Collecting /\ Grows(S, Move(S, p)) /\ Moved0(Move(S, p), p)
         /\ Move(S, p).var = S.var /\ Move(S, p).marked = S.marked
<1> DEFINE T == Move(S, p)
<1>1. CASE p = 0 \/ S.fwd[p] # 0
  <2>1. T = S
    BY <1>1 DEF Move
  <2> QED BY <1>1, <2>1 DEF Grows, Moved0
<1>2. CASE ~(p = 0 \/ S.fwd[p] # 0)
  <2>1. p \in 1..Len(heap) /\ ~heap[p].free /\ S.fwd[p] = 0 /\ IsHeap(heap)
    BY <1>2 DEF Live, Roots0
  <2>2. S \in States /\ Places(S.new, S.fwd) /\ MarkedMoved(S.var, S.marked, S.fwd)
    BY DEF Collecting
  <2> DEFINE n == Len(S.new) + 1
  <2>3. IsState(T, Append(S.new, heap[p]), [S.fwd EXCEPT ![p] = n], S.var, S.marked)
    BY <2>1, <2>2, MoveOne
  <2> HIDE DEF T
  <2>4. /\ T \in States /\ T.new = Append(S.new, heap[p]) /\ T.fwd = [S.fwd EXCEPT ![p] = n]
        /\ T.var = S.var /\ T.marked = S.marked
    BY <2>3 DEF IsState
  <2>5. S.new \in Seq(Blocks) /\ S.fwd \in [1..Len(heap) -> Nat] /\ S.marked \in SUBSET CVars /\ heap[p] \in Blocks
    BY <2>1, <2>2, StateFacts, HeapFacts
  <2>6. /\ Len(S.new) \in Nat /\ Len(T.new) = n /\ T.new[n] = heap[p]
        /\ \A i \in 1..Len(S.new) : T.new[i] = S.new[i]
    BY <2>4, <2>5, AppendProperties, LenProperties
  <2>7. T.fwd[p] = n /\ \A q \in 1..Len(heap) : q # p => T.fwd[q] = S.fwd[q]
    BY <2>1, <2>4, <2>5
  <2>8. Places(T.new, T.fwd)
    <3>1. ASSUME NEW q \in 1..Len(heap), T.fwd[q] # 0
          PROVE  T.fwd[q] \in 1..Len(T.new) /\ T.new[T.fwd[q]] = heap[q] /\ ~heap[q].free
      <4>1. CASE q = p
        BY <2>1, <2>6, <2>7, <4>1
      <4>2. CASE q # p
        <5>1. T.fwd[q] = S.fwd[q] /\ S.fwd[q] # 0
          BY <2>7, <3>1, <4>2
        <5>2. S.fwd[q] \in 1..Len(S.new) /\ S.new[S.fwd[q]] = heap[q] /\ ~heap[q].free
          BY <2>2, <5>1 DEF Places
        <5> QED BY <2>6, <5>1, <5>2
      <4> QED BY <4>1, <4>2
    <3>2. ASSUME NEW q \in 1..Len(heap), S.fwd[q] = n PROVE FALSE
      <4>1. n # 0 /\ n \notin 1..Len(S.new)
        BY <2>6
      <4> QED BY <2>2, <3>2, <4>1 DEF Places
    <3>3. ASSUME NEW q \in 1..Len(heap), NEW r \in 1..Len(heap), T.fwd[q] = T.fwd[r], T.fwd[q] # 0 PROVE q = r
      <4>1. CASE q = p \/ r = p
        BY <2>7, <3>2, <3>3, <4>1
      <4>2. CASE q # p /\ r # p
        BY <2>2, <2>7, <3>3, <4>2 DEF Places
      <4> QED BY <4>1, <4>2
    <3>4. ASSUME NEW i \in 1..Len(T.new) PROVE \E q \in 1..Len(heap) : T.fwd[q] = i
      <4>1. CASE i = n
        BY <2>1, <2>7, <4>1
      <4>2. CASE i # n
        <5>1. i \in 1..Len(S.new) /\ i # 0
          BY <2>6, <4>2
        <5>2. PICK q \in 1..Len(heap) : S.fwd[q] = i
          BY <2>2, <5>1 DEF Places
        <5>3. q # p
          BY <2>1, <5>1, <5>2
        <5> QED BY <2>7, <5>2, <5>3
      <4> QED BY <4>1, <4>2
    <3> QED BY <3>1, <3>3, <3>4 DEF Places
  <2>9. Grows(S, T)
    BY <2>1, <2>4, <2>7 DEF Grows
  <2>10. MarkedMoved(T.var, T.marked, T.fwd)
    <3>1. \A v \in S.marked : var[v] \in 1..Len(heap) /\ S.fwd[var[v]] # 0 /\ S.var[v] = S.fwd[var[v]]
      BY <2>2, <2>5 DEF MarkedMoved, Roots0, Live
    <3> QED BY <2>2, <2>4, <2>9, <3>1 DEF MarkedMoved, Grows
  <2>11. T.fwd[p] # 0
    BY <2>6, <2>7
  <2> QED BY <2>4, <2>8, <2>9, <2>10, <2>11 DEF Collecting, Moved0, T
<1> QED BY <1>1, <1>2

LEMMA MarkOne ==
  ASSUME NEW T \in States, NEW v \in CVars, NEW p \in Nat,
         NEW U, U = [T EXCEPT !.var[v] = p, !.marked = @ \cup {v}]
  PROVE  IsState(U, T.new, T.fwd, [T.var EXCEPT ![v] = p], T.marked \cup {v})
<1> DEFINE vs == [T.var EXCEPT ![v] = p]
           marked == T.marked \cup {v}
<1>1. /\ T = [new |-> T.new, fwd |-> T.fwd, var |-> T.var, marked |-> T.marked]
      /\ T.new \in Seq(Blocks) /\ T.fwd \in [1..Len(heap) -> Nat] /\ T.var \in [CVars -> Nat] /\ T.marked \in SUBSET CVars
  BY StateFacts
<1>2. vs \in [CVars -> Nat] /\ marked \in SUBSET CVars
  BY <1>1
<1> DEFINE W == [T EXCEPT !.var = vs]
<1>3. W = [new |-> T.new, fwd |-> T.fwd, var |-> vs, marked |-> T.marked]
  <2> HIDE DEF vs
  <2> QED BY <1>1
<1>4. U = [W EXCEPT !.marked = @ \cup {v}]
  <2>1. [T EXCEPT !.var[v] = p] = W
    OBVIOUS
  <2> QED BY <2>1
<1>5. W.marked = T.marked
  BY <1>3
<1> HIDE DEF W, vs
<1>6. U = [new |-> T.new, fwd |-> T.fwd, var |-> vs, marked |-> marked]
  <2>1. U = [W EXCEPT !.marked = marked]
    BY <1>4, <1>5
  <2> HIDE DEF marked
  <2> QED BY <1>3, <2>1
<1> HIDE DEF marked
<1> QED BY <1>1, <1>2, <1>6, MakeState DEF vs, marked

LEMMA Forwarding ==
  ASSUME Roots0, NEW S \in Collecting, NEW v \in CVars
  PROVE  /\ safe_forward(S, v) \in Collecting /\ Grows(S, safe_forward(S, v))
         /\ var[v] # 0 => v \in safe_forward(S, v).marked
<1> DEFINE p == S.var[v]
           T == Move(S, p)
           U == safe_forward(S, v)
<1>1. S \in States /\ Places(S.new, S.fwd) /\ MarkedMoved(S.var, S.marked, S.fwd) /\ S.marked \in SUBSET CVars
  BY StateFacts DEF Collecting
<1>2. CASE p = 0 \/ v \in S.marked
  <2>1. U = S
    BY <1>2 DEF safe_forward
  <2>2. v \notin S.marked => var[v] = 0
    BY <1>1, <1>2 DEF MarkedMoved
  <2> QED BY <2>1, <2>2 DEF Grows
<1>3. CASE ~(p = 0 \/ v \in S.marked)
  <2>1. p = var[v] /\ p # 0 /\ Live(p) /\ p \in 1..Len(heap)
    BY <1>1, <1>3 DEF MarkedMoved, Roots0, Live
  <2>2. U = [T EXCEPT !.var[v] = T.fwd[p], !.marked = @ \cup {v}]
    BY <1>3 DEF safe_forward
  <2> HIDE DEF p
  <2>3. T \in Collecting /\ Grows(S, T) /\ Moved0(T, p) /\ T.var = S.var /\ T.marked = S.marked
    BY <2>1, Moving
  <2> HIDE DEF T, U
  <2>4. T \in States /\ Places(T.new, T.fwd) /\ MarkedMoved(T.var, T.marked, T.fwd)
    BY <2>3 DEF Collecting
  <2>5. T.fwd \in [1..Len(heap) -> Nat] /\ T.var \in [CVars -> Nat] /\ T.marked \in SUBSET CVars
    BY <2>4, StateFacts
  <2>6. T.fwd[p] \in Nat /\ T.fwd[p] # 0
    BY <2>1, <2>3, <2>5 DEF Moved0
  <2>7. IsState(U, T.new, T.fwd, [T.var EXCEPT ![v] = T.fwd[p]], T.marked \cup {v})
    BY <2>2, <2>4, <2>6, MarkOne
  <2>8. /\ U \in States /\ U.new = T.new /\ U.fwd = T.fwd /\ U.marked = T.marked \cup {v}
        /\ U.var = [T.var EXCEPT ![v] = T.fwd[p]]
    BY <2>7 DEF IsState
  <2>9. U.var[v] = T.fwd[p] /\ \A w \in CVars : w # v => U.var[w] = T.var[w]
    BY <2>5, <2>8
  <2>10. MarkedMoved(U.var, U.marked, U.fwd)
    <3>1. ASSUME NEW w \in U.marked PROVE var[w] # 0 /\ U.fwd[var[w]] # 0 /\ U.var[w] = U.fwd[var[w]]
      <4>1. CASE w = v
        BY <2>1, <2>6, <2>8, <2>9, <4>1
      <4>2. CASE w # v
        <5>1. w \in T.marked /\ w \in CVars
          BY <2>5, <2>8, <4>2
        <5> QED BY <2>4, <2>8, <2>9, <4>2, <5>1 DEF MarkedMoved
      <4> QED BY <4>1, <4>2
    <3>2. ASSUME NEW w \in CVars \ U.marked PROVE U.var[w] = var[w]
      <4>1. w # v /\ w \in CVars \ T.marked
        BY <2>8, <3>2
      <4> QED BY <2>4, <2>9, <4>1 DEF MarkedMoved
    <3> QED BY <3>1, <3>2 DEF MarkedMoved
  <2>11. U \in Collecting
    BY <2>4, <2>8, <2>10 DEF Collecting
  <2>12. Grows(S, U)
    BY <2>3, <2>8 DEF Grows
  <2> QED BY <2>8, <2>11, <2>12 DEF U
<1> QED BY <1>2, <1>3

LEMMA GrowsAgain ==
  ASSUME NEW S \in States, NEW T, NEW U, Grows(S, T), Grows(T, U)
  PROVE  Grows(S, U)
  BY DEF Grows

(***************************************************************************)
(* The loops of a collection: each is one function of the number of turns  *)
(***************************************************************************)
LEMMA MovingAll ==
  ASSUME Roots0, NEW S \in Collecting, NEW n \in Nat, NEW ps, Len(ps) = n, \A i \in 1..n : Live(ps[i])
  PROVE  /\ MoveAll(S, ps) \in Collecting /\ Grows(S, MoveAll(S, ps))
         /\ \A i \in 1..n : Moved0(MoveAll(S, ps), ps[i])
<1> DEFINE X == Collecting
           Turn == [t \in (0..n - 1) \X X |-> Move(t[2], ps[t[1] + 1])]
           Is(f) == f = [k \in 0..n |-> IF k = 0 THEN S ELSE Move(f[k - 1], ps[k])]
<1>1. \A k \in 0..n - 1 : k + 1 \in 1..n /\ Live(ps[k + 1])
  OBVIOUS
<1>2. Turn \in Bodies(0..n - 1, X)
  <2>1. \A k \in 0..n - 1, t \in X : Move(t, ps[k + 1]) \in X
    BY <1>1, Moving
  <2> HIDE DEF X
  <2> QED BY <2>1 DEF Bodies
<1>3. \A k \in 0..n - 1, t \in X : Turn[<<k, t>>] = Move(t, ps[k + 1])
  OBVIOUS
<1> HIDE DEF X, Turn
<1>4. PICK g \in [0..n -> X] : IsLoop(g, 0..n - 1, X, S, Turn)
  <2>1. S \in X
    BY DEF X
  <2> QED BY <1>2, <2>1, Loop
<1>5. g[0] = S /\ \A k \in 0..n - 1 : g[k] \in X /\ g[k + 1] = Move(g[k], ps[k + 1])
  BY <1>3, <1>4 DEF IsLoop
<1>6. Is(g)
  <2>1. ASSUME NEW k \in 0..n PROVE g[k] = IF k = 0 THEN S ELSE Move(g[k - 1], ps[k])
    <3>1. k = 0 \/ (k - 1 \in 0..n - 1 /\ (k - 1) + 1 = k)
      OBVIOUS
    <3> QED BY <1>5, <3>1
  <2>2. g = [k \in 0..n |-> g[k]]
    BY <1>4
  <2> QED BY <2>1, <2>2
<1> DEFINE f == CHOOSE f : Is(f)
<1>7. MoveAll(S, ps) = f[n]
  BY DEF MoveAll
<1>8. Is(f)
  <2> HIDE DEF Is
  <2> QED BY <1>6
<1> HIDE DEF f
<1>9. \A k \in 0..n : f[k] = IF k = 0 THEN S ELSE Move(f[k - 1], ps[k])
  BY <1>8
<1> DEFINE T == {k \in 0..n : f[k] \in X /\ Grows(S, f[k]) /\ \A i \in 1..k : Moved0(f[k], ps[i])}
<1>10. 0 \in T
  <2>1. f[0] = S
    BY <1>9
  <2>2. Grows(S, S)
    BY DEF Grows
  <2> QED BY <2>1, <2>2 DEF X
<1>11. ASSUME NEW k \in 0..n - 1, k \in T PROVE k + 1 \in T
  <2>1. k + 1 \in 0..n /\ k + 1 # 0 /\ (k + 1) - 1 = k
    OBVIOUS
  <2>2. f[k + 1] = Move(f[k], ps[k + 1])
    BY <1>9, <2>1
  <2>3. f[k] \in Collecting /\ Grows(S, f[k]) /\ \A i \in 1..k : Moved0(f[k], ps[i])
    BY <1>11 DEF X
  <2>4. Live(ps[k + 1])
    BY <1>1
  <2>5. f[k + 1] \in Collecting /\ Grows(f[k], f[k + 1]) /\ Moved0(f[k + 1], ps[k + 1])
    BY <2>2, <2>3, <2>4, Moving
  <2>6. Grows(S, f[k + 1])
    <3>1. S \in States
      BY DEF Collecting
    <3> QED BY <2>3, <2>5, <3>1, GrowsAgain
  <2>7. ASSUME NEW i \in 1..k + 1 PROVE Moved0(f[k + 1], ps[i])
    <3>1. CASE i = k + 1
      BY <2>5, <3>1
    <3>2. CASE i # k + 1
      <4>1. i \in 1..k /\ i \in 1..n
        BY <3>2
      <4>2. Moved0(f[k], ps[i]) /\ Live(ps[i])
        BY <2>3, <4>1
      <4> QED BY <2>5, <4>2 DEF Moved0, Live, Grows
    <3> QED BY <3>1, <3>2
  <2> QED BY <2>1, <2>5, <2>6, <2>7 DEF X
<1>12. n \in T
  <2>1. \A k \in 0..n : k \in T
    <3> HIDE DEF T
    <3> QED BY <1>10, <1>11, InductionUpto
  <2> QED BY <2>1
<1>13. f[n] \in Collecting /\ Grows(S, f[n]) /\ \A i \in 1..n : Moved0(f[n], ps[i])
  BY <1>12 DEF X
<1> QED BY <1>7, <1>13

LEMMA ForwardingAll ==
  ASSUME Roots0, NEW S \in Collecting, NEW n \in Nat, NEW vs, Len(vs) = n, \A i \in 1..n : vs[i] \in CVars
  PROVE  /\ ForwardAll(S, vs) \in Collecting /\ Grows(S, ForwardAll(S, vs))
         /\ \A i \in 1..n : var[vs[i]] # 0 => vs[i] \in ForwardAll(S, vs).marked
<1> DEFINE X == Collecting
           Turn == [t \in (0..n - 1) \X X |-> safe_forward(t[2], vs[t[1] + 1])]
           Is(f) == f = [k \in 0..n |-> IF k = 0 THEN S ELSE safe_forward(f[k - 1], vs[k])]
<1>1. \A k \in 0..n - 1 : k + 1 \in 1..n /\ vs[k + 1] \in CVars
  OBVIOUS
<1>2. Turn \in Bodies(0..n - 1, X)
  <2>1. \A k \in 0..n - 1, t \in X : safe_forward(t, vs[k + 1]) \in X
    BY <1>1, Forwarding
  <2> HIDE DEF X
  <2> QED BY <2>1 DEF Bodies
<1>3. \A k \in 0..n - 1, t \in X : Turn[<<k, t>>] = safe_forward(t, vs[k + 1])
  OBVIOUS
<1> HIDE DEF X, Turn
<1>4. PICK g \in [0..n -> X] : IsLoop(g, 0..n - 1, X, S, Turn)
  <2>1. S \in X
    BY DEF X
  <2> QED BY <1>2, <2>1, Loop
<1>5. g[0] = S /\ \A k \in 0..n - 1 : g[k] \in X /\ g[k + 1] = safe_forward(g[k], vs[k + 1])
  BY <1>3, <1>4 DEF IsLoop
<1>6. Is(g)
  <2>1. ASSUME NEW k \in 0..n PROVE g[k] = IF k = 0 THEN S ELSE safe_forward(g[k - 1], vs[k])
    <3>1. k = 0 \/ (k - 1 \in 0..n - 1 /\ (k - 1) + 1 = k)
      OBVIOUS
    <3> QED BY <1>5, <3>1
  <2>2. g = [k \in 0..n |-> g[k]]
    BY <1>4
  <2> QED BY <2>1, <2>2
<1> DEFINE f == CHOOSE f : Is(f)
<1>7. ForwardAll(S, vs) = f[n]
  BY DEF ForwardAll
<1>8. Is(f)
  <2> HIDE DEF Is
  <2> QED BY <1>6
<1> HIDE DEF f
<1>9. \A k \in 0..n : f[k] = IF k = 0 THEN S ELSE safe_forward(f[k - 1], vs[k])
  BY <1>8
<1> DEFINE T == {k \in 0..n : f[k] \in X /\ Grows(S, f[k]) /\ \A i \in 1..k : var[vs[i]] # 0 => vs[i] \in f[k].marked}
<1>10. 0 \in T
  <2>1. f[0] = S
    BY <1>9
  <2>2. Grows(S, S)
    BY DEF Grows
  <2> QED BY <2>1, <2>2 DEF X
<1>11. ASSUME NEW k \in 0..n - 1, k \in T PROVE k + 1 \in T
  <2>1. k + 1 \in 0..n /\ k + 1 # 0 /\ (k + 1) - 1 = k
    OBVIOUS
  <2>2. f[k + 1] = safe_forward(f[k], vs[k + 1])
    BY <1>9, <2>1
  <2>3. f[k] \in Collecting /\ Grows(S, f[k]) /\ \A i \in 1..k : var[vs[i]] # 0 => vs[i] \in f[k].marked
    BY <1>11 DEF X
  <2>4. vs[k + 1] \in CVars
    BY <1>1
  <2>5. f[k + 1] \in Collecting /\ Grows(f[k], f[k + 1]) /\ (var[vs[k + 1]] # 0 => vs[k + 1] \in f[k + 1].marked)
    BY <2>2, <2>3, <2>4, Forwarding
  <2>6. Grows(S, f[k + 1])
    <3>1. S \in States
      BY DEF Collecting
    <3> QED BY <2>3, <2>5, <3>1, GrowsAgain
  <2>7. ASSUME NEW i \in 1..k + 1, var[vs[i]] # 0 PROVE vs[i] \in f[k + 1].marked
    <3>1. CASE i = k + 1
      BY <2>5, <2>7, <3>1
    <3>2. CASE i # k + 1
      <4>1. i \in 1..k
        BY <3>2
      <4> QED BY <2>3, <2>5, <2>7, <4>1 DEF Grows
    <3> QED BY <3>1, <3>2
  <2> QED BY <2>1, <2>5, <2>6, <2>7 DEF X
<1>12. n \in T
  <2>1. \A k \in 0..n : k \in T
    <3> HIDE DEF T
    <3> QED BY <1>10, <1>11, InductionUpto
  <2> QED BY <2>1
<1>13. f[n] \in Collecting /\ Grows(S, f[n]) /\ \A i \in 1..n : var[vs[i]] # 0 => vs[i] \in f[n].marked
  BY <1>12 DEF X
<1> QED BY <1>7, <1>13(***************************************************************************)
(* The roots of a collection                                               *)
(***************************************************************************)
LEMMA DynObjectsFacts ==
  ASSUME Ends, dyn \in Dynpros, IsRing(dyn)
  PROVE  \E L : /\ IsOrder(L, LinkedIn(dyn)) /\ Len(DynObjects) = Len(L)
                /\ \A i \in 1..Len(L) : DynObjects[i] = dyn[L[i]].obj
<1> DEFINE S == LinkedIn(dyn)
           X == S \cup {HEAD}
           C == Cardinality(Nodes)
           Turn == [t \in (0..C - 1) \X X |-> dyn[t[2]].next]
           Is(f) == f = [n \in 0..C |-> IF n = 0 THEN dyn[HEAD].next ELSE dyn[f[n - 1]].next]
<1>1. PICK L : IsOrder(L, S) /\ Ring(dyn, L)
  BY DEF IsRing
<1>2. S \in SUBSET Nodes /\ IsFiniteSet(S) /\ IsFiniteSet(Nodes) /\ HEAD \notin S
  BY LinkedFinite DEF LinkedIn, Ends
<1> HIDE DEF S
<1>3. /\ Len(L) \in Nat /\ Around(L, 0) = HEAD /\ Around(L, Len(L) + 1) = HEAD
      /\ \A i \in 1..Len(L) : Around(L, i) = L[i] /\ Around(L, i) \in S /\ Around(L, i) # HEAD
      /\ \A i \in 0..Len(L) + 1 : Around(L, i) \in S \cup {HEAD}
  BY <1>1, <1>2, AroundFacts
<1>4. C \in Nat /\ Len(L) <= C
  <2>1. Len(L) = Cardinality(S)
    BY <1>1 DEF IsOrder
  <2> QED BY <1>2, <2>1, FS_Subset, FS_CardinalityType
<1>5. \A i \in 0..Len(L) : dyn[Around(L, i)].next = Around(L, i + 1)
  BY <1>1 DEF Ring
<1>6. dyn[HEAD].next = Around(L, 1) /\ Around(L, 1) \in X
  <2>1. 0 \in 0..Len(L) /\ 1 \in 0..Len(L) + 1
    BY <1>3
  <2> QED BY <1>3, <1>5, <2>1
<1>7. \A x \in X : dyn[x].next \in X
  <2> TAKE x \in X
  <2>1. CASE x = HEAD
    BY <1>6, <2>1
  <2>2. CASE x # HEAD
    <3>1. x \in S
      BY <2>2
    <3>2. PICK i \in 1..Len(L) : L[i] = x
      BY <1>1, <1>2, <3>1, OrderOnto
    <3>3. i \in 0..Len(L) /\ i + 1 \in 0..Len(L) + 1
      BY <1>3
    <3> QED BY <1>3, <1>5, <3>2, <3>3
  <2> QED BY <2>1, <2>2
<1> HIDE DEF C
<1>8. Turn \in Bodies(0..C - 1, X)
  <2> HIDE DEF X
  <2> QED BY <1>7 DEF Bodies
<1>9. \A k \in 0..C - 1, t \in X : Turn[<<k, t>>] = dyn[t].next
  OBVIOUS
<1> HIDE DEF X, Turn
<1>10. PICK g \in [0..C -> X] : IsLoop(g, 0..C - 1, X, dyn[HEAD].next, Turn)
  BY <1>4, <1>6, <1>8, Loop
<1>11. g[0] = dyn[HEAD].next /\ \A k \in 0..C - 1 : g[k] \in X /\ g[k + 1] = dyn[g[k]].next
  BY <1>9, <1>10 DEF IsLoop
<1>12. Is(g)
  <2>1. ASSUME NEW k \in 0..C PROVE g[k] = IF k = 0 THEN dyn[HEAD].next ELSE dyn[g[k - 1]].next
    <3>1. k = 0 \/ (k - 1 \in 0..C - 1 /\ (k - 1) + 1 = k)
      BY <1>4
    <3> QED BY <1>11, <3>1
  <2>2. g = [k \in 0..C |-> g[k]]
    BY <1>10
  <2> QED BY <2>1, <2>2
<1> DEFINE at == CHOOSE f : Is(f)
           Ends0(n) == at[n] = HEAD /\ \A k \in 0..n - 1 : at[k] # HEAD
           all == CHOOSE n \in 0..C : Ends0(n)
<1>13. DynObjects = [i \in 1..all |-> dyn[at[i - 1]].obj]
  BY DEF DynObjects, C
<1>14. Is(at)
  <2> HIDE DEF Is
  <2> QED BY <1>12
<1> HIDE DEF at
<1>15. \A k \in 0..C : at[k] = IF k = 0 THEN dyn[HEAD].next ELSE dyn[at[k - 1]].next
  BY <1>14
<1> DEFINE T == {k \in 0..Len(L) : at[k] = Around(L, k + 1)}
<1>16. 0 \in T
  BY <1>3, <1>4, <1>6, <1>15
<1>17. ASSUME NEW k \in 0..Len(L) - 1, k \in T PROVE k + 1 \in T
  <2>1. k + 1 \in 0..Len(L) /\ k + 1 \in 0..C /\ k + 1 # 0 /\ (k + 1) - 1 = k
    BY <1>3, <1>4
  <2>2. at[k + 1] = dyn[at[k]].next
    BY <1>15, <2>1
  <2>3. at[k + 1] = Around(L, (k + 1) + 1)
    BY <1>5, <1>17, <2>1, <2>2
  <2> QED BY <2>1, <2>3
<1>18. \A k \in 0..Len(L) : at[k] = Around(L, k + 1)
  <2>1. \A k \in 0..Len(L) : k \in T
    <3> HIDE DEF T
    <3> QED BY <1>3, <1>16, <1>17, InductionUpto
  <2> QED BY <2>1
<1>19. \A k \in 0..Len(L) - 1 : k + 1 \in 1..Len(L) /\ at[k] = L[k + 1] /\ at[k] # HEAD
  <2> TAKE k \in 0..Len(L) - 1
  <2>1. k \in 0..Len(L) /\ k + 1 \in 1..Len(L)
    BY <1>3
  <2> QED BY <1>3, <1>18, <2>1
<1>20. Len(L) \in 0..C /\ Ends0(Len(L))
  <2>1. Len(L) \in 0..Len(L) /\ Len(L) \in 0..C
    BY <1>3, <1>4
  <2>2. at[Len(L)] = HEAD
    BY <1>3, <1>18, <2>1
  <2> QED BY <1>19, <2>1, <2>2
<1>21. \A n \in 0..C : Ends0(n) => n = Len(L)
  <2> TAKE n \in 0..C
  <2> HAVE Ends0(n)
  <2>1. CASE n < Len(L)
    <3>1. n \in 0..Len(L) - 1
      BY <1>3, <2>1
    <3> QED BY <1>19, <3>1
  <2>2. CASE n > Len(L)
    <3>1. Len(L) \in 0..n - 1
      BY <1>3, <1>4, <2>2
    <3> QED BY <1>20, <3>1
  <2> QED BY <1>3, <1>4, <2>1, <2>2
<1>22. all = Len(L)
  <2> HIDE DEF Ends0
  <2> QED BY <1>20, <1>21
<1> HIDE DEF all
<1>23. Len(DynObjects) = Len(L) /\ \A i \in 1..Len(L) : DynObjects[i] = dyn[L[i]].obj
  <2>1. DynObjects = [i \in 1..Len(L) |-> dyn[at[i - 1]].obj]
    BY <1>13, <1>22
  <2>2. Len(DynObjects) = Len(L)
    BY <1>3, <2>1
  <2>3. ASSUME NEW i \in 1..Len(L) PROVE DynObjects[i] = dyn[L[i]].obj
    <3>1. i - 1 \in 0..Len(L) - 1 /\ (i - 1) + 1 = i
      BY <1>3
    <3> QED BY <1>19, <2>1, <3>1
  <2> QED BY <2>2, <2>3
<1> QED BY <1>1, <1>23 DEF S

\* A sequence from its end
LEMMA ReverseFacts ==
  ASSUME NEW R, NEW s \in Seq(R)
  PROVE  /\ Len(s) \in Nat /\ Len(Reverse(s)) = Len(s)
         /\ \A i \in 1..Len(s) : s[i] \in R /\ Reverse(s)[i] \in R
         /\ \A i \in 1..Len(s) : Len(s) - i + 1 \in 1..Len(s) /\ Reverse(s)[i] = s[Len(s) - i + 1]
         /\ \A i \in 1..Len(s) : Reverse(s)[Len(s) - i + 1] = s[i]
<1>1. Len(s) \in Nat /\ \A i \in 1..Len(s) : s[i] \in R
  BY LenProperties
<1>2. \A i \in 1..Len(s) : Len(s) - i + 1 \in 1..Len(s) /\ Len(s) - (Len(s) - i + 1) + 1 = i
  BY <1>1
<1>3. Reverse(s) = [i \in 1..Len(s) |-> s[Len(s) - i + 1]]
  BY DEF Reverse
<1>4. Len(Reverse(s)) = Len(s)
  BY <1>1, <1>3
<1> QED BY <1>1, <1>2, <1>3, <1>4

NoneMoved == [new |-> <<>>, fwd |-> [p \in DOMAIN heap |-> 0], var |-> var, marked |-> {}]

LEMMA CollectionStarts ==
  ASSUME Roots0
  PROVE  NoneMoved \in Collecting
<1> DEFINE S == NoneMoved
           fwd == [p \in 1..Len(heap) |-> 0]
<1>1. <<>> \in Seq(Blocks) /\ Len(<<>>) = 0 /\ DOMAIN heap = 1..Len(heap) /\ Len(heap) \in Nat
  BY HeapFacts DEF Roots0
<1>2. S = [new |-> <<>>, fwd |-> fwd, var |-> var, marked |-> {}]
  BY <1>1 DEF NoneMoved
<1>3. fwd \in [1..Len(heap) -> Nat] /\ \A p \in 1..Len(heap) : fwd[p] = 0
  BY <1>1
<1> HIDE DEF S, fwd
<1>4. IsState(S, <<>>, fwd, var, {})
  <2>1. var \in [CVars -> Nat] /\ {} \in SUBSET CVars /\ <<>> \in Seq(Blocks)
    BY <1>1 DEF Roots0
  <2> QED BY <1>2, <1>3, <2>1, MakeState
<1>5. S \in States /\ S.new = <<>> /\ S.fwd = fwd /\ S.var = var /\ S.marked = {}
  BY <1>4 DEF IsState
<1>6. Places(S.new, S.fwd)
  BY <1>1, <1>3, <1>5 DEF Places
<1>7. MarkedMoved(S.var, S.marked, S.fwd)
  BY <1>5 DEF MarkedMoved
<1> QED BY <1>5, <1>6, <1>7 DEF Collecting, S

LEMMA RootsForwarded ==
  ASSUME RootsAssumptions, Roots0, dyn \in Dynpros, IsRing(dyn), \A d \in Nodes : Live(dyn[d].obj),
         locals \in Seq(Nat), \A i \in 1..Len(locals) : Live(locals[i]), gcpro \in Seq(CVars)
  PROVE  /\ forward_roots \in Collecting
         /\ \A v \in Protected(gcpro) : var[v] # 0 => v \in forward_roots.marked
         /\ \A d \in LinkedIn(dyn) : Moved0(forward_roots, dyn[d].obj)
         /\ \A i \in 1..Len(locals) : Moved0(forward_roots, locals[i])
<1> DEFINE S1 == ForwardAll(NoneMoved, roots)
           S2 == MoveAll(S1, DynObjects)
           S3 == ForwardAll(S2, Reverse(gcpro))
           S4 == MoveAll(S3, Reverse(locals))
<1>1. forward_roots = S4
  BY DEF forward_roots, NoneMoved
<1>2. Ends /\ roots \in Seq(CVars)
  BY DEF RootsAssumptions, Ends
<1>3. S1 \in Collecting /\ \A i \in 1..Len(roots) : var[roots[i]] # 0 => roots[i] \in S1.marked
  <2>1. Len(roots) \in Nat /\ \A i \in 1..Len(roots) : roots[i] \in CVars
    BY <1>2, LenProperties
  <2>2. NoneMoved \in Collecting
    BY CollectionStarts
  <2> QED BY <2>1, <2>2, ForwardingAll
<1> HIDE DEF S1
<1>4. PICK L : /\ IsOrder(L, LinkedIn(dyn)) /\ Len(DynObjects) = Len(L)
               /\ \A i \in 1..Len(L) : DynObjects[i] = dyn[L[i]].obj
  BY <1>2, DynObjectsFacts
<1>5. /\ Len(L) \in Nat /\ \A i \in 1..Len(L) : L[i] \in LinkedIn(dyn) /\ L[i] \in Nodes
      /\ IsFiniteSet(LinkedIn(dyn))
  <2>1. IsFiniteSet(LinkedIn(dyn))
    BY <1>2, LinkedFinite
  <2>2. LinkedIn(dyn) \subseteq Nodes
    BY DEF LinkedIn
  <2> QED BY <1>4, <2>1, <2>2, OrderFacts
<1>6. S2 \in Collecting /\ Grows(S1, S2) /\ \A i \in 1..Len(L) : Moved0(S2, DynObjects[i])
  <2>1. \A i \in 1..Len(L) : Live(DynObjects[i])
    BY <1>4, <1>5
  <2> QED BY <1>3, <1>4, <1>5, <2>1, MovingAll
<1> HIDE DEF S2
<1>7. \A d \in LinkedIn(dyn) : Moved0(S2, dyn[d].obj)
  <2> TAKE d \in LinkedIn(dyn)
  <2>1. PICK i \in 1..Len(L) : L[i] = d
    BY <1>4, <1>5, OrderOnto
  <2> QED BY <1>4, <1>6, <2>1
<1>8. /\ S3 \in Collecting /\ Grows(S2, S3)
      /\ \A i \in 1..Len(gcpro) : var[gcpro[i]] # 0 => gcpro[i] \in S3.marked
  <2>1. /\ Len(gcpro) \in Nat /\ Len(Reverse(gcpro)) = Len(gcpro)
        /\ \A i \in 1..Len(gcpro) : Reverse(gcpro)[i] \in CVars
        /\ \A i \in 1..Len(gcpro) : Len(gcpro) - i + 1 \in 1..Len(gcpro) /\ Reverse(gcpro)[Len(gcpro) - i + 1] = gcpro[i]
    BY ReverseFacts
  <2>2. /\ S3 \in Collecting /\ Grows(S2, S3)
        /\ \A i \in 1..Len(gcpro) : var[Reverse(gcpro)[i]] # 0 => Reverse(gcpro)[i] \in S3.marked
    BY <1>6, <2>1, ForwardingAll
  <2> HIDE DEF S3
  <2>3. ASSUME NEW i \in 1..Len(gcpro), var[gcpro[i]] # 0 PROVE gcpro[i] \in S3.marked
    BY <2>1, <2>2, <2>3
  <2> QED BY <2>2, <2>3
<1> HIDE DEF S3
<1>9. S4 \in Collecting /\ Grows(S3, S4) /\ \A i \in 1..Len(locals) : Moved0(S4, locals[i])
  <2>1. /\ Len(locals) \in Nat /\ Len(Reverse(locals)) = Len(locals)
        /\ \A i \in 1..Len(locals) : Len(locals) - i + 1 \in 1..Len(locals) /\ Reverse(locals)[i] = locals[Len(locals) - i + 1]
        /\ \A i \in 1..Len(locals) : Len(locals) - i + 1 \in 1..Len(locals) /\ Reverse(locals)[Len(locals) - i + 1] = locals[i]
    BY ReverseFacts
  <2>2. \A i \in 1..Len(locals) : Live(Reverse(locals)[i])
    BY <2>1
  <2>3. S4 \in Collecting /\ Grows(S3, S4) /\ \A i \in 1..Len(locals) : Moved0(S4, Reverse(locals)[i])
    BY <1>8, <2>1, <2>2, MovingAll
  <2> HIDE DEF S4
  <2>4. ASSUME NEW i \in 1..Len(locals) PROVE Moved0(S4, locals[i])
    BY <2>1, <2>3
  <2> QED BY <2>3, <2>4
<1> HIDE DEF S4
<1>10. Grows(S2, S4) /\ Grows(S1, S4)
  <2>1. S1 \in States /\ S2 \in States
    BY <1>3, <1>6 DEF Collecting
  <2>2. Grows(S2, S4)
    BY <1>8, <1>9, <2>1, GrowsAgain
  <2> QED BY <1>6, <2>1, <2>2, GrowsAgain
<1>11. ASSUME NEW v \in Protected(gcpro), var[v] # 0 PROVE v \in S4.marked
  <2>1. CASE v \in ToSet(roots)
    <3>1. PICK i \in 1..Len(roots) : roots[i] = v
      BY <1>2, <2>1, LenProperties DEF ToSet
    <3> QED BY <1>3, <1>10, <1>11, <3>1 DEF Grows
  <2>2. CASE v \in ToSet(gcpro)
    <3>1. PICK i \in 1..Len(gcpro) : gcpro[i] = v
      BY <2>2, LenProperties DEF ToSet
    <3> QED BY <1>8, <1>9, <1>11, <3>1 DEF Grows
  <2> QED BY <1>11, <2>1, <2>2 DEF Protected
<1>12. ASSUME NEW d \in LinkedIn(dyn) PROVE Moved0(S4, dyn[d].obj)
  <2>1. Moved0(S2, dyn[d].obj) /\ Live(dyn[d].obj)
    BY <1>7 DEF LinkedIn
  <2> QED BY <1>10, <2>1 DEF Moved0, Live, Grows
<1> QED BY <1>1, <1>9, <1>11, <1>12

(***************************************************************************)
(* What holds of a heap and of all that points into it                     *)
(***************************************************************************)
FrameOf(fr, i) == IF i \in 1..Len(fr) THEN fr[i] ELSE 0
ObjsOf(D) == [d \in Nodes |-> D[d].obj]
Good(h, lists, vr, fr, ob, vecs) ==
  /\ IsHeap(h) /\ lists \in [0..FREE_SIZES - 1 -> Nat] /\ vr \in [CVars -> Nat]
  /\ fr \in Seq(Nat) /\ ob \in [Nodes -> Nat]
  /\ \A v \in CVars : Owns(h, Var(v), vr[v])
  /\ \A d \in Nodes : Owns(h, Dyn(d), ob[d])
  /\ \A i \in Nat : Owns(h, Local(i), FrameOf(fr, i))
  /\ (\A i \in 1..Len(fr) : fr[i] # 0)
  /\ VectorsApart(h, vecs) /\ AllListed(h, lists)

\* Each function has its own part of n locals, after those of the functions
\* that called it
Bases(bs, n) == /\ bs \in Seq(Nat) /\ \A k \in 1..Len(bs) : bs[k] <= n
                /\ \A j, k \in 1..Len(bs) : j <= k => bs[j] <= bs[k]

RootsInv ==
  /\ Good(heap, free_lists, var, locals, ObjsOf(dyn), Vectors)
  /\ Bases(bases, Len(locals))
  /\ gcpro \in Seq(CVars) /\ dyn \in Dynpros /\ IsRing(dyn)
  /\ \A v \in CVars \ Protected(gcpro) : var[v] = 0
  /\ \A d \in Nodes \ LinkedIn(dyn) : dyn[d].obj = 0
  /\ \A d \in Maybe : d \in LinkedIn(dyn) <=> dyn[d].obj # 0

LEMMA MovedOwns ==
  ASSUME IsHeap(heap), NEW S \in Collecting, NEW r, NEW p \in Nat, Owns(heap, r, p), Moved0(S, p)
  PROVE  Owns(S.new, r, NewPlace(S, p)) /\ NewPlace(S, p) \in Nat /\ (NewPlace(S, p) = 0 <=> p = 0)
<1>1. /\ Places(S.new, S.fwd) /\ S.new \in Seq(Blocks) /\ S.fwd \in [1..Len(heap) -> Nat]
      /\ Len(S.new) \in Nat /\ Len(heap) \in Nat
  BY StateFacts, LenProperties, HeapFacts DEF Collecting
<1>2. CASE p = 0
  <2>1. \A q \in 1..Len(S.new) : r \notin S.new[q].who
    <3> TAKE q \in 1..Len(S.new)
    <3>1. PICK k \in 1..Len(heap) : S.fwd[k] = q
      BY <1>1 DEF Places
    <3>2. q # 0 /\ S.new[q] = heap[k]
      BY <1>1, <3>1 DEF Places
    <3>3. k # 0
      BY <1>1
    <3> QED BY <1>2, <3>2, <3>3 DEF Owns
  <2> QED BY <1>1, <1>2, <2>1 DEF Owns, NewPlace
<1>3. CASE p # 0
  <2>1. p \in 1..Len(heap) /\ S.fwd[p] # 0 /\ NewPlace(S, p) = S.fwd[p]
    BY <1>3 DEF Owns, Moved0, NewPlace
  <2>2. S.fwd[p] \in 1..Len(S.new) /\ S.new[S.fwd[p]] = heap[p] /\ ~heap[p].free
    BY <1>1, <2>1 DEF Places
  <2>3. ASSUME NEW q \in 1..Len(S.new) PROVE r \in S.new[q].who <=> q = S.fwd[p]
    <3>1. PICK k \in 1..Len(heap) : S.fwd[k] = q
      BY <1>1 DEF Places
    <3>2. q # 0 /\ S.new[q] = heap[k]
      BY <1>1, <3>1 DEF Places
    <3>3. r \in heap[k].who <=> k = p
      BY DEF Owns
    <3>4. q = S.fwd[p] => k = p
      BY <1>1, <2>1, <3>1, <3>2 DEF Places
    <3> QED BY <3>1, <3>2, <3>3, <3>4
  <2> QED BY <1>1, <1>3, <2>1, <2>2, <2>3 DEF Owns
<1> QED BY <1>2, <1>3

\* What is protected is alive
LEMMA InvFacts ==
  ASSUME RootsAssumptions, RootsInv
  PROVE  /\ Roots0 /\ Ends
         /\ \A v \in CVars : Live(var[v]) /\ var[v] \in Nat
         /\ \A d \in Nodes : Live(dyn[d].obj) /\ dyn[d].obj \in Nat /\ ObjsOf(dyn)[d] = dyn[d].obj
         /\ \A i \in 1..Len(locals) : Live(locals[i]) /\ locals[i] \in Nat /\ FrameOf(locals, i) = locals[i]
<1>1. Good(heap, free_lists, var, locals, ObjsOf(dyn), Vectors) /\ dyn \in Dynpros
  BY DEF RootsInv
<1>2. \A r, p : Owns(heap, r, p) => Live(p)
  BY DEF Owns, Live
<1>3. \A v \in CVars : Live(var[v]) /\ var[v] \in Nat
  BY <1>1, <1>2 DEF Good
<1>4. \A d \in Nodes : Live(dyn[d].obj) /\ dyn[d].obj \in Nat /\ ObjsOf(dyn)[d] = dyn[d].obj
  <2> TAKE d \in Nodes
  <2>1. ObjsOf(dyn)[d] = dyn[d].obj
    BY DEF ObjsOf
  <2>2. Owns(heap, Dyn(d), ObjsOf(dyn)[d]) /\ ObjsOf(dyn)[d] \in Nat
    BY <1>1 DEF Good
  <2> QED BY <1>2, <2>1, <2>2
<1>5. \A i \in 1..Len(locals) : Live(locals[i]) /\ locals[i] \in Nat /\ FrameOf(locals, i) = locals[i]
  <2> TAKE i \in 1..Len(locals)
  <2>1. locals \in Seq(Nat) /\ i \in Nat
    BY <1>1, LenProperties DEF Good
  <2>2. FrameOf(locals, i) = locals[i] /\ locals[i] \in Nat
    BY <2>1, LenProperties DEF FrameOf
  <2>3. Owns(heap, Local(i), FrameOf(locals, i))
    BY <1>1, <2>1 DEF Good
  <2> QED BY <1>2, <2>2, <2>3
<1>6. Roots0
  BY <1>1, <1>3 DEF Good, Roots0
<1>7. Ends
  BY DEF RootsAssumptions, Ends
<1> QED BY <1>3, <1>4, <1>5, <1>6, <1>7

GoodState(h) == Good(h.heap, h.lists, h.var, h.locals, h.obj, Vectors)
Unprotected(h) == /\ \A v \in CVars \ Protected(gcpro) : h.var[v] = 0
                  /\ \A d \in Nodes : h.obj[d] = 0 <=> dyn[d].obj = 0
                  /\ Len(h.locals) = Len(locals)

LEMMA NoneFree ==
  ASSUME NEW h, IsHeap(h), \A p \in 1..Len(h) : ~h[p].free
  PROVE  AllListed(h, [s \in 0..FREE_SIZES - 1 |-> 0])
<1> SUFFICES ASSUME NEW n \in 0..FREE_SIZES - 1 PROVE Listed(h, 0, n)
  BY DEF AllListed
<1>1. FreeOf(h, n) = {}
  BY DEF FreeOf
<1>2. IsOrder(<<>>, {})
  BY FS_EmptySet DEF IsOrder
<1>3. Chained(h, 0, <<>>)
  BY DEF Chained
<1> QED BY <1>1, <1>2, <1>3 DEF Listed

LEMMA AfterCollectionFacts ==
  ASSUME RootsAssumptions, RootsInv
  PROVE  GoodState(AfterCollection) /\ Unprotected(AfterCollection)
<1> DEFINE S == forward_roots
           lists == [s \in 0..FREE_SIZES - 1 |-> 0]
           fr == [i \in 1..Len(locals) |-> NewPlace(S, locals[i])]
           ob == [d \in Nodes |-> NewPlace(S, dyn[d].obj)]
<1>1. /\ Roots0 /\ Ends
      /\ \A v \in CVars : Live(var[v]) /\ var[v] \in Nat
      /\ \A d \in Nodes : Live(dyn[d].obj) /\ dyn[d].obj \in Nat /\ ObjsOf(dyn)[d] = dyn[d].obj
      /\ \A i \in 1..Len(locals) : Live(locals[i]) /\ locals[i] \in Nat /\ FrameOf(locals, i) = locals[i]
  BY InvFacts
<1>2. /\ IsHeap(heap) /\ free_lists \in [0..FREE_SIZES - 1 -> Nat] /\ locals \in Seq(Nat)
      /\ gcpro \in Seq(CVars) /\ dyn \in Dynpros /\ IsRing(dyn) /\ VectorsApart(heap, Vectors)
      /\ Len(locals) \in Nat /\ DOMAIN locals = 1..Len(locals)
  BY LenProperties DEF RootsInv, Good
<1>3. /\ S \in Collecting
      /\ \A v \in Protected(gcpro) : var[v] # 0 => v \in S.marked
      /\ \A d \in LinkedIn(dyn) : Moved0(S, dyn[d].obj)
      /\ \A i \in 1..Len(locals) : Moved0(S, locals[i])
  BY <1>1, <1>2, RootsForwarded
<1>4. AfterCollection = [heap |-> S.new, lists |-> lists, var |-> S.var, locals |-> fr, obj |-> ob]
  BY <1>2 DEF AfterCollection
<1> HIDE DEF S
<1>5. /\ S.new \in Seq(Blocks) /\ S.var \in [CVars -> Nat] /\ S.marked \in SUBSET CVars /\ Len(S.new) \in Nat
      /\ Places(S.new, S.fwd) /\ MarkedMoved(S.var, S.marked, S.fwd) /\ S.fwd \in [1..Len(heap) -> Nat]
  BY <1>3, StateFacts, LenProperties DEF Collecting
<1>6. \A v \in CVars : Owns(S.new, Var(v), S.var[v]) /\ (var[v] = 0 => S.var[v] = 0)
  <2> TAKE v \in CVars
  <2>1. Owns(heap, Var(v), var[v])
    BY DEF RootsInv, Good
  <2>2. Moved0(S, var[v]) /\ S.var[v] = NewPlace(S, var[v])
    <3>1. CASE v \in S.marked
      BY <1>5, <3>1 DEF MarkedMoved, Moved0, NewPlace
    <3>2. CASE v \notin S.marked
      <4>1. var[v] = 0
        BY <1>3, <3>2 DEF RootsInv
      <4> QED BY <1>5, <3>2, <4>1 DEF MarkedMoved, Moved0, NewPlace
    <3> QED BY <3>1, <3>2
  <2>3. Owns(S.new, Var(v), NewPlace(S, var[v]))
    BY <1>1, <1>2, <1>3, <2>1, <2>2, MovedOwns
  <2> QED BY <2>2, <2>3 DEF NewPlace
<1>7. \A d \in Nodes : Owns(S.new, Dyn(d), ob[d]) /\ ob[d] \in Nat /\ (ob[d] = 0 <=> dyn[d].obj = 0)
  <2> TAKE d \in Nodes
  <2>1. Owns(heap, Dyn(d), dyn[d].obj)
    BY <1>1 DEF RootsInv, Good
  <2>2. Moved0(S, dyn[d].obj)
    BY <1>3 DEF RootsInv, Moved0
  <2>3. ob[d] = NewPlace(S, dyn[d].obj)
    OBVIOUS
  <2> QED BY <1>1, <1>2, <1>3, <2>1, <2>2, <2>3, MovedOwns
<1>8. \A i \in 1..Len(locals) : Owns(S.new, Local(i), fr[i]) /\ fr[i] \in Nat /\ fr[i] # 0
  <2> TAKE i \in 1..Len(locals)
  <2>1. Owns(heap, Local(i), locals[i]) /\ locals[i] # 0
    BY <1>1 DEF RootsInv, Good
  <2>2. fr[i] = NewPlace(S, locals[i])
    OBVIOUS
  <2> QED BY <1>1, <1>2, <1>3, <2>1, <2>2, MovedOwns
<1>9. fr \in Seq(Nat) /\ Len(fr) = Len(locals) /\ ob \in [Nodes -> Nat]
  <2>1. fr \in [1..Len(locals) -> Nat] /\ ob \in [Nodes -> Nat]
    <3>1. \A i \in 1..Len(locals) : NewPlace(S, locals[i]) \in Nat
      BY <1>8
    <3>2. \A d \in Nodes : NewPlace(S, dyn[d].obj) \in Nat
      BY <1>7
    <3> QED BY <3>1, <3>2
  <2>2. Len(locals) \in Nat
    BY <1>2
  <2> HIDE DEF fr, ob
  <2> QED BY <2>1, <2>2
<1> HIDE DEF fr, ob
<1>10. \A i \in Nat : Owns(S.new, Local(i), FrameOf(fr, i))
  <2> TAKE i \in Nat
  <2>1. CASE i \in 1..Len(locals)
    BY <1>8, <1>9, <2>1 DEF FrameOf
  <2>2. CASE i \notin 1..Len(locals)
    <3>1. Owns(heap, Local(i), 0) /\ Moved0(S, 0) /\ NewPlace(S, 0) = 0
      BY <2>2 DEF RootsInv, Good, FrameOf, Moved0, NewPlace
    <3>2. Owns(S.new, Local(i), NewPlace(S, 0))
      BY <1>2, <1>3, <3>1, MovedOwns
    <3> QED BY <1>9, <2>2, <3>1, <3>2 DEF FrameOf
  <2> QED BY <2>1, <2>2
<1>11. ASSUME NEW q \in 1..Len(S.new) PROVE \E p \in 1..Len(heap) : S.new[q] = heap[p] /\ ~heap[p].free
  <2>1. PICK p \in 1..Len(heap) : S.fwd[p] = q
    BY <1>5 DEF Places
  <2>2. q # 0
    BY <1>5
  <2> QED BY <1>5, <2>1, <2>2 DEF Places
<1>12. VectorsApart(S.new, Vectors)
  <2> SUFFICES ASSUME NEW q \in 1..Len(S.new), NEW i \in Vectors, Local(i) \in S.new[q].who
               PROVE  S.new[q].who = {Local(i)}
    BY DEF VectorsApart
  <2>1. PICK p \in 1..Len(heap) : S.new[q] = heap[p]
    BY <1>11
  <2> QED BY <1>2, <2>1 DEF VectorsApart
<1>13. IsHeap(S.new) /\ AllListed(S.new, lists)
  <2>1. IsHeap(S.new)
    BY <1>5 DEF IsHeap
  <2>2. \A p \in 1..Len(S.new) : ~S.new[p].free
    BY <1>11
  <2> QED BY <2>1, <2>2, NoneFree
<1>14. lists \in [0..FREE_SIZES - 1 -> Nat]
  OBVIOUS
<1> HIDE DEF lists
<1>15. Good(S.new, lists, S.var, fr, ob, Vectors)
  BY <1>5, <1>6, <1>7, <1>8, <1>9, <1>10, <1>12, <1>13, <1>14 DEF Good
<1>16. /\ AfterCollection.heap = S.new /\ AfterCollection.lists = lists /\ AfterCollection.var = S.var
       /\ AfterCollection.locals = fr /\ AfterCollection.obj = ob
  BY <1>4
<1>17. Unprotected(AfterCollection)
  BY <1>6, <1>7, <1>9, <1>16 DEF Unprotected, RootsInv
<1> QED BY <1>15, <1>16, <1>17 DEF GoodState

LEMMA NowFacts ==
  ASSUME RootsAssumptions, RootsInv
  PROVE  GoodState(Now) /\ Unprotected(Now)
<1>1. /\ Now.heap = heap /\ Now.lists = free_lists /\ Now.var = var /\ Now.locals = locals
      /\ Now.obj = ObjsOf(dyn)
  BY DEF Now, ObjsOf
<1>2. \A d \in Nodes : ObjsOf(dyn)[d] = dyn[d].obj
  BY DEF ObjsOf
<1> QED BY <1>1, <1>2 DEF GoodState, Unprotected, RootsInv

\* The objects that a collection moves stay in their places in the list
LEMMA ObjsFacts ==
  ASSUME RootsAssumptions, RootsInv, NEW h, GoodState(h), Unprotected(h)
  PROVE  /\ Objs(h) \in Dynpros /\ IsRing(Objs(h)) /\ LinkedIn(Objs(h)) = LinkedIn(dyn)
         /\ ObjsOf(Objs(h)) = h.obj
         /\ \A d \in Nodes \ LinkedIn(dyn) : Objs(h)[d].obj = 0
         /\ \A d \in Maybe : d \in LinkedIn(dyn) <=> Objs(h)[d].obj # 0
<1> DEFINE E == Objs(h)
           O(x) == IF x = HEAD THEN dyn[x].obj ELSE h.obj[x]
<1>1. /\ DOMAIN dyn = Nodes \cup {HEAD} /\ \A x \in Nodes \cup {HEAD} : dyn[x] \in Dynpro
      /\ Ends /\ IsRing(dyn) /\ dyn \in Dynpros /\ h.obj \in [Nodes -> Nat]
  BY InvFacts DEF RootsInv, Dynpros, GoodState, Good
<1>2. \A x \in Nodes \cup {HEAD} : /\ E[x] \in Dynpro /\ E[x].next = dyn[x].next /\ E[x].prev = dyn[x].prev
                                   /\ E[x].obj = O(x)
  <2> TAKE x \in Nodes \cup {HEAD}
  <2>1. E[x] = IF x = HEAD THEN dyn[x] ELSE [dyn[x] EXCEPT !.obj = h.obj[x]]
    BY <1>1 DEF Objs
  <2> HIDE DEF E
  <2>2. CASE x = HEAD
    BY <1>1, <2>1, <2>2
  <2>3. CASE x # HEAD
    <3>1. x \in Nodes /\ h.obj[x] \in Nat
      BY <1>1, <2>3
    <3>2. E[x] = Entry(dyn[x].next, dyn[x].prev, h.obj[x])
      <4>1. dyn[x] = [next |-> dyn[x].next, prev |-> dyn[x].prev, obj |-> dyn[x].obj]
        BY <1>1 DEF Dynpro
      <4>2. E[x] = [dyn[x] EXCEPT !.obj = h.obj[x]]
        BY <2>1, <2>3
      <4> QED BY <4>1, <4>2 DEF Entry
    <3>3. IsEntry(E[x], dyn[x].next, dyn[x].prev, h.obj[x])
      BY <1>1, <3>1, <3>2, EntryFacts, DynproFacts
    <3> QED BY <2>3, <3>3 DEF IsEntry
  <2> QED BY <2>2, <2>3
<1>3. E = [x \in Nodes \cup {HEAD} |-> E[x]]
  BY <1>1 DEF Objs
<1> HIDE DEF E
<1>4. E \in Dynpros
  BY <1>2, <1>3 DEF Dynpros
<1>5. IsRing(E) /\ LinkedIn(E) = LinkedIn(dyn)
  BY <1>1, <1>2, RingKept
<1>6. \A d \in Nodes : E[d].obj = h.obj[d]
  BY <1>1, <1>2 DEF Ends
<1>7. ObjsOf(E) = h.obj
  BY <1>1, <1>6 DEF ObjsOf
<1>8. \A d \in Nodes \ LinkedIn(dyn) : E[d].obj = 0
  BY <1>6 DEF RootsInv, Unprotected
<1>9. \A d \in Maybe : d \in LinkedIn(dyn) <=> E[d].obj # 0
  <2>1. Maybe \subseteq Nodes
    BY DEF RootsAssumptions
  <2> QED BY <1>6, <2>1 DEF RootsInv, Unprotected
<1> QED BY <1>4, <1>5, <1>7, <1>8, <1>9 DEF E

(***************************************************************************)
(* One holder gets another object                                          *)
(***************************************************************************)
LEMMA VarChanged ==
  ASSUME NEW h, NEW l, NEW vr, NEW fr, NEW ob, NEW vecs, Good(h, l, vr, fr, ob, vecs),
         NEW v \in CVars, NEW p \in Nat, NEW g, IsHeap(g), Owns(g, Var(v), p), VectorsApart(g, vecs),
         \A s, q : s # Var(v) /\ Owns(h, s, q) => Owns(g, s, q),
         NEW m \in [0..FREE_SIZES - 1 -> Nat], AllListed(g, m)
  PROVE  Good(g, m, [vr EXCEPT ![v] = p], fr, ob, vecs)
<1> DEFINE vs == [vr EXCEPT ![v] = p]
<1>1. vs \in [CVars -> Nat] /\ vs[v] = p /\ \A u \in CVars : u # v => vs[u] = vr[u]
  BY DEF Good
<1> HIDE DEF vs
<1>2. \A u \in CVars : Owns(g, Var(u), vs[u])
  <2> TAKE u \in CVars
  <2>1. CASE u = v
    BY <1>1, <2>1
  <2>2. CASE u # v
    <3>1. Var(u) # Var(v) /\ Owns(h, Var(u), vr[u])
      BY <2>2, HolderFacts DEF Good
    <3> QED BY <1>1, <2>2, <3>1
  <2> QED BY <2>1, <2>2
<1>3. \A d \in Nodes : Owns(g, Dyn(d), ob[d])
  BY HolderFacts DEF Good
<1>4. \A i \in Nat : Owns(g, Local(i), FrameOf(fr, i))
  BY HolderFacts DEF Good
<1>5. Good(g, m, vs, fr, ob, vecs)
  BY <1>1, <1>2, <1>3, <1>4 DEF Good
<1> QED BY <1>5 DEF vs

LEMMA DynChanged ==
  ASSUME NEW h, NEW l, NEW vr, NEW fr, NEW ob, NEW vecs, Good(h, l, vr, fr, ob, vecs),
         NEW d \in Nodes, NEW p \in Nat, NEW g, IsHeap(g), SameBlocks(g, h), Owns(g, Dyn(d), p), VectorsApart(g, vecs),
         \A s, q : s # Dyn(d) /\ Owns(h, s, q) => Owns(g, s, q)
  PROVE  Good(g, l, vr, fr, [ob EXCEPT ![d] = p], vecs)
<1> DEFINE os == [ob EXCEPT ![d] = p]
<1>1. os \in [Nodes -> Nat] /\ os[d] = p /\ \A e \in Nodes : e # d => os[e] = ob[e]
  BY DEF Good
<1> HIDE DEF os
<1>2. \A e \in Nodes : Owns(g, Dyn(e), os[e])
  <2> TAKE e \in Nodes
  <2>1. CASE e = d
    BY <1>1, <2>1
  <2>2. CASE e # d
    <3>1. Dyn(e) # Dyn(d) /\ Owns(h, Dyn(e), ob[e])
      BY <2>2, HolderFacts DEF Good
    <3> QED BY <1>1, <2>2, <3>1
  <2> QED BY <2>1, <2>2
<1>3. \A v \in CVars : Owns(g, Var(v), vr[v])
  BY HolderFacts DEF Good
<1>4. \A i \in Nat : Owns(g, Local(i), FrameOf(fr, i))
  BY HolderFacts DEF Good
<1>5. AllListed(g, l)
  BY SameListed DEF Good
<1>6. Good(g, l, vr, fr, os, vecs)
  BY <1>1, <1>2, <1>3, <1>4, <1>5 DEF Good
<1> QED BY <1>6 DEF os

\* A new block
LEMMA Handed ==
  ASSUME NEW h, NEW l, NEW vr, NEW fr, NEW ob, NEW vecs, Good(h, l, vr, fr, ob, vecs), NEW v \in CVars, NEW n \in Nat
  PROVE  Good(Append(Unheld(h, {Var(v)}), Block(n, Var(v))), l, [vr EXCEPT ![v] = Len(h) + 1], fr, ob, vecs)
<1> DEFINE w == Unheld(h, {Var(v)})
           b == Block(n, Var(v))
           g == Append(w, b)
<1>1. IsHeap(h) /\ VectorsApart(h, vecs) /\ AllListed(h, l) /\ l \in [0..FREE_SIZES - 1 -> Nat] /\ Len(h) \in Nat
  BY HeapFacts DEF Good
<1>2. /\ IsHeap(w) /\ SameBlocks(w, h) /\ Owns(w, Var(v), 0) /\ VectorsApart(w, vecs)
      /\ \A r, p : r # Var(v) /\ Owns(h, r, p) => Owns(w, r, p)
  BY <1>1, UnheldFacts, UnheldOwns
<1>3. AllListed(w, l) /\ Len(w) = Len(h)
  BY <1>1, <1>2, SameListed DEF SameBlocks
<1>4. Var(v) \in Holders
  BY HolderFacts
<1> HIDE DEF w
<1>5. b \in Blocks /\ b.free = FALSE
  BY <1>4, BlockFacts
<1>6. /\ Owns(g, Var(v), Len(h) + 1) /\ VectorsApart(g, vecs)
      /\ \A s, q : s # Var(v) /\ Owns(w, s, q) => Owns(g, s, q)
  BY <1>2, <1>3, <1>4, AppendOwns
<1> HIDE DEF b
<1>7. IsHeap(g) /\ AllListed(g, l)
  BY <1>2, <1>3, <1>5, AppendFacts, MoreListed
<1> HIDE DEF g
<1>8. \A s, q : s # Var(v) /\ Owns(h, s, q) => Owns(g, s, q)
  BY <1>2, <1>6
<1>9. Good(g, l, [vr EXCEPT ![v] = Len(h) + 1], fr, ob, vecs)
  <2>1. Len(h) + 1 \in Nat
    BY <1>1
  <2> QED BY <1>1, <1>6, <1>7, <1>8, <2>1, VarChanged
<1> QED BY <1>9 DEF g, w, b

\* A block of a free list, for somebody who holds nothing
LEMMA Filled ==
  ASSUME FREE_SIZES \in Nat, NEW w, IsHeap(w), NEW l \in [0..FREE_SIZES - 1 -> Nat], AllListed(w, l),
         NEW vecs, VectorsApart(w, vecs), NEW r \in Holders, Owns(w, r, 0), NEW n \in 0..FREE_SIZES - 1, l[n] # 0
  PROVE  LET g == With(w, l[n], Block(n, r))
             m == [l EXCEPT ![n] = w[l[n]].next]
         IN  /\ l[n] \in 1..Len(w) /\ l[n] \in Nat /\ IsHeap(g) /\ Owns(g, r, l[n]) /\ VectorsApart(g, vecs)
             /\ \A s, q : s # r /\ Owns(w, s, q) => Owns(g, s, q)
             /\ m \in [0..FREE_SIZES - 1 -> Nat] /\ AllListed(g, m)
<1> DEFINE b == Block(n, r)
           f == l[n]
           g == With(w, f, b)
           m == [l EXCEPT ![n] = w[f].next]
<1>3. Len(w) \in Nat /\ DOMAIN w = 1..Len(w)
  BY HeapFacts
<1>4. n \in Nat
  OBVIOUS
<1>5. b \in Blocks /\ b.free = FALSE /\ b.who = {r}
  BY <1>4, BlockFacts
<1> HIDE DEF b
<1>6. \E L : IsOrder(L, FreeOf(w, n)) /\ Chained(w, f, L)
  BY DEF AllListed, Listed
<1>7. f \in 1..Len(w) /\ w[f].free
  <2>1. PICK L : IsOrder(L, FreeOf(w, n)) /\ Chained(w, f, L)
    BY <1>6
  <2>2. L # <<>> /\ f = L[1]
    BY <2>1 DEF Chained
  <2>3. f \in FreeOf(w, n)
    <3>1. Len(L) \in Nat /\ (L = <<>> <=> Len(L) = 0) /\ \A i \in 1..Len(L) : L[i] \in FreeOf(w, n)
      BY <2>1, FreeFinite, OrderFacts
    <3>2. 1 \in 1..Len(L)
      BY <2>2, <3>1
    <3> QED BY <2>2, <3>1, <3>2
  <2> QED BY <2>3 DEF FreeOf
<1>8. /\ g[f] = b /\ \A q \in 1..Len(w) : q # f => g[q] = w[q]
      /\ g = [q \in 1..Len(w) |-> g[q]]
  BY <1>3, <1>7 DEF With
<1> HIDE DEF g
<1>9. IsHeap(g) /\ Len(g) = Len(w)
  <2>1. \A q \in 1..Len(w) : g[q] \in Blocks
    <3>1. \A q \in 1..Len(w) : w[q] \in Blocks
      BY HeapFacts
    <3> QED BY <1>5, <1>8, <3>1
  <2> QED BY <1>3, <1>8, <2>1, MakeHeap
<1>10. m \in [0..FREE_SIZES - 1 -> Nat] /\ AllListed(g, m)
  <2>1. w[f].next \in Nat
    BY <1>7, HeapFacts
  <2>2. AllListed(g, m)
    BY <1>5, <1>7, <1>8, <1>9, Popped
  <2>3. m \in [0..FREE_SIZES - 1 -> Nat]
    BY <2>1
  <2> QED BY <2>2, <2>3
<1> HIDE DEF m
<1>11. f \in Nat /\ Owns(g, r, f)
  <2>1. \A q \in 1..Len(g) : r \in g[q].who <=> q = f
    <3> TAKE q \in 1..Len(g)
    <3>1. r \notin w[q].who
      BY <1>3, <1>9 DEF Owns
    <3> QED BY <1>5, <1>7, <1>8, <1>9, <3>1
  <2> QED BY <1>3, <1>5, <1>7, <1>8, <1>9, <2>1 DEF Owns
<1> HIDE DEF f
<1>12. ASSUME NEW s, NEW q, s # r, Owns(w, s, q) PROVE Owns(g, s, q)
  <2>2. q # f
    BY <1>7, <1>12 DEF Owns
  <2>3. \A k \in 1..Len(g) : s \in g[k].who <=> k = q
    <3> TAKE k \in 1..Len(g)
    <3>1. CASE k = f
      BY <1>5, <1>8, <1>7, <1>12, <2>2, <3>1
    <3>2. CASE k # f
      BY <1>3, <1>8, <1>9, <1>12, <3>2 DEF Owns
    <3> QED BY <3>1, <3>2
  <2>4. q # 0 => q \in 1..Len(g) /\ ~g[q].free
    BY <1>3, <1>8, <1>9, <1>12, <2>2 DEF Owns
  <2> QED BY <2>3, <2>4 DEF Owns
<1>13. VectorsApart(g, vecs)
  <2> SUFFICES ASSUME NEW k \in 1..Len(g), NEW i \in vecs, Local(i) \in g[k].who
               PROVE  g[k].who = {Local(i)}
    BY DEF VectorsApart
  <2>1. CASE k = f
    BY <1>5, <1>7, <1>8, <2>1
  <2>2. CASE k # f
    BY <1>3, <1>8, <1>9, <2>2 DEF VectorsApart
  <2> QED BY <2>1, <2>2
<1> QED BY <1>7, <1>9, <1>10, <1>11, <1>12, <1>13 DEF g, m, f, b

LEMMA Reused ==
  ASSUME FREE_SIZES \in Nat, NEW h, NEW l, NEW vr, NEW fr, NEW ob, NEW vecs, Good(h, l, vr, fr, ob, vecs),
         NEW v \in CVars, NEW n \in 0..FREE_SIZES - 1, l[n] # 0
  PROVE  Good(With(Unheld(h, {Var(v)}), l[n], Block(n, Var(v))), [l EXCEPT ![n] = h[l[n]].next],
              [vr EXCEPT ![v] = l[n]], fr, ob, vecs)
<1> DEFINE w == Unheld(h, {Var(v)})
           f == l[n]
           g == With(w, f, Block(n, Var(v)))
           m == [l EXCEPT ![n] = w[f].next]
<1>1. IsHeap(h) /\ VectorsApart(h, vecs) /\ AllListed(h, l) /\ l \in [0..FREE_SIZES - 1 -> Nat] /\ Len(h) \in Nat
  BY HeapFacts DEF Good
<1>2. /\ IsHeap(w) /\ SameBlocks(w, h) /\ Owns(w, Var(v), 0) /\ VectorsApart(w, vecs)
      /\ \A r, p : r # Var(v) /\ Owns(h, r, p) => Owns(w, r, p)
  BY <1>1, UnheldFacts, UnheldOwns
<1>3. AllListed(w, l) /\ Len(w) = Len(h) /\ Var(v) \in Holders
  BY <1>1, <1>2, SameListed, HolderFacts DEF SameBlocks
<1> HIDE DEF w
<1>4. /\ f \in 1..Len(w) /\ f \in Nat /\ IsHeap(g) /\ Owns(g, Var(v), f) /\ VectorsApart(g, vecs)
      /\ \A s, q : s # Var(v) /\ Owns(w, s, q) => Owns(g, s, q)
      /\ m \in [0..FREE_SIZES - 1 -> Nat] /\ AllListed(g, m)
  BY <1>1, <1>2, <1>3, Filled
<1>5. m = [l EXCEPT ![n] = h[f].next]
  BY <1>2, <1>3, <1>4 DEF SameBlocks
<1> HIDE DEF f, g, m
<1>6. \A s, q : s # Var(v) /\ Owns(h, s, q) => Owns(g, s, q)
  BY <1>2, <1>4
<1>7. Good(g, m, [vr EXCEPT ![v] = f], fr, ob, vecs)
  BY <1>4, <1>6, VarChanged
<1>8. Good(g, [l EXCEPT ![n] = h[f].next], [vr EXCEPT ![v] = f], fr, ob, vecs)
  BY <1>5, <1>7
<1> QED BY <1>8 DEF g, f, w

\* A variable or a dynpro gets an object that others hold
LEMMA Assigned ==
  ASSUME NEW h, NEW l, NEW vr, NEW fr, NEW ob, NEW vecs, Good(h, l, vr, fr, ob, vecs), NEW w \in CVars,
         NEW r, NEW p \in Nat, Owns(h, r, p), \A i \in vecs : r # Local(i)
  PROVE  Good(HeldAt(h, p, Var(w)), l, [vr EXCEPT ![w] = p], fr, ob, vecs)
<1> DEFINE g == HeldAt(h, p, Var(w))
<1>1. /\ IsHeap(h) /\ VectorsApart(h, vecs) /\ AllListed(h, l) /\ l \in [0..FREE_SIZES - 1 -> Nat] /\ Len(h) \in Nat
  BY HeapFacts DEF Good
<1>2. p \in 0..Len(h) /\ (p # 0 => ~h[p].free)
  BY <1>1 DEF Owns
<1>3. p # 0 => \A i \in vecs : Local(i) \notin h[p].who
  <2> SUFFICES ASSUME p # 0, NEW i \in vecs, Local(i) \in h[p].who PROVE FALSE
    OBVIOUS
  <2>1. p \in 1..Len(h) /\ r \in h[p].who
    BY <1>1 DEF Owns
  <2>2. h[p].who = {Local(i)}
    BY <1>1, <2>1 DEF VectorsApart
  <2> QED BY <2>1, <2>2
<1>4. Var(w) \in Holders /\ \A i \in vecs : Var(w) # Local(i)
  BY HolderFacts
<1>5. /\ Owns(g, Var(w), p) /\ VectorsApart(g, vecs)
      /\ \A s, q : s # Var(w) /\ Owns(h, s, q) => Owns(g, s, q)
  BY <1>1, <1>2, <1>3, <1>4, HeldAtOwns
<1>6. IsHeap(g) /\ SameBlocks(g, h)
  BY <1>1, <1>4, HeldAtFacts
<1> HIDE DEF g
<1>7. AllListed(g, l)
  BY <1>1, <1>6, SameListed
<1>8. Good(g, l, [vr EXCEPT ![w] = p], fr, ob, vecs)
  BY <1>1, <1>5, <1>6, <1>7, VarChanged
<1> QED BY <1>8 DEF g

LEMMA Given ==
  ASSUME NEW h, NEW l, NEW vr, NEW fr, NEW ob, NEW vecs, Good(h, l, vr, fr, ob, vecs),
         NEW d \in Nodes, NEW p, p = 0 \/ \E v \in CVars : p = vr[v]
  PROVE  Good(HeldAt(h, p, Dyn(d)), l, vr, fr, [ob EXCEPT ![d] = p], vecs)
<1> DEFINE g == HeldAt(h, p, Dyn(d))
<1>1. /\ IsHeap(h) /\ VectorsApart(h, vecs) /\ AllListed(h, l) /\ l \in [0..FREE_SIZES - 1 -> Nat] /\ Len(h) \in Nat
  BY HeapFacts DEF Good
<1>2. p # 0 => \E v \in CVars : Owns(h, Var(v), p) /\ p \in Nat
  BY DEF Good
<1>3. p \in 0..Len(h) /\ (p # 0 => ~h[p].free)
  BY <1>1, <1>2 DEF Owns
<1>4. p # 0 => \A i \in vecs : Local(i) \notin h[p].who
  <2> SUFFICES ASSUME p # 0, NEW i \in vecs, Local(i) \in h[p].who PROVE FALSE
    OBVIOUS
  <2>1. PICK v \in CVars : p \in 1..Len(h) /\ Var(v) \in h[p].who
    BY <1>1, <1>2 DEF Owns
  <2>2. h[p].who = {Local(i)}
    BY <1>1, <2>1 DEF VectorsApart
  <2> QED BY <2>1, <2>2, HolderFacts
<1>5. Dyn(d) \in Holders /\ \A i \in vecs : Dyn(d) # Local(i)
  BY HolderFacts
<1>6. /\ Owns(g, Dyn(d), p) /\ VectorsApart(g, vecs)
      /\ \A s, q : s # Dyn(d) /\ Owns(h, s, q) => Owns(g, s, q)
  BY <1>1, <1>3, <1>4, <1>5, HeldAtOwns
<1>7. IsHeap(g) /\ SameBlocks(g, h) /\ p \in Nat
  BY <1>1, <1>3, <1>5, HeldAtFacts
<1> HIDE DEF g
<1>8. Good(g, l, vr, fr, [ob EXCEPT ![d] = p], vecs)
  BY <1>6, <1>7, DynChanged
<1> QED BY <1>8 DEF g

LEMMA Ungiven ==
  ASSUME NEW h, NEW l, NEW vr, NEW fr, NEW ob, NEW vecs, Good(h, l, vr, fr, ob, vecs), NEW d \in Nodes
  PROVE  Good(Unheld(h, {Dyn(d)}), l, vr, fr, [ob EXCEPT ![d] = 0], vecs)
<1> DEFINE g == Unheld(h, {Dyn(d)})
<1>1. IsHeap(h) /\ VectorsApart(h, vecs)
  BY DEF Good
<1>2. /\ IsHeap(g) /\ SameBlocks(g, h) /\ Owns(g, Dyn(d), 0) /\ VectorsApart(g, vecs)
      /\ \A r, p : r # Dyn(d) /\ Owns(h, r, p) => Owns(g, r, p)
  BY <1>1, UnheldFacts, UnheldOwns
<1> HIDE DEF g
<1>3. Good(g, l, vr, fr, [ob EXCEPT ![d] = 0], vecs)
  BY <1>2, DynChanged
<1> QED BY <1>3 DEF g

\* Variables go out of scope, and functions are gone
LEMMA Forgotten ==
  ASSUME NEW h, NEW l, NEW vr, NEW fr, NEW ob, NEW vecs, Good(h, l, vr, fr, ob, vecs), NEW P, NEW f \in 0..Len(fr)
  PROVE  Good(Unheld(h, {Var(v) : v \in CVars \ P} \cup {Local(i) : i \in (f + 1)..Len(fr)}), l,
              [v \in CVars |-> IF v \in P THEN vr[v] ELSE 0], SubSeq(fr, 1, f), ob, vecs)
<1> DEFINE R == {Var(v) : v \in CVars \ P} \cup {Local(i) : i \in (f + 1)..Len(fr)}
           g == Unheld(h, R)
           vs == [v \in CVars |-> IF v \in P THEN vr[v] ELSE 0]
           gr == SubSeq(fr, 1, f)
<1>1. /\ IsHeap(h) /\ VectorsApart(h, vecs) /\ AllListed(h, l) /\ l \in [0..FREE_SIZES - 1 -> Nat]
      /\ fr \in Seq(Nat) /\ Len(fr) \in Nat /\ vr \in [CVars -> Nat] /\ \A i \in 1..Len(fr) : fr[i] # 0
  BY LenProperties DEF Good
<1>2. gr \in Seq(Nat) /\ Len(gr) = f /\ \A i \in 1..f : gr[i] = fr[i] /\ gr[i] # 0
  BY <1>1, SubSeqProperties
<1>3. vs \in [CVars -> Nat] /\ \A v \in CVars : vs[v] = IF v \in P THEN vr[v] ELSE 0
  BY <1>1
<1>4. /\ \A v \in CVars : Var(v) \in R <=> v \notin P
      /\ \A d \in Nodes : Dyn(d) \notin R
      /\ \A i \in Nat : Local(i) \in R <=> i \in (f + 1)..Len(fr)
  BY HolderFacts
<1> HIDE DEF R, gr, vs
<1>5. /\ IsHeap(g) /\ SameBlocks(g, h) /\ VectorsApart(g, vecs) /\ \A r \in R : Owns(g, r, 0)
      /\ \A r, p : r \notin R /\ Owns(h, r, p) => Owns(g, r, p)
  BY <1>1, UnheldFacts, UnheldOwns
<1> HIDE DEF g
<1>6. \A v \in CVars : Owns(g, Var(v), vs[v])
  <2> TAKE v \in CVars
  <2>1. Owns(h, Var(v), vr[v])
    BY DEF Good
  <2>2. CASE v \in P
    BY <1>3, <1>4, <1>5, <2>1, <2>2
  <2>3. CASE v \notin P
    BY <1>3, <1>4, <1>5, <2>3
  <2> QED BY <2>2, <2>3
<1>7. \A d \in Nodes : Owns(g, Dyn(d), ob[d])
  BY <1>4, <1>5 DEF Good
<1>8. \A i \in Nat : Owns(g, Local(i), FrameOf(gr, i))
  <2> TAKE i \in Nat
  <2>1. Owns(h, Local(i), FrameOf(fr, i))
    BY DEF Good
  <2>2. CASE i \in (f + 1)..Len(fr)
    <3>1. i \notin 1..f
      BY <2>2
    <3>2. FrameOf(gr, i) = 0
      BY <1>2, <3>1 DEF FrameOf
    <3> QED BY <1>4, <1>5, <2>2, <3>2
  <2>3. CASE i \notin (f + 1)..Len(fr)
    <3>1. FrameOf(gr, i) = FrameOf(fr, i)
      <4>1. i \in 1..f <=> i \in 1..Len(fr)
        BY <1>1, <2>3
      <4> QED BY <1>2, <4>1 DEF FrameOf
    <3>2. Local(i) \notin R
      BY <1>4, <2>3
    <3> QED BY <1>5, <2>1, <3>1, <3>2
  <2> QED BY <2>2, <2>3
<1>9. AllListed(g, l)
  BY <1>1, <1>5, SameListed
<1>10. Good(g, l, vs, gr, ob, vecs)
  <2>1. ob \in [Nodes -> Nat]
    BY DEF Good
  <2> QED BY <1>1, <1>2, <1>3, <1>5, <1>6, <1>7, <1>8, <1>9, <2>1 DEF Good
<1> QED BY <1>10 DEF g, R, vs, gr

\* A function gets its locals, one after the other
LEMMA AddedFrame ==
  ASSUME NEW fr \in Seq(Nat), NEW p \in Nat
  PROVE  /\ Append(fr, p) \in Seq(Nat) /\ FrameOf(Append(fr, p), Len(fr) + 1) = p /\ FrameOf(fr, Len(fr) + 1) = 0
         /\ Len(Append(fr, p)) = Len(fr) + 1
         /\ p # 0 /\ (\A i \in 1..Len(fr) : fr[i] # 0) => \A i \in 1..Len(Append(fr, p)) : Append(fr, p)[i] # 0
         /\ \A i \in Nat : i # Len(fr) + 1 => FrameOf(Append(fr, p), i) = FrameOf(fr, i)
<1> DEFINE gr == Append(fr, p)
<1>1. /\ Len(fr) \in Nat /\ gr \in Seq(Nat) /\ Len(gr) = Len(fr) + 1 /\ gr[Len(fr) + 1] = p
      /\ \A i \in 1..Len(fr) : gr[i] = fr[i]
  BY AppendProperties, LenProperties
<1> HIDE DEF gr
<1>2. FrameOf(gr, Len(fr) + 1) = p /\ FrameOf(fr, Len(fr) + 1) = 0
  BY <1>1 DEF FrameOf
<1>3. \A i \in Nat : i # Len(fr) + 1 => FrameOf(gr, i) = FrameOf(fr, i)
  BY <1>1 DEF FrameOf
<1>4. p # 0 /\ (\A i \in 1..Len(fr) : fr[i] # 0) => \A i \in 1..Len(gr) : gr[i] # 0
  <2> HAVE p # 0 /\ \A i \in 1..Len(fr) : fr[i] # 0
  <2>1. \A i \in 1..Len(gr) : i \in 1..Len(fr) \/ i = Len(fr) + 1
    BY <1>1
  <2> QED BY <1>1, <2>1
<1> QED BY <1>1, <1>2, <1>3, <1>4 DEF gr

LEMMA Called ==
  ASSUME NEW h, NEW l, NEW vr, NEW fr, NEW ob, NEW vecs, Good(h, l, vr, fr, ob, vecs),
         NEW p \in Nat \ {0}, NEW g, IsHeap(g), Owns(g, Local(Len(fr) + 1), p), VectorsApart(g, vecs),
         \A s, q : s # Local(Len(fr) + 1) /\ Owns(h, s, q) => Owns(g, s, q),
         NEW m \in [0..FREE_SIZES - 1 -> Nat], AllListed(g, m)
  PROVE  Good(g, m, vr, Append(fr, p), ob, vecs) /\ Len(Append(fr, p)) = Len(fr) + 1
<1> DEFINE k == Len(fr) + 1
           gr == Append(fr, p)
<1>1. fr \in Seq(Nat) /\ k \in Nat /\ p \in Nat /\ p # 0 /\ \A i \in 1..Len(fr) : fr[i] # 0
  BY LenProperties DEF Good
<1>2. /\ gr \in Seq(Nat) /\ FrameOf(gr, k) = p /\ Len(gr) = Len(fr) + 1
      /\ \A i \in Nat : i # k => FrameOf(gr, i) = FrameOf(fr, i)
      /\ \A i \in 1..Len(gr) : gr[i] # 0
  BY <1>1, AddedFrame
<1> HIDE DEF gr
<1>3. Owns(g, Local(k), FrameOf(gr, k)) /\ \A s, q : s # Local(k) /\ Owns(h, s, q) => Owns(g, s, q)
  BY <1>2
<1> HIDE DEF k
<1>4. \A i \in Nat : Owns(g, Local(i), FrameOf(gr, i))
  <2> TAKE i \in Nat
  <2>1. CASE i = k
    BY <1>3, <2>1
  <2>2. CASE i # k
    <3>1. Local(i) # Local(k)
      BY <1>1, <2>2, HolderFacts
    <3>2. Owns(h, Local(i), FrameOf(fr, i))
      BY DEF Good
    <3>3. FrameOf(gr, i) = FrameOf(fr, i)
      BY <1>2, <2>2
    <3>4. Owns(g, Local(i), FrameOf(fr, i))
      BY <1>3, <3>1, <3>2
    <3> QED BY <3>3, <3>4
  <2> QED BY <2>1, <2>2
<1>5. \A v \in CVars : Owns(g, Var(v), vr[v])
  BY <1>1, <1>3, HolderFacts DEF Good
<1>6. \A d \in Nodes : Owns(g, Dyn(d), ob[d])
  BY <1>1, <1>3, HolderFacts DEF Good
<1>7. vr \in [CVars -> Nat] /\ ob \in [Nodes -> Nat]
  BY DEF Good
<1>8. Good(g, m, vr, gr, ob, vecs)
  BY <1>2, <1>4, <1>5, <1>6, <1>7 DEF Good
<1> QED BY <1>2, <1>8 DEF gr

\* The heap in which an allocation or a call works
HeapStates == [heap : Seq(Blocks), lists : [0..FREE_SIZES - 1 -> Nat], var : [CVars -> Nat],
               locals : Seq(Nat), obj : [Nodes -> Nat]]
\* What has been made of h, with n locals or more
Filling(h, n, vecs) ==
  {S \in HeapStates : /\ Good(S.heap, S.lists, S.var, S.locals, S.obj, vecs)
                      /\ S.var = h.var /\ S.obj = h.obj /\ n <= Len(S.locals)}

LEMMA MakeFilling ==
  ASSUME NEW h, NEW n, NEW vecs, NEW hp, NEW l, NEW fr, Good(hp, l, h.var, fr, h.obj, vecs), n <= Len(fr),
         NEW S, S = [heap |-> hp, lists |-> l, locals |-> fr, var |-> h.var, obj |-> h.obj]
  PROVE  S \in Filling(h, n, vecs)
<1>1. /\ hp \in Seq(Blocks) /\ l \in [0..FREE_SIZES - 1 -> Nat] /\ h.var \in [CVars -> Nat]
      /\ fr \in Seq(Nat) /\ h.obj \in [Nodes -> Nat]
  BY DEF Good, IsHeap
<1>2. S \in HeapStates
  BY <1>1 DEF HeapStates
<1>3. S.heap = hp /\ S.lists = l /\ S.locals = fr /\ S.var = h.var /\ S.obj = h.obj
  OBVIOUS
<1> QED BY <1>2, <1>3 DEF Filling

LEMMA Allocated ==
  ASSUME FREE_SIZES \in Nat, NEW h, NEW vecs, Good(h.heap, h.lists, h.var, h.locals, h.obj, vecs), NEW n \in Nat
  PROVE  NextLocal(h, n) \in Filling(h, Len(h.locals), vecs)
<1> DEFINE r == Local(Len(h.locals) + 1)
           b == Block(n, r)
           f == h.lists[n]
           off == n < FREE_SIZES /\ f # 0
           T == NextLocal(h, n)
<1>1. /\ IsHeap(h.heap) /\ VectorsApart(h.heap, vecs) /\ AllListed(h.heap, h.lists)
      /\ h.lists \in [0..FREE_SIZES - 1 -> Nat] /\ Len(h.heap) \in Nat
      /\ h.locals \in Seq(Nat) /\ Len(h.locals) \in Nat
  BY LenProperties, HeapFacts DEF Good
<1>2. r \in Holders /\ Owns(h.heap, r, 0)
  <2>1. Len(h.locals) + 1 \in Nat /\ FrameOf(h.locals, Len(h.locals) + 1) = 0
    BY <1>1 DEF FrameOf
  <2>2. Owns(h.heap, r, FrameOf(h.locals, Len(h.locals) + 1))
    BY <2>1 DEF Good
  <2> QED BY <2>1, <2>2, HolderFacts
<1>3. CASE off
  <2> DEFINE g == With(h.heap, f, b)
             m == [h.lists EXCEPT ![n] = h.heap[f].next]
  <2>1. n \in 0..FREE_SIZES - 1 /\ f # 0
    BY <1>3
  <2>2. /\ f \in Nat /\ IsHeap(g) /\ Owns(g, r, f) /\ VectorsApart(g, vecs)
        /\ \A s, q : s # r /\ Owns(h.heap, s, q) => Owns(g, s, q)
        /\ m \in [0..FREE_SIZES - 1 -> Nat] /\ AllListed(g, m)
    BY <1>1, <1>2, <2>1, Filled
  <2>3. T = [heap |-> g, lists |-> m, locals |-> Append(h.locals, f), var |-> h.var, obj |-> h.obj]
    BY <1>3 DEF NextLocal
  <2> HIDE DEF g, m, f, T
  <2>4. Good(g, m, h.var, Append(h.locals, f), h.obj, vecs) /\ Len(Append(h.locals, f)) = Len(h.locals) + 1
    BY <2>1, <2>2, Called
  <2>5. Len(h.locals) <= Len(Append(h.locals, f))
    BY <1>1, <2>4
  <2>6. T \in Filling(h, Len(h.locals), vecs)
    BY <2>3, <2>4, <2>5, MakeFilling
  <2> QED BY <2>6 DEF T
<1>4. CASE ~off
  <2> DEFINE g == Append(h.heap, b)
             p == Len(h.heap) + 1
  <2>1. T = [heap |-> g, lists |-> h.lists, locals |-> Append(h.locals, p), var |-> h.var, obj |-> h.obj]
    BY <1>4 DEF NextLocal
  <2>2. /\ Owns(g, r, p) /\ VectorsApart(g, vecs)
        /\ \A s, q : s # r /\ Owns(h.heap, s, q) => Owns(g, s, q)
    BY <1>1, <1>2, AppendOwns
  <2>3. IsHeap(g) /\ AllListed(g, h.lists)
    <3>1. b \in Blocks /\ b.free = FALSE
      BY <1>2, BlockFacts
    <3> HIDE DEF b
    <3> QED BY <1>1, <3>1, AppendFacts, MoreListed
  <2>4. p \in Nat \ {0}
    BY <1>1
  <2> HIDE DEF g, p, T
  <2>5. Good(g, h.lists, h.var, Append(h.locals, p), h.obj, vecs) /\ Len(Append(h.locals, p)) = Len(h.locals) + 1
    BY <1>1, <2>2, <2>3, <2>4, Called
  <2>6. Len(h.locals) <= Len(Append(h.locals, p))
    BY <1>1, <2>5
  <2>7. T \in Filling(h, Len(h.locals), vecs)
    BY <2>1, <2>5, <2>6, MakeFilling
  <2> QED BY <2>7 DEF T
<1> QED BY <1>3, <1>4

LEMMA VectorFilled ==
  ASSUME FREE_SIZES \in Nat, NEW h, NEW vecs, Good(h.heap, h.lists, h.var, h.locals, h.obj, vecs), NEW n \in Nat
  PROVE  VectorOf(h, n) \in Filling(h, Len(h.locals), vecs)
<1> DEFINE X == Filling(h, Len(h.locals), vecs)
           Turn == [t \in (0..n - 1) \X X |-> NextLocal(t[2], 1)]
           S == NextLocal(h, n)
           Is(f) == f = [k \in 0..n |-> IF k = 0 THEN S ELSE NextLocal(f[k - 1], 1)]
<1>1. S \in X
  BY Allocated
<1>2. \A t \in X : NextLocal(t, 1) \in X
  <2> TAKE t \in X
  <2>1. Good(t.heap, t.lists, t.var, t.locals, t.obj, vecs) /\ Len(h.locals) <= Len(t.locals)
        /\ t.var = h.var /\ t.obj = h.obj
    BY DEF Filling
  <2>2. NextLocal(t, 1) \in Filling(t, Len(t.locals), vecs)
    BY <2>1, Allocated
  <2> DEFINE T == NextLocal(t, 1)
  <2> HIDE DEF T
  <2>3. T \in HeapStates /\ Good(T.heap, T.lists, T.var, T.locals, T.obj, vecs)
        /\ T.var = t.var /\ T.obj = t.obj /\ Len(t.locals) <= Len(T.locals)
    BY <2>2 DEF Filling, T
  <2>4. Len(h.locals) \in Nat /\ Len(t.locals) \in Nat /\ Len(T.locals) \in Nat
    BY <2>1, <2>3, LenProperties DEF Good
  <2>5. Len(h.locals) <= Len(T.locals)
    BY <2>1, <2>3, <2>4
  <2>6. T \in X
    BY <2>1, <2>3, <2>5 DEF Filling
  <2> QED BY <2>6 DEF T
<1> HIDE DEF X, S
<1>3. Turn \in Bodies(0..n - 1, X) /\ \A k \in 0..n - 1, t \in X : Turn[<<k, t>>] = NextLocal(t, 1)
  BY <1>2 DEF Bodies
<1> HIDE DEF Turn
<1>4. PICK g \in [0..n -> X] : IsLoop(g, 0..n - 1, X, S, Turn)
  BY <1>1, <1>3, Loop
<1>5. g[0] = S /\ \A k \in 0..n - 1 : g[k] \in X /\ g[k + 1] = NextLocal(g[k], 1)
  BY <1>3, <1>4 DEF IsLoop
<1>6. Is(g)
  <2>1. ASSUME NEW k \in 0..n PROVE g[k] = IF k = 0 THEN S ELSE NextLocal(g[k - 1], 1)
    <3>1. k = 0 \/ (k - 1 \in 0..n - 1 /\ (k - 1) + 1 = k)
      OBVIOUS
    <3> QED BY <1>5, <3>1
  <2>2. g = [k \in 0..n |-> g[k]]
    BY <1>4
  <2> QED BY <2>1, <2>2
<1> DEFINE f == CHOOSE f : Is(f)
<1>7. VectorOf(h, n) = f[n]
  BY DEF VectorOf, S
<1>8. Is(f)
  <2> HIDE DEF Is
  <2> QED BY <1>6
<1> HIDE DEF f
<1>9. \A k \in 0..n : f[k] = IF k = 0 THEN S ELSE NextLocal(f[k - 1], 1)
  BY <1>8
<1> DEFINE T == {k \in 0..n : f[k] \in X}
<1>10. 0 \in T
  BY <1>1, <1>9
<1>11. ASSUME NEW k \in 0..n - 1, k \in T PROVE k + 1 \in T
  <2>1. k + 1 \in 0..n /\ k + 1 # 0 /\ (k + 1) - 1 = k
    OBVIOUS
  <2>2. f[k + 1] = NextLocal(f[k], 1)
    BY <1>9, <2>1
  <2> QED BY <1>2, <1>11, <2>1, <2>2
<1>12. \A k \in 0..n : k \in T
  <2> HIDE DEF T
  <2> QED BY <1>10, <1>11, InductionUpto
<1>13. f[n] \in X
  BY <1>12
<1> QED BY <1>7, <1>13 DEF X

\* Vectors of functions that are gone, and of one that has none yet
LEMMA OtherVectors ==
  ASSUME NEW h, NEW l, NEW vr, NEW fr, NEW ob, NEW vecs, Good(h, l, vr, fr, ob, vecs),
         NEW more, more \subseteq vecs \cup {Len(fr) + 1}
  PROVE  Good(h, l, vr, fr, ob, more)
<1>1. Owns(h, Local(Len(fr) + 1), 0) /\ Len(h) \in Nat
  <2>1. Len(fr) + 1 \in Nat /\ Len(fr) + 1 \notin 1..Len(fr)
    BY LenProperties DEF Good
  <2> QED BY <2>1, HeapFacts DEF Good, FrameOf
<1>2. \A p \in 1..Len(h) : Local(Len(fr) + 1) \notin h[p].who
  BY <1>1 DEF Owns
<1>3. VectorsApart(h, vecs)
  BY DEF Good
<1>4. VectorsApart(h, more)
  BY <1>2, <1>3 DEF VectorsApart
<1> QED BY <1>4 DEF Good

\* A function returns
IsFreed(c, b, next, W) == c \in Blocks /\ c.who = W /\ c.len = b.len /\ c.free = TRUE /\ c.next = next
LEMMA FreeSet ==
  ASSUME NEW b \in Blocks, NEW c, c = [b EXCEPT !.free = TRUE]
  PROVE  IsFreed(c, b, b.next, b.who)
  BY DEF Blocks, IsFreed
LEMMA NextSet ==
  ASSUME NEW b \in Blocks, b.free = TRUE, NEW next \in Nat, NEW c, c = [b EXCEPT !.next = next]
  PROVE  IsFreed(c, b, next, b.who)
  BY DEF Blocks, IsFreed
GivenBack(h, p, next) == With(h, p, [h[p] EXCEPT !.free = TRUE, !.next = next])
FreedHeap(g, h, p, next) ==
  /\ IsHeap(g) /\ Len(g) = Len(h)
  /\ g[p].free = TRUE /\ g[p].next = next /\ g[p].len = h[p].len /\ g[p].who = h[p].who
  /\ \A q \in 1..Len(h) : q # p => g[q] = h[q]
LEMMA FreedFacts ==
  ASSUME NEW h, IsHeap(h), NEW p \in 1..Len(h), NEW next \in Nat
  PROVE  FreedHeap(GivenBack(h, p, next), h, p, next)
<1> DEFINE g == GivenBack(h, p, next)
           b == [h[p] EXCEPT !.free = TRUE]
           c == [h[p] EXCEPT !.free = TRUE, !.next = next]
<1>1. /\ Len(h) \in Nat /\ DOMAIN h = 1..Len(h) /\ \A q \in 1..Len(h) : h[q] \in Blocks
      /\ h = [q \in 1..Len(h) |-> h[q]]
  BY HeapFacts
<1>2. g = [q \in 1..Len(h) |-> IF q = p THEN c ELSE h[q]]
  BY <1>1 DEF GivenBack, With
<1> HIDE DEF g
<1>3. c = [b EXCEPT !.next = next]
  OBVIOUS
<1> HIDE DEF c
<1>4. IsFreed(b, h[p], h[p].next, h[p].who)
  <2>1. h[p] \in Blocks
    BY <1>1
  <2> HIDE DEF b
  <2> QED BY <2>1, FreeSet DEF b
<1> HIDE DEF b
<1>5. IsFreed(c, b, next, b.who)
  BY <1>3, <1>4, NextSet DEF IsFreed
<1>6. IsFreed(c, h[p], next, h[p].who)
  BY <1>4, <1>5 DEF IsFreed
<1>9. g[p] = c /\ (\A q \in 1..Len(h) : q # p => g[q] = h[q]) /\ g = [q \in 1..Len(h) |-> g[q]]
  BY <1>2
<1>10. \A q \in 1..Len(h) : g[q] \in Blocks
  BY <1>1, <1>6, <1>9 DEF IsFreed
<1>11. IsHeap(g) /\ Len(g) = Len(h)
  BY <1>1, <1>9, <1>10, MakeHeap
<1>12. g[p].free = TRUE /\ g[p].next = next /\ g[p].len = h[p].len /\ g[p].who = h[p].who
  BY <1>6, <1>9 DEF IsFreed
<1>13. FreedHeap(g, h, p, next)
  BY <1>9, <1>11, <1>12 DEF FreedHeap
<1> QED BY <1>13 DEF g

\* A block that nobody holds any more is free
LEMMA Emptied ==
  ASSUME FREE_SIZES \in Nat, NEW h, NEW l, NEW vr, NEW fr, NEW ob, NEW vecs, Good(h, l, vr, fr, ob, vecs),
         NEW p \in 1..Len(h), ~h[p].free, h[p].who = {}, h[p].len \in 0..FREE_SIZES - 1
  PROVE  Good(GivenBack(h, p, l[h[p].len]), [l EXCEPT ![h[p].len] = p], vr, fr, ob, vecs)
<1> DEFINE next == l[h[p].len]
           g == GivenBack(h, p, next)
           m == [l EXCEPT ![h[p].len] = p]
<1>1. IsHeap(h) /\ VectorsApart(h, vecs) /\ AllListed(h, l) /\ l \in [0..FREE_SIZES - 1 -> Nat] /\ Len(h) \in Nat
  BY HeapFacts DEF Good
<1>4. next \in Nat /\ p \in Nat /\ p # 0
  BY <1>1
<1> HIDE DEF next
<1>5. /\ IsHeap(g) /\ Len(g) = Len(h)
      /\ g[p].free = TRUE /\ g[p].next = next /\ g[p].len = h[p].len /\ g[p].who = {}
      /\ \A q \in 1..Len(h) : q # p => g[q] = h[q]
  <2>2. FreedHeap(g, h, p, next)
    BY <1>1, <1>4, FreedFacts
  <2> HIDE DEF g
  <2> QED BY <2>2 DEF FreedHeap
<1> HIDE DEF g
<1>7. AllListed(g, m) /\ m \in [0..FREE_SIZES - 1 -> Nat]
  <2>1. AllListed(g, [l EXCEPT ![h[p].len] = p])
    BY <1>1, <1>4, <1>5, Pushed DEF next
  <2> QED BY <1>1, <1>4, <2>1
<1> HIDE DEF m
<1>9. ASSUME NEW s, NEW q, Owns(h, s, q) PROVE Owns(g, s, q)
  <2>1. q # p
    <3>1. s \notin h[p].who
      OBVIOUS
    <3> QED BY <1>4, <1>9, <3>1 DEF Owns
  <2>2. \A j \in 1..Len(g) : s \in g[j].who <=> j = q
    <3> TAKE j \in 1..Len(g)
    <3>1. CASE j = p
      BY <1>5, <2>1, <3>1
    <3>2. CASE j # p
      BY <1>5, <1>9, <3>2 DEF Owns
    <3> QED BY <3>1, <3>2
  <2>3. q # 0 => q \in 1..Len(g) /\ ~g[q].free
    BY <1>5, <1>9, <2>1 DEF Owns
  <2> QED BY <2>2, <2>3 DEF Owns
<1>10. VectorsApart(g, vecs)
  <2> SUFFICES ASSUME NEW j \in 1..Len(g), NEW i \in vecs, Local(i) \in g[j].who
               PROVE  g[j].who = {Local(i)}
    BY DEF VectorsApart
  <2>1. j # p
    BY <1>5
  <2> QED BY <1>1, <1>5, <2>1 DEF VectorsApart
<1>11. Good(g, m, vr, fr, ob, vecs)
  <2>1. \A i \in Nat : Owns(g, Local(i), FrameOf(fr, i))
    BY <1>9 DEF Good
  <2>2. \A v \in CVars : Owns(g, Var(v), vr[v])
    BY <1>9 DEF Good
  <2>3. \A d \in Nodes : Owns(g, Dyn(d), ob[d])
    BY <1>9 DEF Good
  <2>4. vr \in [CVars -> Nat] /\ ob \in [Nodes -> Nat] /\ fr \in Seq(Nat) /\ \A i \in 1..Len(fr) : fr[i] # 0
    BY DEF Good
  <2> QED BY <1>5, <1>7, <1>10, <2>1, <2>2, <2>3, <2>4 DEF Good
<1> QED BY <1>11 DEF g, m, next

(***************************************************************************)
(* The steps                                                               *)
(***************************************************************************)
LEMMA RootsStart == ASSUME RootsAssumptions, RootsInit PROVE RootsInv
<1>1. IsHeap(<<>>) /\ Len(<<>>) = 0
  BY DEF IsHeap
<1>2. \A r : Owns(<<>>, r, 0)
  BY <1>1 DEF Owns
<1>3. VectorsApart(<<>>, Vectors)
  BY <1>1 DEF VectorsApart
<1> DEFINE l == [s \in 0..FREE_SIZES - 1 |-> 0]
           vr == [v \in CVars |-> 0]
           ob == [d \in Nodes |-> 0]
<1>4. AllListed(<<>>, l)
  <2>1. \A p \in 1..Len(<<>>) : ~<<>>[p].free
    BY <1>1
  <2> QED BY <1>1, <2>1, NoneFree
<1>5. \A i \in Nat : FrameOf(<<>>, i) = 0
  BY DEF FrameOf
<1>6. <<>> \in Seq(Nat) /\ <<>> \in Seq(CVars)
  OBVIOUS
<1>7. Good(<<>>, l, vr, <<>>, ob, Vectors)
  <2>1. /\ l \in [0..FREE_SIZES - 1 -> Nat] /\ vr \in [CVars -> Nat] /\ ob \in [Nodes -> Nat]
        /\ (\A v \in CVars : vr[v] = 0) /\ (\A d \in Nodes : ob[d] = 0)
    OBVIOUS
  <2>2. \A i \in 1..Len(<<>>) : <<>>[i] # 0
    BY <1>1
  <2> HIDE DEF l, vr, ob
  <2> QED BY <2>2, <1>1, <1>2, <1>3, <1>4, <1>5, <1>6, <2>1 DEF Good
<1>8. HEAD \notin Nodes \cup {UNLINKED} /\ UNLINKED \notin Nodes /\ Maybe \subseteq Nodes
  BY DEF RootsAssumptions
<1>9. /\ dyn = [x \in Nodes \cup {HEAD} |-> dyn[x]]
      /\ dyn[HEAD] = Entry(HEAD, HEAD, 0) /\ \A d \in Nodes : dyn[d] = Entry(UNLINKED, UNLINKED, 0)
  BY <1>8 DEF RootsInit, Entry
<1>10. IsEntry(dyn[HEAD], HEAD, HEAD, 0) /\ \A d \in Nodes : IsEntry(dyn[d], UNLINKED, UNLINKED, 0)
  BY <1>9, EntryFacts
<1>11. dyn \in Dynpros /\ LinkedIn(dyn) = {} /\ ObjsOf(dyn) = ob
  <2>1. \A x \in Nodes \cup {HEAD} : dyn[x] \in Dynpro
    BY <1>10 DEF IsEntry
  <2> QED BY <1>9, <1>10, <2>1 DEF Dynpros, LinkedIn, ObjsOf, IsEntry
<1>12. IsRing(dyn)
  <2>1. IsOrder(<<>>, {})
    BY FS_EmptySet DEF IsOrder
  <2>2. Ring(dyn, <<>>)
    <3>1. \A i : Around(<<>>, i) = HEAD
      BY DEF Around
    <3> QED BY <1>10, <3>1 DEF Ring, IsEntry
  <2> QED BY <1>11, <2>1, <2>2 DEF IsRing
<1>13. heap = <<>> /\ free_lists = l /\ var = vr /\ locals = <<>> /\ gcpro = <<>> /\ bases = <<>>
  BY DEF RootsInit
<1>15. Bases(<<>>, Len(<<>>))
  BY DEF Bases
<1> HIDE DEF l, ob
<1>14. /\ \A v \in CVars : var[v] = 0
       /\ \A d \in Nodes : dyn[d].obj = 0
  BY <1>10, <1>13 DEF IsEntry
<1> QED BY <1>6, <1>7, <1>8, <1>11, <1>12, <1>13, <1>14, <1>15 DEF RootsInv

LEMMA ProtectedVars ==
  ASSUME RootsAssumptions, NEW g \in Seq(CVars)
  PROVE  Protected(g) \subseteq CVars
<1>1. roots \in Seq(CVars)
  BY DEF RootsAssumptions
<1>2. \A s \in Seq(CVars) : ToSet(s) \subseteq CVars
  BY LenProperties DEF ToSet
<1> QED BY <1>1, <1>2 DEF Protected

LEMMA SameBases ==
  ASSUME RootsInv, bases' = bases, Len(locals') = Len(locals)
  PROVE  Vectors' = Vectors /\ Bases(bases', Len(locals'))
<1>1. Vectors' = Vectors
  BY DEF Vectors
<1>2. Bases(bases', Len(locals'))
  BY DEF RootsInv
<1> QED BY <1>1, <1>2

\* What an allocation finds
LEMMA NewHeap ==
  ASSUME RootsAssumptions, RootsInv, NEW h, GoodState(h), Unprotected(h),
         gcpro' = gcpro, dyn' = Objs(h), Good(heap', free_lists', var', locals', h.obj, Vectors'), Bases(bases', Len(locals')),
         \A v \in CVars \ Protected(gcpro) : var'[v] = 0
  PROVE  RootsInv'
<1>1. /\ Objs(h) \in Dynpros /\ IsRing(Objs(h)) /\ LinkedIn(Objs(h)) = LinkedIn(dyn)
      /\ ObjsOf(Objs(h)) = h.obj
      /\ \A d \in Nodes \ LinkedIn(dyn) : Objs(h)[d].obj = 0
      /\ \A d \in Maybe : d \in LinkedIn(dyn) <=> Objs(h)[d].obj # 0
  BY ObjsFacts
<1>2. gcpro' \in Seq(CVars)
  BY DEF RootsInv
<1>3. Good(heap', free_lists', var', locals', ObjsOf(dyn'), Vectors')
  BY <1>1
<1>4. dyn' \in Dynpros /\ IsRing(dyn')
  BY <1>1
<1>5. /\ \A d \in Nodes \ LinkedIn(dyn') : dyn'[d].obj = 0
      /\ \A d \in Maybe : d \in LinkedIn(dyn') <=> dyn'[d].obj # 0
  BY <1>1
<1> QED BY <1>2, <1>3, <1>4, <1>5 DEF RootsInv

LEMMA gc_reserve_facts ==
  ASSUME RootsAssumptions, RootsInv, NEW n
  PROVE  GoodState(gc_reserve(n)) /\ Unprotected(gc_reserve(n))
<1>1. gc_reserve(n) = Now \/ gc_reserve(n) = AfterCollection
  BY DEF gc_reserve
<1> QED BY <1>1, NowFacts, AfterCollectionFacts

LEMMA collect_garbage_keeps ==
  ASSUME RootsAssumptions, RootsInv, collect_garbage
  PROVE  RootsInv'
<1> DEFINE h == AfterCollection
<1>1. GoodState(h) /\ Unprotected(h)
  BY AfterCollectionFacts
<1>2. /\ heap' = h.heap /\ free_lists' = h.lists /\ var' = h.var /\ locals' = h.locals /\ dyn' = Objs(h)
      /\ gcpro' = gcpro /\ bases' = bases
  BY DEF collect_garbage
<1> HIDE DEF h
<1>5. Vectors' = Vectors /\ Bases(bases', Len(locals'))
  BY <1>1, <1>2, SameBases DEF Unprotected
<1>3. Good(heap', free_lists', var', locals', h.obj, Vectors')
  BY <1>1, <1>2, <1>5 DEF GoodState
<1>4. \A v \in CVars \ Protected(gcpro) : var'[v] = 0
  BY <1>1, <1>2 DEF Unprotected
<1> QED BY <1>1, <1>2, <1>3, <1>4, <1>5, NewHeap

\* What changes neither the dynpros nor what is protected
LEMMA SameDynpros ==
  ASSUME RootsInv, gcpro' = gcpro, dyn' = dyn, Good(heap', free_lists', var', locals', ObjsOf(dyn), Vectors'), Bases(bases', Len(locals')),
         \A v \in CVars \ Protected(gcpro) : var'[v] = 0
  PROVE  RootsInv'
<1>1. ObjsOf(dyn') = ObjsOf(dyn) /\ LinkedIn(dyn') = LinkedIn(dyn)
  OBVIOUS
<1>2. Good(heap', free_lists', var', locals', ObjsOf(dyn'), Vectors')
  BY <1>1
<1>3. gcpro' \in Seq(CVars) /\ dyn' \in Dynpros /\ IsRing(dyn')
  BY DEF RootsInv
<1>4. \A v \in CVars \ Protected(gcpro') : var'[v] = 0
  OBVIOUS
<1>5. /\ \A d \in Nodes \ LinkedIn(dyn') : dyn'[d].obj = 0
      /\ \A d \in Maybe : d \in LinkedIn(dyn') <=> dyn'[d].obj # 0
  BY DEF RootsInv
<1> QED BY <1>2, <1>3, <1>4, <1>5 DEF RootsInv

LEMMA gc_allocate_keeps ==
  ASSUME RootsAssumptions, RootsInv, NEW v \in CVars, NEW n \in Sizes, gc_allocate(v, n)
  PROVE  RootsInv'
<1>1. n \in Nat /\ FREE_SIZES \in Nat /\ v \in Protected(gcpro) /\ gcpro' = gcpro /\ bases' = bases
  BY DEF RootsAssumptions, gc_allocate
<1>2. CASE n < FREE_SIZES /\ free_lists[n] # 0
  <2> DEFINE f == free_lists[n]
  <2>1. /\ free_lists' = [free_lists EXCEPT ![n] = heap[f].next]
        /\ heap' = With(Unheld(heap, {Var(v)}), f, Block(n, Var(v)))
        /\ var' = [var EXCEPT ![v] = f] /\ locals' = locals /\ dyn' = dyn
    BY <1>2 DEF gc_allocate
  <2>2. Good(heap, free_lists, var, locals, ObjsOf(dyn), Vectors) /\ n \in 0..FREE_SIZES - 1 /\ free_lists[n] # 0
    BY <1>1, <1>2 DEF RootsInv
  <2>3. Good(With(Unheld(heap, {Var(v)}), f, Block(n, Var(v))), [free_lists EXCEPT ![n] = heap[f].next],
             [var EXCEPT ![v] = f], locals, ObjsOf(dyn), Vectors)
    BY <1>1, <2>2, Reused
  <2>6. Vectors' = Vectors /\ Bases(bases', Len(locals'))
    BY <1>1, <2>1, SameBases
  <2>4. Good(heap', free_lists', var', locals', ObjsOf(dyn), Vectors')
    BY <2>1, <2>3, <2>6
  <2>5. \A u \in CVars \ Protected(gcpro) : var'[u] = 0
    BY <1>1, <2>1 DEF RootsInv, Good
  <2> QED BY <1>1, <2>1, <2>4, <2>5, <2>6, SameDynpros
<1>3. CASE ~(n < FREE_SIZES /\ free_lists[n] # 0)
  <2> DEFINE h == gc_reserve(n + 1)
  <2>1. /\ heap' = Append(Unheld(h.heap, {Var(v)}), Block(n, Var(v))) /\ free_lists' = h.lists
        /\ var' = [h.var EXCEPT ![v] = Len(h.heap) + 1]
        /\ locals' = h.locals /\ dyn' = Objs(h)
    BY <1>3 DEF gc_allocate
  <2>2. GoodState(h) /\ Unprotected(h)
    BY gc_reserve_facts
  <2> HIDE DEF h
  <2>3. Good(h.heap, h.lists, h.var, h.locals, h.obj, Vectors)
    BY <2>2 DEF GoodState
  <2>4. Good(Append(Unheld(h.heap, {Var(v)}), Block(n, Var(v))), h.lists, [h.var EXCEPT ![v] = Len(h.heap) + 1],
             h.locals, h.obj, Vectors)
    BY <1>1, <2>3, Handed
  <2>7. Vectors' = Vectors /\ Bases(bases', Len(locals'))
    BY <1>1, <2>1, <2>2, SameBases DEF Unprotected
  <2>5. Good(heap', free_lists', var', locals', h.obj, Vectors')
    BY <2>1, <2>4, <2>7
  <2>6. \A u \in CVars \ Protected(gcpro) : var'[u] = 0
    BY <1>1, <2>1, <2>2, <2>3 DEF Unprotected, Good
  <2> QED BY <1>1, <2>1, <2>2, <2>5, <2>6, <2>7, NewHeap
<1> QED BY <1>2, <1>3

\* A variable gets what another one, or a local variable, has
LEMMA var_gets ==
  ASSUME RootsAssumptions, RootsInv, NEW w \in Protected(gcpro), NEW r, NEW p \in Nat, Owns(heap, r, p),
         \A i \in Vectors : r # Local(i),
         gcpro' = gcpro, dyn' = dyn, free_lists' = free_lists, locals' = locals, bases' = bases,
         var' = [var EXCEPT ![w] = p], heap' = HeldAt(heap, p, Var(w))
  PROVE  RootsInv'
<1>1. Good(heap, free_lists, var, locals, ObjsOf(dyn), Vectors) /\ w \in CVars
  BY ProtectedVars DEF RootsInv
<1>2. Good(HeldAt(heap, p, Var(w)), free_lists, [var EXCEPT ![w] = p], locals, ObjsOf(dyn), Vectors)
  BY <1>1, Assigned
<1>3. Vectors' = Vectors /\ Bases(bases', Len(locals'))
  BY SameBases
<1>4. Good(heap', free_lists', var', locals', ObjsOf(dyn), Vectors')
  BY <1>2, <1>3
<1>5. \A u \in CVars \ Protected(gcpro) : var'[u] = 0
  BY DEF RootsInv, Good
<1> QED BY <1>3, <1>4, <1>5, SameDynpros

LEMMA assign_var_keeps ==
  ASSUME RootsAssumptions, RootsInv, NEW v \in CVars, NEW w \in CVars, assign_var(v, w)
  PROVE  RootsInv'
<1>1. /\ w \in Protected(gcpro) /\ gcpro' = gcpro /\ dyn' = dyn /\ free_lists' = free_lists /\ locals' = locals
      /\ bases' = bases /\ var' = [var EXCEPT ![w] = var[v]] /\ heap' = HeldAt(heap, var[v], Var(w))
  BY DEF assign_var
<1>2. Owns(heap, Var(v), var[v]) /\ var[v] \in Nat
  BY DEF RootsInv, Good
<1>3. \A i \in Vectors : Var(v) # Local(i)
  BY HolderFacts
<1> QED BY <1>1, <1>2, <1>3, var_gets

LEMMA closure_var_local_keeps ==
  ASSUME RootsAssumptions, RootsInv, NEW v \in CVars, NEW i \in DOMAIN locals, closure_var_local(v, i)
  PROVE  RootsInv'
<1>1. /\ v \in Protected(gcpro) /\ i \notin Vectors
      /\ gcpro' = gcpro /\ dyn' = dyn /\ free_lists' = free_lists /\ locals' = locals
      /\ bases' = bases /\ var' = [var EXCEPT ![v] = locals[i]] /\ heap' = HeldAt(heap, locals[i], Var(v))
  BY DEF closure_var_local
<1>2. i \in Nat /\ i \in 1..Len(locals)
  BY LenProperties DEF RootsInv, Good
<1>3. Owns(heap, Local(i), locals[i]) /\ locals[i] \in Nat
  <2>1. Owns(heap, Local(i), FrameOf(locals, i))
    BY <1>2 DEF RootsInv, Good
  <2> QED BY <1>2, <2>1, InvFacts
<1>4. \A j \in Vectors : Local(i) # Local(j)
  BY <1>1, HolderFacts
<1> QED BY <1>1, <1>3, <1>4, var_gets

LEMMA GCPRO_keeps ==
  ASSUME RootsAssumptions, RootsInv, NEW v \in CVars, GCPRO(v)
  PROVE  RootsInv'
<1>1. gcpro' = Append(gcpro, v) /\ heap' = heap /\ free_lists' = free_lists /\ locals' = locals /\ var' = var /\ dyn' = dyn
      /\ bases' = bases
  BY DEF GCPRO
<1>2. gcpro \in Seq(CVars)
  BY DEF RootsInv
<1>3. gcpro' \in Seq(CVars) /\ Len(gcpro') = Len(gcpro) + 1 /\ \A i \in 1..Len(gcpro) : gcpro'[i] = gcpro[i]
  BY <1>1, <1>2, AppendProperties
<1>4. ToSet(gcpro) \subseteq ToSet(gcpro')
  <2>1. DOMAIN gcpro = 1..Len(gcpro) /\ DOMAIN gcpro' = 1..Len(gcpro') /\ Len(gcpro) \in Nat
    BY <1>2, <1>3, LenProperties
  <2> QED BY <1>3, <2>1 DEF ToSet
<1>5. \A u \in CVars \ Protected(gcpro') : var'[u] = 0
  BY <1>1, <1>4 DEF RootsInv, Protected
<1>6. Vectors' = Vectors /\ Bases(bases', Len(locals'))
  BY <1>1, SameBases
<1> QED BY <1>1, <1>3, <1>5, <1>6 DEF RootsInv

LEMMA FirstLocals ==
  ASSUME NEW fr \in Seq(Nat), NEW n \in 0..Len(fr)
  PROVE  Len(SubSeq(fr, 1, n)) = n
<1>1. n \in Int /\ 1 \in Int /\ \A i \in 1..n : fr[i] \in Nat
  BY LenProperties
<1> QED BY <1>1, SubSeqProperties

\* The first f functions, and the locals that they have
LEMMA FirstBases ==
  ASSUME RootsInv, NEW f \in Nat, f < Len(bases), bases' = SubSeq(bases, 1, f)
  PROVE  /\ bases[f + 1] \in 0..Len(locals) /\ bases[f + 1] + 1 \in Vectors
         /\ Bases(bases', bases[f + 1]) /\ Vectors' \subseteq Vectors
<1>1. /\ bases \in Seq(Nat) /\ Len(bases) \in Nat /\ (\A k \in 1..Len(bases) : bases[k] <= Len(locals))
      /\ (\A j, k \in 1..Len(bases) : j <= k => bases[j] <= bases[k])
      /\ DOMAIN bases = 1..Len(bases) /\ \A k \in 1..Len(bases) : bases[k] \in Nat
  BY LenProperties DEF RootsInv, Bases
<1>2. f + 1 \in 1..Len(bases) /\ f \in 0..Len(bases)
  BY <1>1
<1>3. Len(locals) \in Nat
  BY LenProperties DEF RootsInv, Good
<1>4. bases[f + 1] \in 0..Len(locals) /\ bases[f + 1] + 1 \in Vectors
  BY <1>1, <1>2, <1>3 DEF Vectors
<1>5. bases' \in Seq(Nat) /\ Len(bases') = f /\ \A i \in 1..f : bases'[i] = bases[i]
  <2>1. f \in Int /\ 1 \in Int /\ \A i \in 1..f : bases[i] \in Nat
    BY <1>1, <1>2
  <2> QED BY <2>1, SubSeqProperties
<1>6. \A k \in 1..f : k \in 1..Len(bases) /\ k <= f + 1
  BY <1>1
<1>7. Bases(bases', bases[f + 1])
  BY <1>1, <1>2, <1>5, <1>6 DEF Bases
<1>8. Vectors' \subseteq Vectors
  <2>1. DOMAIN bases' = 1..f
    BY <1>5, LenProperties
  <2> QED BY <1>1, <1>5, <1>6, <2>1 DEF Vectors
<1> QED BY <1>4, <1>7, <1>8

LEMMA Forgetting ==
  ASSUME RootsAssumptions, RootsInv, NEW g \in Seq(CVars), NEW f \in 0..Len(locals), Forget(g, f),
         locals' = SubSeq(locals, 1, f), free_lists' = free_lists, dyn' = dyn,
         Bases(bases', f), Vectors' \subseteq Vectors
  PROVE  RootsInv'
<1> DEFINE P == Protected(g)
           R == {Var(v) : v \in CVars \ P} \cup {Local(i) : i \in (f + 1)..Len(locals)}
           vs == [v \in CVars |-> IF v \in P THEN var[v] ELSE 0]
<1>1. gcpro' = g /\ var' = vs /\ heap' = Unheld(heap, R)
  BY DEF Forget
<1>2. Good(heap, free_lists, var, locals, ObjsOf(dyn), Vectors)
  BY DEF RootsInv
<1>3. Good(Unheld(heap, R), free_lists, vs, SubSeq(locals, 1, f), ObjsOf(dyn), Vectors')
  <2> HIDE DEF P
  <2>1. Good(Unheld(heap, R), free_lists, vs, SubSeq(locals, 1, f), ObjsOf(dyn), Vectors)
    BY <1>2, Forgotten
  <2> HIDE DEF R, vs
  <2> QED BY <2>1, OtherVectors
<1>4. \A v \in CVars \ Protected(gcpro') : var'[v] = 0
  BY <1>1
<1> HIDE DEF R, vs, P
<1>5. Good(heap', free_lists', var', locals', ObjsOf(dyn'), Vectors')
  <2>1. ObjsOf(dyn') = ObjsOf(dyn)
    OBVIOUS
  <2> QED BY <1>1, <1>3, <2>1
<1>6. gcpro' \in Seq(CVars) /\ dyn' \in Dynpros /\ IsRing(dyn')
  BY <1>1 DEF RootsInv
<1>7. /\ \A d \in Nodes \ LinkedIn(dyn') : dyn'[d].obj = 0
      /\ \A d \in Maybe : d \in LinkedIn(dyn') <=> dyn'[d].obj # 0
  BY DEF RootsInv
<1>8. Bases(bases', Len(locals'))
  <2>1. Len(locals') = f
    BY FirstLocals DEF RootsInv, Good
  <2> QED BY <2>1
<1> QED BY <1>4, <1>5, <1>6, <1>7, <1>8 DEF RootsInv

LEMMA AllOfSeq ==
  ASSUME NEW T, NEW s \in Seq(T)
  PROVE  /\ SubSeq(s, 1, Len(s)) = s
         /\ \A n \in 0..Len(s) : SubSeq(s, 1, n) \in Seq(T)
         /\ s # <<>> => Front(s) \in Seq(T)
<1>1. Len(s) \in Nat /\ (\A i \in 1..Len(s) : s[i] \in T) /\ (s # <<>> => Len(s) # 0)
  BY LenProperties, EmptySeq
<1>2. \A n \in 0..Len(s) : SubSeq(s, 1, n) \in Seq(T)
  <2> TAKE n \in 0..Len(s)
  <2>1. n \in Int /\ 1 \in Int /\ \A i \in 1..n : s[i] \in T
    BY <1>1
  <2> QED BY <2>1, SubSeqProperties
<1>3. SubSeq(s, 1, Len(s)) = s
  BY <1>1
<1>4. s # <<>> => Front(s) \in Seq(T)
  <2>1. s # <<>> => Len(s) - 1 \in 0..Len(s)
    BY <1>1
  <2> QED BY <1>2, <2>1 DEF Front
<1> QED BY <1>2, <1>3, <1>4

LEMMA UNGCPRO_keeps ==
  ASSUME RootsAssumptions, RootsInv, UNGCPRO
  PROVE  RootsInv'
<1>1. gcpro # <<>> /\ Forget(Front(gcpro), Len(locals)) /\ free_lists' = free_lists /\ locals' = locals /\ dyn' = dyn
      /\ bases' = bases
  BY DEF UNGCPRO
<1>2. gcpro \in Seq(CVars) /\ locals \in Seq(Nat) /\ Len(locals) \in 0..Len(locals)
  BY LenProperties DEF RootsInv, Good
<1>3. Front(gcpro) \in Seq(CVars) /\ locals' = SubSeq(locals, 1, Len(locals))
  BY <1>1, <1>2, AllOfSeq
<1>4. Vectors' = Vectors /\ Bases(bases', Len(locals))
  BY <1>1, SameBases
<1> QED BY <1>1, <1>2, <1>3, <1>4, Forgetting

LEMMA error_unwinds_keeps ==
  ASSUME RootsAssumptions, RootsInv, NEW f \in Nat, NEW g \in Nat, error_unwinds(f, g)
  PROVE  RootsInv'
<1>1. /\ f < Len(bases) /\ g <= Len(gcpro) /\ locals' = SubSeq(locals, 1, bases[f + 1])
      /\ bases' = SubSeq(bases, 1, f)
      /\ Forget(SubSeq(gcpro, 1, g), bases[f + 1]) /\ free_lists' = free_lists /\ dyn' = dyn
  BY DEF error_unwinds
<1>2. gcpro \in Seq(CVars) /\ Len(gcpro) \in Nat
  BY LenProperties DEF RootsInv
<1>3. g \in 0..Len(gcpro)
  BY <1>1, <1>2
<1>4. SubSeq(gcpro, 1, g) \in Seq(CVars)
  BY <1>2, <1>3, AllOfSeq
<1>5. bases[f + 1] \in 0..Len(locals) /\ Bases(bases', bases[f + 1]) /\ Vectors' \subseteq Vectors
  BY <1>1, FirstBases
<1> QED BY <1>1, <1>4, <1>5, Forgetting

\* One dynpro gets the object o, or lets go of it
LEMMA DynStep ==
  ASSUME RootsInv, NEW d \in Nodes, NEW o \in Nat, dyn' \in Dynpros, IsRing(dyn'),
         \A e \in Nodes : dyn'[e].obj = IF e = d THEN o ELSE dyn[e].obj,
         \A e \in Nodes : e # d => (e \in LinkedIn(dyn') <=> e \in LinkedIn(dyn)),
         d \notin LinkedIn(dyn') => o = 0, d \in Maybe /\ d \in LinkedIn(dyn') => o # 0,
         Good(heap', free_lists, var, locals, [ObjsOf(dyn) EXCEPT ![d] = o], Vectors),
         free_lists' = free_lists, var' = var, locals' = locals, bases' = bases, gcpro' = gcpro, Maybe \subseteq Nodes
  PROVE  RootsInv'
<1>1. ObjsOf(dyn') = [ObjsOf(dyn) EXCEPT ![d] = o]
  BY DEF ObjsOf
<1>6. Vectors' = Vectors /\ Bases(bases', Len(locals'))
  BY SameBases
<1>2. Good(heap', free_lists', var', locals', ObjsOf(dyn'), Vectors')
  BY <1>1, <1>6
<1>3. \A e \in Nodes \ LinkedIn(dyn') : dyn'[e].obj = 0
  BY DEF RootsInv
<1>4. \A e \in Maybe : e \in LinkedIn(dyn') <=> dyn'[e].obj # 0
  <2> TAKE e \in Maybe
  <2>1. e \in Nodes /\ (e \in LinkedIn(dyn) <=> dyn[e].obj # 0)
    BY DEF RootsInv
  <2>2. CASE e = d
    BY <2>1, <2>2
  <2>3. CASE e # d
    BY <2>1, <2>3
  <2> QED BY <2>2, <2>3
<1>5. gcpro' \in Seq(CVars) /\ \A v \in CVars \ Protected(gcpro') : var'[v] = 0
  BY DEF RootsInv
<1> QED BY <1>2, <1>3, <1>4, <1>5, <1>6 DEF RootsInv

\* A dynpro that was not linked is
LEMMA Linking ==
  ASSUME RootsAssumptions, RootsInv, NEW d \in Nodes, d \notin LinkedIn(dyn), NEW o,
         o = 0 \/ \E v \in CVars : o = var[v], d \in Maybe => o # 0,
         dyn' = Inserted(d, o), heap' = HeldAt(heap, o, Dyn(d)),
         free_lists' = free_lists, var' = var, locals' = locals, bases' = bases, gcpro' = gcpro
  PROVE  RootsInv'
<1>1. Ends /\ o \in Nat /\ dyn \in Dynpros /\ IsRing(dyn) /\ Maybe \subseteq Nodes /\ HEAD \notin Nodes
  BY InvFacts DEF RootsInv, RootsAssumptions
<1>2. /\ IsRing(dyn') /\ LinkedIn(dyn') = LinkedIn(dyn) \cup {d} /\ dyn[HEAD].next # UNLINKED
  BY <1>1, InsertedRing
<1>3. dyn' \in Dynpros /\ \A e \in Nodes : dyn'[e].obj = IF e = d THEN o ELSE dyn[e].obj
  BY <1>1, <1>2, InsertedFacts
<1>4. Good(heap, free_lists, var, locals, ObjsOf(dyn), Vectors)
  BY DEF RootsInv
<1>5. Good(HeldAt(heap, o, Dyn(d)), free_lists, var, locals, [ObjsOf(dyn) EXCEPT ![d] = o], Vectors)
  BY <1>4, Given
<1>6. Good(heap', free_lists, var, locals, [ObjsOf(dyn) EXCEPT ![d] = o], Vectors)
  BY <1>5
<1>7. \A e \in Nodes : e # d => (e \in LinkedIn(dyn') <=> e \in LinkedIn(dyn))
  BY <1>2
<1> QED BY <1>1, <1>2, <1>3, <1>6, <1>7, DynStep

\* One that was linked is no longer
LEMMA Unlinking ==
  ASSUME RootsAssumptions, RootsInv, NEW d \in LinkedIn(dyn),
         dyn' = Removed(d), Good(heap', free_lists, var, locals, [ObjsOf(dyn) EXCEPT ![d] = 0], Vectors),
         free_lists' = free_lists, var' = var, locals' = locals, bases' = bases, gcpro' = gcpro
  PROVE  RootsInv'
<1>1. Ends /\ dyn \in Dynpros /\ IsRing(dyn) /\ Maybe \subseteq Nodes /\ HEAD \notin Nodes /\ d \in Nodes
  BY InvFacts DEF RootsInv, RootsAssumptions, LinkedIn
<1>2. IsRing(dyn') /\ LinkedIn(dyn') = LinkedIn(dyn) \ {d}
  BY <1>1, RemovedRing
<1>3. dyn' \in Dynpros /\ \A e \in Nodes : dyn'[e].obj = IF e = d THEN 0 ELSE dyn[e].obj
  BY <1>1, RemovedFacts
<1>4. \A e \in Nodes : e # d => (e \in LinkedIn(dyn') <=> e \in LinkedIn(dyn))
  BY <1>2
<1>5. d \notin LinkedIn(dyn')
  BY <1>2
<1> QED BY <1>1, <1>2, <1>3, <1>4, <1>5, DynStep

LEMMA dynpro_keeps ==
  ASSUME RootsAssumptions, RootsInv, NEW d \in Nodes, NEW v \in CVars, dynpro(d, v)
  PROVE  RootsInv'
<1>1. /\ d \notin LinkedIn(dyn) /\ d \notin Maybe
      /\ dyn' = Inserted(d, var[v]) /\ heap' = HeldAt(heap, var[v], Dyn(d))
      /\ free_lists' = free_lists /\ var' = var /\ locals' = locals /\ bases' = bases /\ gcpro' = gcpro
  BY DEF dynpro, Linked, LinkedIn
<1> QED BY <1>1, Linking

LEMMA undynpro_keeps ==
  ASSUME RootsAssumptions, RootsInv, NEW d \in Nodes, undynpro(d)
  PROVE  RootsInv'
<1>1. /\ d \in LinkedIn(dyn)
      /\ dyn' = Removed(d) /\ heap' = Unheld(heap, {Dyn(d)})
      /\ free_lists' = free_lists /\ var' = var /\ locals' = locals /\ bases' = bases /\ gcpro' = gcpro
  BY DEF undynpro, Linked, LinkedIn
<1>2. Good(heap, free_lists, var, locals, ObjsOf(dyn), Vectors)
  BY DEF RootsInv
<1>3. Good(Unheld(heap, {Dyn(d)}), free_lists, var, locals, [ObjsOf(dyn) EXCEPT ![d] = 0], Vectors)
  BY <1>2, Ungiven
<1>4. Good(heap', free_lists, var, locals, [ObjsOf(dyn) EXCEPT ![d] = 0], Vectors)
  BY <1>1, <1>3
<1> QED BY <1>1, <1>4, Unlinking

LEMMA maybe_dynpro_keeps ==
  ASSUME RootsAssumptions, RootsInv, NEW d \in Maybe, NEW o, o = 0 \/ \E v \in CVars : o = var[v], maybe_dynpro(d, o)
  PROVE  RootsInv'
<1>1. /\ dyn' = IF dyn[d].obj = 0 /\ o # 0 THEN Inserted(d, o)
                ELSE IF dyn[d].obj # 0 /\ o = 0 THEN Removed(d) ELSE [dyn EXCEPT ![d].obj = o]
      /\ heap' = HeldAt(heap, o, Dyn(d))
      /\ free_lists' = free_lists /\ var' = var /\ locals' = locals /\ bases' = bases /\ gcpro' = gcpro
  BY DEF maybe_dynpro
<1>2. /\ Ends /\ o \in Nat /\ dyn \in Dynpros /\ IsRing(dyn) /\ Maybe \subseteq Nodes /\ HEAD \notin Nodes /\ d \in Nodes
      /\ (d \in LinkedIn(dyn) <=> dyn[d].obj # 0)
  BY InvFacts DEF RootsInv, RootsAssumptions
<1>3. Good(heap, free_lists, var, locals, ObjsOf(dyn), Vectors)
  BY DEF RootsInv
<1>4. Good(HeldAt(heap, o, Dyn(d)), free_lists, var, locals, [ObjsOf(dyn) EXCEPT ![d] = o], Vectors)
  BY <1>2, <1>3, Given
<1>5. Good(heap', free_lists, var, locals, [ObjsOf(dyn) EXCEPT ![d] = o], Vectors)
  BY <1>1, <1>4
<1>6. CASE dyn[d].obj = 0 /\ o # 0
  BY <1>1, <1>2, <1>6, Linking
<1>7. CASE dyn[d].obj # 0 /\ o = 0
  BY <1>1, <1>2, <1>5, <1>7, Unlinking
<1>8. CASE dyn[d].obj = 0 <=> o = 0
  <2> DEFINE E == [dyn EXCEPT ![d].obj = o]
  <2>1. dyn' = E
    BY <1>1, <1>8
  <2>2. /\ DOMAIN dyn = Nodes \cup {HEAD} /\ dyn \in [Nodes \cup {HEAD} -> Dynpro]
        /\ \A x \in Nodes \cup {HEAD} : dyn[x] \in Dynpro
    BY <1>2 DEF Dynpros
  <2>3. E = [x \in Nodes \cup {HEAD} |-> IF x = d THEN [dyn[x] EXCEPT !.obj = o] ELSE dyn[x]]
    BY <1>2, <2>2
  <2>4. \A x \in Nodes \cup {HEAD} : IsEntry(E[x], dyn[x].next, dyn[x].prev, IF x = d THEN o ELSE dyn[x].obj)
    <3> TAKE x \in Nodes \cup {HEAD}
    <3>1. E[x] = IF x = d THEN [dyn[x] EXCEPT !.obj = o] ELSE dyn[x]
      BY <2>3
    <3> HIDE DEF E
    <3>2. CASE x = d
      <4>1. E[x] = [dyn[x] EXCEPT !.obj = o] /\ dyn[x] \in Dynpro
        BY <2>2, <3>1, <3>2
      <4> QED BY <1>2, <3>2, <4>1 DEF IsEntry, Dynpro
    <3>3. CASE x # d
      BY <2>2, <3>1, <3>3 DEF IsEntry
    <3> QED BY <3>2, <3>3
  <2> HIDE DEF E
  <2>5. E \in Dynpros
    <3>1. \A x \in Nodes \cup {HEAD} : E[x] \in Dynpro
      BY <2>4 DEF IsEntry
    <3>2. E = [x \in Nodes \cup {HEAD} |-> E[x]]
      BY <2>3
    <3> QED BY <3>1, <3>2 DEF Dynpros
  <2>6. \A x \in Nodes \cup {HEAD} : E[x].next = dyn[x].next /\ E[x].prev = dyn[x].prev
    BY <2>4 DEF IsEntry
  <2>7. IsRing(E) /\ LinkedIn(E) = LinkedIn(dyn)
    BY <1>2, <2>6, RingKept
  <2>8. \A e \in Nodes : dyn'[e].obj = IF e = d THEN o ELSE dyn[e].obj
    BY <2>1, <2>4 DEF IsEntry
  <2>9. dyn' \in Dynpros /\ IsRing(dyn') /\ LinkedIn(dyn') = LinkedIn(dyn)
    BY <2>1, <2>5, <2>7
  <2>10. (d \notin LinkedIn(dyn') => o = 0) /\ (d \in LinkedIn(dyn') => o # 0)
    BY <1>2, <1>8, <2>9
  <2> QED BY <1>1, <1>2, <1>5, <2>8, <2>9, <2>10, DynStep
<1> QED BY <1>6, <1>7, <1>8

\* A function starts with what the others have left
LEMMA NewBase ==
  ASSUME RootsInv, bases' = Append(bases, Len(locals))
  PROVE  /\ Vectors' \subseteq Vectors \cup {Len(locals) + 1}
         /\ \A n \in Nat : Len(locals) <= n => Bases(bases', n)
<1>1. /\ bases \in Seq(Nat) /\ Len(bases) \in Nat /\ (\A k \in 1..Len(bases) : bases[k] <= Len(locals))
      /\ (\A j, k \in 1..Len(bases) : j <= k => bases[j] <= bases[k])
      /\ DOMAIN bases = 1..Len(bases) /\ \A k \in 1..Len(bases) : bases[k] \in Nat
  BY LenProperties DEF RootsInv, Bases
<1>2. Len(locals) \in Nat
  BY LenProperties DEF RootsInv, Good
<1>3. /\ bases' \in Seq(Nat) /\ Len(bases') = Len(bases) + 1 /\ bases'[Len(bases) + 1] = Len(locals)
      /\ \A k \in 1..Len(bases) : bases'[k] = bases[k]
  BY <1>1, <1>2, AppendProperties
<1>4. \A k \in 1..Len(bases') : k \in 1..Len(bases) \/ k = Len(bases) + 1
  BY <1>1, <1>3
<1>5. Vectors' \subseteq Vectors \cup {Len(locals) + 1}
  <2>1. DOMAIN bases' = 1..Len(bases')
    BY <1>3, LenProperties
  <2> QED BY <1>1, <1>3, <1>4, <2>1 DEF Vectors
<1>6. \A k \in 1..Len(bases') : bases'[k] \in Nat /\ bases'[k] <= Len(locals)
  BY <1>1, <1>2, <1>3, <1>4
<1>7. \A j, k \in 1..Len(bases') : j <= k => bases'[j] <= bases'[k]
  <2> TAKE j, k \in 1..Len(bases')
  <2> HAVE j <= k
  <2>1. CASE k = Len(bases) + 1
    BY <1>3, <1>6, <2>1
  <2>2. CASE k # Len(bases) + 1
    <3>1. k \in 1..Len(bases) /\ j \in 1..Len(bases)
      BY <1>1, <1>3, <1>4, <2>2
    <3> QED BY <1>1, <1>3, <3>1
  <2> QED BY <2>1, <2>2
<1>8. ASSUME NEW n \in Nat, Len(locals) <= n PROVE Bases(bases', n)
  <2>1. \A k \in 1..Len(bases') : bases'[k] <= n
    BY <1>2, <1>6, <1>8
  <2> QED BY <1>3, <1>7, <2>1 DEF Bases
<1> QED BY <1>5, <1>8

LEMMA allocate_locals_keeps ==
  ASSUME RootsAssumptions, RootsInv, NEW n \in Nat, allocate_locals(n)
  PROVE  RootsInv'
<1>1. bases' = Append(bases, Len(locals)) /\ gcpro' = gcpro
  BY DEF allocate_locals
<1>2. /\ Vectors' \subseteq Vectors \cup {Len(locals) + 1}
      /\ \A k \in Nat : Len(locals) <= k => Bases(bases', k)
  BY <1>1, NewBase
<1>3. Len(locals) \in Nat /\ FREE_SIZES \in Nat
  BY LenProperties DEF RootsInv, Good, RootsAssumptions
<1>4. CASE n = 0
  <2>1. heap' = heap /\ free_lists' = free_lists /\ locals' = locals /\ var' = var /\ dyn' = dyn
    BY <1>4 DEF allocate_locals
  <2>2. Good(heap, free_lists, var, locals, ObjsOf(dyn), Vectors)
    BY DEF RootsInv
  <2>3. Good(heap, free_lists, var, locals, ObjsOf(dyn), Vectors')
    BY <1>2, <2>2, OtherVectors
  <2>4. Good(heap', free_lists', var', locals', ObjsOf(dyn), Vectors') /\ Bases(bases', Len(locals'))
    BY <1>2, <1>3, <2>1, <2>3
  <2>5. \A v \in CVars \ Protected(gcpro) : var'[v] = 0
    BY <2>1 DEF RootsInv
  <2> QED BY <1>1, <2>1, <2>4, <2>5, SameDynpros
<1>5. CASE n # 0
  <2> DEFINE h == gc_reserve((n + 1) + n * 2)
             S == VectorOf(h, n)
  <2>1. /\ heap' = S.heap /\ free_lists' = S.lists /\ locals' = S.locals /\ var' = h.var /\ dyn' = Objs(h)
    BY <1>5 DEF allocate_locals
  <2>2. GoodState(h) /\ Unprotected(h)
    BY gc_reserve_facts
  <2> HIDE DEF h
  <2>3. Good(h.heap, h.lists, h.var, h.locals, h.obj, Vectors) /\ Len(h.locals) = Len(locals)
    BY <2>2 DEF GoodState, Unprotected
  <2>4. Good(h.heap, h.lists, h.var, h.locals, h.obj, Vectors')
    BY <1>2, <2>3, OtherVectors
  <2>5. S \in Filling(h, Len(h.locals), Vectors')
    BY <1>3, <2>4, VectorFilled
  <2> HIDE DEF S
  <2>6. /\ Good(S.heap, S.lists, S.var, S.locals, S.obj, Vectors')
        /\ S.var = h.var /\ S.obj = h.obj /\ Len(h.locals) <= Len(S.locals)
    BY <2>5 DEF Filling
  <2>7. Good(heap', free_lists', var', locals', h.obj, Vectors')
    BY <2>1, <2>6
  <2>8. Bases(bases', Len(locals'))
    <3>1. Len(locals') \in Nat
      BY <2>7, LenProperties DEF Good
    <3> QED BY <1>2, <2>1, <2>3, <2>6, <3>1
  <2>9. \A v \in CVars \ Protected(gcpro) : var'[v] = 0
    BY <2>1, <2>2 DEF Unprotected
  <2> QED BY <1>1, <2>1, <2>2, <2>7, <2>8, <2>9, NewHeap
<1> QED BY <1>4, <1>5

LEMMA free_locals_keeps ==
  ASSUME RootsAssumptions, RootsInv, free_locals
  PROVE  RootsInv'
<1> DEFINE base == Last(bases)
           R == {Local(i) : i \in (base + 1)..Len(locals)}
           h == Unheld(heap, R)
           p == locals[base + 1]
           fr == SubSeq(locals, 1, base)
<1>1. /\ bases # <<>> /\ locals' = fr /\ bases' = Front(bases) /\ gcpro' = gcpro /\ var' = var /\ dyn' = dyn
      /\ IF base = Len(locals) THEN heap' = heap /\ free_lists' = free_lists ELSE gc_free(h, p)
  BY DEF free_locals
<1>2. Good(heap, free_lists, var, locals, ObjsOf(dyn), Vectors) /\ FREE_SIZES \in Nat
  BY DEF RootsInv, RootsAssumptions
<1>3. /\ base \in 0..Len(locals) /\ base + 1 \in Vectors
      /\ Bases(bases', base) /\ Vectors' \subseteq Vectors
  <2> DEFINE f == Len(bases) - 1
  <2>1. f \in Nat /\ f < Len(bases) /\ f + 1 = Len(bases)
    BY <1>1, LenProperties, EmptySeq DEF RootsInv, Bases
  <2>2. bases' = SubSeq(bases, 1, f) /\ base = bases[f + 1]
    BY <1>1, <2>1 DEF Front, Last
  <2> HIDE DEF f, base
  <2> QED BY <2>1, <2>2, FirstBases
<1>4. /\ Len(locals) \in Nat /\ locals \in Seq(Nat) /\ IsHeap(heap) /\ VectorsApart(heap, Vectors)
      /\ var \in [CVars -> Nat] /\ free_lists \in [0..FREE_SIZES - 1 -> Nat]
  BY <1>2, LenProperties DEF Good
<1> HIDE DEF base
<1>5. Good(h, free_lists, var, fr, ObjsOf(dyn), Vectors')
  <2>1. Good(Unheld(heap, {Var(v) : v \in CVars \ CVars} \cup R), free_lists,
             [v \in CVars |-> IF v \in CVars THEN var[v] ELSE 0], fr, ObjsOf(dyn), Vectors)
    BY <1>2, <1>3, Forgotten
  <2>2. {Var(v) : v \in CVars \ CVars} \cup R = R
    OBVIOUS
  <2>3. [v \in CVars |-> IF v \in CVars THEN var[v] ELSE 0] = var
    BY <1>4
  <2> HIDE DEF R, fr
  <2>4. Good(h, free_lists, var, fr, ObjsOf(dyn), Vectors)
    BY <2>1, <2>2, <2>3
  <2> QED BY <1>3, <2>4, OtherVectors
<1>6. Len(fr) = base
  BY <1>3, <1>4, FirstLocals
<1>7. Good(heap', free_lists', var', locals', ObjsOf(dyn), Vectors')
  <2>1. CASE base = Len(locals)
    <3>1. fr = locals
      BY <1>4, <2>1, AllOfSeq
    <3>2. heap' = heap /\ free_lists' = free_lists
      BY <1>1, <2>1
    <3>3. Good(heap, free_lists, var, locals, ObjsOf(dyn), Vectors')
      BY <1>2, <1>3, OtherVectors
    <3> QED BY <1>1, <3>1, <3>2, <3>3
  <2>2. CASE base # Len(locals)
    <3>1. base + 1 \in 1..Len(locals) /\ base + 1 \in Nat
      BY <1>3, <1>4, <2>2
    <3>2. Owns(heap, Local(base + 1), p) /\ p # 0
      <4>1. FrameOf(locals, base + 1) = p /\ p # 0
        BY <1>2, <3>1 DEF FrameOf, Good
      <4>2. Owns(heap, Local(base + 1), FrameOf(locals, base + 1))
        BY <1>2, <3>1 DEF Good
      <4> QED BY <4>1, <4>2
    <3> HIDE DEF p
    <3>3. p \in 1..Len(heap) /\ ~heap[p].free /\ heap[p].who = {Local(base + 1)}
      <4>1. p \in 1..Len(heap) /\ ~heap[p].free /\ Local(base + 1) \in heap[p].who
        BY <3>2 DEF Owns
      <4> QED BY <1>3, <1>4, <4>1 DEF VectorsApart
    <3>4. Local(base + 1) \in R
      BY <3>1
    <3> HIDE DEF R
    <3>5. /\ p \in 1..Len(h) /\ ~h[p].free /\ h[p].who = {} /\ h[p].len = heap[p].len /\ heap[p].len \in Nat
      <4>1. SameBlocks(h, heap) /\ h[p].who = heap[p].who \ R
        BY <1>4, <3>3, UnheldFacts
      <4>2. heap[p].who \ R = {}
        BY <3>3, <3>4
      <4>3. heap[p].len \in Nat
        BY <1>4, <3>3, HeapFacts
      <4> HIDE DEF h
      <4> QED BY <3>3, <4>1, <4>2, <4>3 DEF SameBlocks
    <3> HIDE DEF h
    <3>6. gc_free(h, p)
      BY <1>1, <2>2
    <3>7. CASE h[p].len >= FREE_SIZES
      <4>1. heap' = h /\ free_lists' = free_lists
        BY <3>6, <3>7 DEF gc_free
      <4> QED BY <1>1, <1>5, <4>1
    <3>8. CASE ~(h[p].len >= FREE_SIZES)
      <4>1. /\ heap' = GivenBack(h, p, free_lists[h[p].len])
            /\ free_lists' = [free_lists EXCEPT ![h[p].len] = p]
        BY <3>6, <3>8 DEF gc_free, GivenBack
      <4>2. h[p].len \in 0..FREE_SIZES - 1
        BY <1>2, <3>5, <3>8
      <4>3. Good(GivenBack(h, p, free_lists[h[p].len]), [free_lists EXCEPT ![h[p].len] = p], var, fr, ObjsOf(dyn), Vectors')
        BY <1>2, <1>5, <3>5, <4>2, Emptied
      <4> QED BY <1>1, <4>1, <4>3
    <3> QED BY <3>7, <3>8
  <2> QED BY <2>1, <2>2
<1>8. Bases(bases', Len(locals'))
  BY <1>1, <1>3, <1>6
<1> HIDE DEF p, h, R, fr
<1>9. \A v \in CVars \ Protected(gcpro) : var'[v] = 0
  BY <1>1 DEF RootsInv
<1> QED BY <1>1, <1>7, <1>8, <1>9, SameDynpros

\* What the invariant promises
LEMMA RootsPromise ==
  ASSUME RootsAssumptions, RootsInv PROVE RootsSound
<1>1. Good(heap, free_lists, var, locals, ObjsOf(dyn), Vectors) /\ IsHeap(heap) /\ FREE_SIZES \in Nat
  BY DEF RootsInv, Good, RootsAssumptions
<1>2. /\ \A v \in CVars : var[v] \in Nat
      /\ \A d \in Nodes : dyn[d].obj \in Nat /\ ObjsOf(dyn)[d] = dyn[d].obj
      /\ \A i \in 1..Len(locals) : locals[i] \in Nat /\ FrameOf(locals, i) = locals[i]
      /\ Ends
  BY InvFacts
<1>3. \A v \in Protected(gcpro) : Holds(Var(v), var[v])
  <2> TAKE v \in Protected(gcpro)
  <2>1. v \in CVars
    BY ProtectedVars DEF RootsInv
  <2>2. Owns(heap, Var(v), var[v])
    BY <1>1, <2>1 DEF Good
  <2> QED BY <1>1, <1>2, <2>1, <2>2, HoldsOwns
<1>4. \A d \in Nodes : Holds(Dyn(d), dyn[d].obj)
  <2> TAKE d \in Nodes
  <2>1. Owns(heap, Dyn(d), dyn[d].obj)
    BY <1>1, <1>2 DEF Good
  <2> QED BY <1>1, <1>2, <2>1, HoldsOwns
<1>5. \A i \in DOMAIN locals : Holds(Local(i), locals[i])
  <2>1. DOMAIN locals = 1..Len(locals) /\ Len(locals) \in Nat
    BY <1>1, LenProperties DEF Good
  <2> TAKE i \in DOMAIN locals
  <2>2. i \in 1..Len(locals) /\ i \in Nat
    BY <2>1
  <2>3. Owns(heap, Local(i), FrameOf(locals, i))
    BY <1>1, <2>2 DEF Good
  <2>4. Owns(heap, Local(i), locals[i]) /\ locals[i] \in Nat
    BY <1>2, <2>2, <2>3
  <2> QED BY <1>1, <2>4, HoldsOwns
<1>6. \A n \in DOMAIN free_lists : \E L \in SetToSeqs(FreeBlocks(n)) : FreeList(n, L)
  <2> TAKE n \in DOMAIN free_lists
  <2>1. n \in 0..FREE_SIZES - 1
    BY <1>1 DEF Good
  <2>2. Listed(heap, free_lists[n], n)
    BY <1>1, <2>1 DEF Good, AllListed
  <2> QED BY <1>1, <2>2, ListedDef
<1>7. \E L \in SetToSeqs(Linked) : DynList(L)
  <2>1. PICK L : IsOrder(L, LinkedIn(dyn)) /\ Ring(dyn, L)
    BY DEF RootsInv, IsRing
  <2>2. Linked = LinkedIn(dyn) /\ IsFiniteSet(LinkedIn(dyn))
    BY <1>2, LinkedFinite DEF Linked, LinkedIn
  <2>3. DynList(L)
    BY <2>1 DEF DynList, Ring
  <2>4. L \in SetToSeqs(LinkedIn(dyn))
    BY <2>1, <2>2, OrderDef
  <2> QED BY <2>2, <2>3, <2>4
<1>8. \A d \in Maybe : d \in Linked <=> dyn[d].obj # 0
  <2>1. Linked = LinkedIn(dyn)
    BY DEF Linked, LinkedIn
  <2> QED BY <2>1 DEF RootsInv
<1> QED BY <1>3, <1>4, <1>5, <1>6, <1>7, <1>8 DEF RootsSound, AllHeld, ListedBothWays

LEMMA RootsStep ==
  ASSUME RootsAssumptions, RootsInv, [RootsNext]_root_vars
  PROVE  RootsInv'
<1> USE DEF RootsNext
<1>0. Maybe \subseteq Nodes /\ Sizes \subseteq Nat
  BY DEF RootsAssumptions
<1>1. CASE collect_garbage
  BY <1>1, collect_garbage_keeps
<1>2. CASE \E v \in CVars : \E n \in Sizes : gc_allocate(v, n)
  BY <1>2, gc_allocate_keeps
<1>3. CASE \E v, w \in CVars : assign_var(v, w)
  BY <1>3, assign_var_keeps
<1>4. CASE \E v \in CVars : GCPRO(v)
  BY <1>4, GCPRO_keeps
<1>5. CASE UNGCPRO
  BY <1>5, UNGCPRO_keeps
<1>6. CASE \E d \in Nodes : \E v \in CVars : dynpro(d, v)
  BY <1>6, dynpro_keeps
<1>7. CASE \E d \in Nodes : undynpro(d)
  BY <1>7, undynpro_keeps
<1>8. CASE \E d \in Maybe : \E v \in Protected(gcpro) : maybe_dynpro(d, var[v])
  <2>1. Protected(gcpro) \subseteq CVars
    BY ProtectedVars DEF RootsInv
  <2>2. PICK d \in Maybe, v \in Protected(gcpro) : maybe_dynpro(d, var[v])
    BY <1>8
  <2>3. v \in CVars /\ maybe_dynpro(d, var[v])
    BY <2>1, <2>2
  <2> QED BY <2>3, maybe_dynpro_keeps
<1>9. CASE \E d \in Maybe : maybe_dynpro(d, 0)
  BY <1>9, maybe_dynpro_keeps
<1>10. CASE \E n \in Sizes \cup {0} : allocate_locals(n)
  BY <1>0, <1>10, allocate_locals_keeps
<1>11. CASE free_locals
  BY <1>11, free_locals_keeps
<1>12. CASE \E f \in 0..MaxRunning, g \in 0..MaxProtected : error_unwinds(f, g)
  <2>1. PICK f \in 0..MaxRunning, g \in 0..MaxProtected : error_unwinds(f, g)
    BY <1>12
  <2>2. f \in Nat /\ g \in Nat
    BY <2>1
  <2> QED BY <2>1, <2>2, error_unwinds_keeps
<1>14. CASE \E v \in CVars : \E i \in DOMAIN locals : closure_var_local(v, i)
  BY <1>14, closure_var_local_keeps
<1>13. CASE UNCHANGED root_vars
  <2>1. heap' = heap /\ free_lists' = free_lists /\ locals' = locals /\ gcpro' = gcpro /\ var' = var /\ dyn' = dyn
        /\ bases' = bases
    BY <1>13 DEF root_vars
  <2>2. Vectors' = Vectors /\ Bases(bases', Len(locals'))
    BY <2>1, SameBases
  <2>3. Good(heap', free_lists', var', locals', ObjsOf(dyn), Vectors') /\ \A v \in CVars \ Protected(gcpro) : var'[v] = 0
    BY <2>1, <2>2 DEF RootsInv
  <2> QED BY <2>1, <2>2, <2>3, SameDynpros
<1> QED BY <1>1, <1>2, <1>3, <1>4, <1>5, <1>6, <1>7, <1>8, <1>9, <1>10, <1>11, <1>12, <1>13, <1>14

(***************************************************************************)
(* The theorem: whoever holds an object, as a protected C variable, a      *)
(* dynpro or a function with its vector of locals and the variables in it, *)
(* holds the object that it was given and no other, through allocations    *)
(* and calls that take from the free lists, captures of locals, frees,     *)
(* collections and errors; the free lists are orders of the free blocks of *)
(* their sizes, and the list of dynpros runs through those in use.         *)
(***************************************************************************)
THEOREM RootsSafety == RootsAssumptions => (RootsSpec => []RootsSound)
<1> SUFFICES ASSUME RootsAssumptions PROVE RootsSpec => []RootsSound
  OBVIOUS
<1>1. RootsInit => RootsInv
  BY RootsStart
<1>2. RootsInv /\ [RootsNext]_root_vars => RootsInv'
  BY RootsStep
<1>3. RootsInv => RootsSound
  BY RootsPromise
<1> QED BY <1>1, <1>2, <1>3, PTL DEF RootsSpec
=============================================================================

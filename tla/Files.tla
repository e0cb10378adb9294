------------------------------- MODULE Files --------------------------------
(***************************************************************************)
(* Open files of mudlle programs (runtime/files.c).  A file object is a    *)
(* weak reference to the C data that hold the FILE; its port, made on      *)
(* demand, is protected from there.  A file that the program drops is      *)
(* closed by the next collection, and a collection is forced when too many *)
(* are open.  All files here are open on one file on disk; stdio is taken  *)
(* to write at once, and to free a FILE in fclose() even if that fails.    *)
(***************************************************************************)
EXTENDS Naturals, Integers, Sequences, FiniteSets, FiniteSetsExt, SequencesExt

CONSTANTS FileObjects,
          MAX_MUDLLE_OPEN_FILES,    \* 128 in the code
          CloseFails,               \* what fclose() may answer: a set of BOOLEAN
          BUFSIZE, MAXSIZE,         \* of print_file_part()
          MAX_STRING_SIZE,
          MaxDisk                   \* bound on the length of the file on disk

FileAssumption == /\ IsFiniteSet(FileObjects) /\ MAX_MUDLLE_OPEN_FILES \in Nat
                  /\ CloseFails \subseteq BOOLEAN
                  /\ BUFSIZE \in Nat \ {0} /\ MAXSIZE \in Nat /\ MAX_STRING_SIZE \in Nat
                  /\ MaxDisk \in Nat
ASSUME FileAssumption

VARIABLES data,         \* the C data of each file object
          reach,        \* the files, and the ports, that the program reaches
          mudlle_file_count,
          disk,         \* the bytes of the file on disk
          answer,       \* of the last operation
          fault         \* what must not happen: "abort", "undefined"

file_vars == <<data, reach, mudlle_file_count, disk, answer, fault>>

\* f: the pointer to the FILE; FILE: whether that is open
NoFile == [object |-> FALSE, f |-> FALSE, FILE |-> FALSE, writable |-> FALSE, pos |-> 0, port |-> "none", linked |-> FALSE]
Opened(writable) == [NoFile EXCEPT !.object = TRUE, !.f = TRUE, !.FILE = TRUE, !.writable = writable]

NoReach == [file |-> {}, port |-> {}]
Done == [op |-> "none"]
FilesInit == /\ data = [o \in FileObjects |-> NoFile] /\ reach = NoReach
             /\ mudlle_file_count = 0 /\ disk = <<>>
             /\ answer = Done /\ fault = "none"

(***************************************************************************)
(* Closing                                                                 *)
(***************************************************************************)
close_mudlle_file_oport(d) == IF d.linked THEN [d EXCEPT !.port = "closed", !.linked = FALSE] ELSE d

\* What is left of a file object after its finalizer; a port that the program
\* has lives on, closed
Freed(d) == [NoFile EXCEPT !.port = close_mudlle_file_oport(d).port]

\* The collector calls free_mudlle_file() for every object that is not
\* reached, and drops ports that nobody has
Orphans == {o \in FileObjects : data[o].object /\ o \notin reach.file}
Dropped(d, o) == IF d.port # "none" /\ ~d.linked /\ o \notin reach.port THEN [d EXCEPT !.port = "none"] ELSE d
Collected == [o \in FileObjects |-> Dropped(IF o \in Orphans THEN Freed(data[o]) ELSE data[o], o)]
Counted == {o \in Orphans : data[o].f}
\* Mutant: a finalized file is still counted
CountAfter_Kept == mudlle_file_count
CountAfter == mudlle_file_count - Cardinality(Counted)
FaultAfter == IF fault # "none" THEN fault
              ELSE IF CountAfter < 0 THEN "abort"                \* assert(mudlle_file_count > 0)
              ELSE IF \E o \in Counted : ~data[o].FILE THEN "undefined" ELSE "none"

garbage_collect ==
  /\ data' = Collected /\ mudlle_file_count' = CountAfter /\ fault' = FaultAfter
  /\ answer' = Done
  /\ UNCHANGED <<reach, disk>>

(***************************************************************************)
(* Opening and closing                                                     *)
(***************************************************************************)
file_open(o, writable, truncates) ==
  LET full == mudlle_file_count >= MAX_MUDLLE_OPEN_FILES
      after == IF full THEN Collected ELSE data
      count == IF full THEN CountAfter ELSE mudlle_file_count
  IN  /\ after[o] = NoFile /\ o \notin reach.file \cup reach.port
      /\ disk' = IF truncates THEN <<>> ELSE disk
      /\ fault' = IF full THEN FaultAfter ELSE fault
      /\ IF count >= MAX_MUDLLE_OPEN_FILES
         THEN /\ answer' = [op |-> "open", errno |-> "EMFILE"]
              /\ data' = after /\ mudlle_file_count' = count
              /\ UNCHANGED reach
         ELSE /\ answer' = [op |-> "open", errno |-> "none"]
              /\ mudlle_file_count' = count + 1
              /\ data' = [after EXCEPT ![o] = Opened(writable)]
              /\ reach' = [reach EXCEPT !.file = @ \cup {o}]

file_close(o, fails) ==
  /\ o \in reach.file /\ data[o].f
  /\ mudlle_file_count' = mudlle_file_count - 1
  /\ data' = [data EXCEPT ![o] = [close_mudlle_file_oport(data[o]) EXCEPT !.FILE = FALSE, !.f = fails]]
  /\ fault' = IF data[o].FILE THEN fault ELSE "undefined"
  /\ answer' = [op |-> "close", errno |-> IF fails THEN "EIO" ELSE "none"]
  /\ UNCHANGED <<reach, disk>>

file_oport(o) ==
  /\ o \in reach.file /\ data[o].f /\ data[o].writable
  /\ data' = IF data[o].linked THEN data ELSE [data EXCEPT ![o].port = "open", ![o].linked = TRUE]
  /\ reach' = [reach EXCEPT !.port = @ \cup {o}]
  /\ answer' = Done
  /\ UNCHANGED <<mudlle_file_count, disk, fault>>

\* The program loses a file or a port
forget(o, what) ==
  /\ o \in reach[what]
  /\ reach' = [reach EXCEPT ![what] = @ \ {o}]
  /\ answer' = Done
  /\ UNCHANGED <<data, mudlle_file_count, disk, fault>>

(***************************************************************************)
(* Reading and writing.  The C functions get the FILE of a file object, or *)
(* open the file that is named for the length of the call.                 *)
(***************************************************************************)
ByName == "name"
Handles == {ByName} \cup {o \in reach.file : data[o].f}
PositionOf(h) == IF h = ByName THEN 0 ELSE data[h].pos
Moved(h, pos) == IF h = ByName THEN data ELSE [data EXCEPT ![h].pos = pos]
Used(h) == fault' = IF h # ByName /\ ~data[h].FILE THEN "undefined" ELSE fault
Bytes(from, to) == SubSeq(disk, from + 1, to)
Least(a, b) == IF a < b THEN a ELSE b

\* One pass of the loop of print_file_part(): `bytes' is negative for all,
\* `size' how much the output port holds; r is "loop" before the loop ends
Pass(p) ==
  LET toread == IF p.bytes < 0 \/ p.bytes > BUFSIZE THEN BUFSIZE ELSE p.bytes
      res == Least(toread, IF p.pos < Len(disk) THEN Len(disk) - p.pos ELSE 0)
      read == [p EXCEPT !.pos = @ + res, !.size = @ + res]
  IN  IF p.r # "loop" THEN p
      ELSE IF p.bytes = 0 THEN [p EXCEPT !.r = "all"]
      ELSE IF read.size >= MAXSIZE THEN [read EXCEPT !.r = "full"]
      ELSE [read EXCEPT !.text = @ \o Bytes(p.pos, read.pos),
                        !.bytes = IF @ >= 0 THEN @ - res ELSE @,
                        !.r = IF res < toread THEN "all" ELSE "loop"]
\* Every pass but the last two reads at least one byte
Pieces(pos, bytes, size) ==
  LET passes[n \in Nat] ==
        IF n = 0 THEN [pos |-> pos, bytes |-> bytes, size |-> size, text |-> <<>>, r |-> "loop"]
        ELSE Pass(passes[n - 1])
  IN  passes[Len(disk) + 2]

print_file_part(h, start, bytes, size) ==
  /\ h \in Handles /\ PositionOf(h) + start <= MaxDisk
  /\ LET p == Pieces(PositionOf(h) + start, bytes, size) IN
     /\ answer' = [op |-> "print", from |-> PositionOf(h) + start, bytes |-> bytes, size |-> size,
                   text |-> p.text, r |-> IF p.r = "full" THEN -1 ELSE 0]
     /\ data' = Moved(h, p.pos)
  /\ Used(h)
  /\ UNCHANGED <<reach, mudlle_file_count, disk>>

\* How much is read is worked out from the size of the file on disk
file_read(h) ==
  LET opos == PositionOf(h)
      size == IF Len(disk) >= opos THEN Least(Len(disk) - opos, MAX_STRING_SIZE) ELSE MAX_STRING_SIZE
      end == IF opos < Len(disk) THEN Least(opos + size, Len(disk)) ELSE opos
  IN  /\ h \in Handles
      /\ answer' = [op |-> "read", from |-> opos, text |-> Bytes(opos, end)]
      /\ data' = Moved(h, end)
      /\ Used(h)
      /\ UNCHANGED <<reach, mudlle_file_count, disk>>

\* n bytes at pos; a gap is filled with 0
Written(pos, n, b) ==
  [i \in 1..(IF pos + n > Len(disk) THEN pos + n ELSE Len(disk)) |->
     IF i \in (pos + 1)..(pos + n) THEN b ELSE IF i <= Len(disk) THEN disk[i] ELSE 0]

file_write(h, n, b, do_append) ==
  /\ h \in Handles /\ (h # ByName => data[h].writable)
  /\ IF h = ByName
     THEN /\ disk' = (IF do_append THEN disk ELSE <<>>) \o [i \in 1..n |-> b]
          /\ UNCHANGED data
     ELSE disk' = Written(PositionOf(h), n, b) /\ data' = Moved(h, PositionOf(h) + n)
  /\ Len(disk') <= MaxDisk
  /\ answer' = Done /\ Used(h)
  /\ UNCHANGED <<reach, mudlle_file_count>>

\* Output to a port goes to the FILE of its file; to a closed one nowhere
port_write(o, b) ==
  /\ o \in reach.port
  /\ IF data[o].port = "closed" THEN UNCHANGED <<data, disk, fault>>
     ELSE disk' = Written(data[o].pos, 1, b) /\ data' = Moved(o, data[o].pos + 1) /\ Used(o)
  /\ Len(disk') <= MaxDisk
  /\ answer' = Done
  /\ UNCHANGED <<reach, mudlle_file_count>>

file_seek(o, pos) ==
  /\ o \in Handles \ {ByName}
  /\ data' = Moved(o, pos) /\ Used(o) /\ answer' = Done
  /\ UNCHANGED <<reach, mudlle_file_count, disk>>

file_truncate(h, len) ==
  /\ h \in Handles /\ (h # ByName => data[h].writable)
  /\ disk' = [i \in 1..len |-> IF i <= Len(disk) THEN disk[i] ELSE 0]
  /\ data' = IF PositionOf(h) > len THEN Moved(h, len) ELSE data
  /\ answer' = Done /\ Used(h)
  /\ UNCHANGED <<reach, mudlle_file_count>>

Return == answer # Done /\ answer' = Done /\ UNCHANGED <<data, reach, mudlle_file_count, disk, fault>>

FilesNext ==
  \/ /\ answer = Done
     /\ \/ garbage_collect
        \/ \E o \in FileObjects, writable, truncates \in BOOLEAN : file_open(o, writable, truncates)
        \/ \E o \in FileObjects, fails \in CloseFails : file_close(o, fails)
        \/ \E o \in FileObjects : file_oport(o)
        \/ \E o \in FileObjects, what \in {"file", "port"} : forget(o, what)
        \/ \E h \in Handles, start \in 0..2, bytes \in -1..2, size \in {0, MAXSIZE - 2} :
             print_file_part(h, start, bytes, size)
        \/ \E h \in Handles : file_read(h)
        \/ \E h \in Handles, n \in 0..2, do_append \in BOOLEAN : file_write(h, n, 1, do_append)
        \/ \E o \in FileObjects : port_write(o, 1)
        \/ \E o \in FileObjects, pos \in 0..MaxDisk : file_seek(o, pos)
        \/ \E h \in Handles, len \in 0..MaxDisk : file_truncate(h, len)
  \/ Return
FilesSpec == FilesInit /\ [][FilesNext]_file_vars

(***************************************************************************)
(* Properties                                                              *)
(***************************************************************************)
\* The count is the number of FILEs that programs hold open, so that the
\* limit is never exceeded and is only met when the program itself still has
\* so many open files; nothing uses a FILE that is closed
\* (files.c:681 "assert(mudlle_file_count > 0)", 788-797)
FilesCounted ==
  /\ mudlle_file_count = Cardinality({o \in FileObjects : data[o].FILE})
  /\ mudlle_file_count <= MAX_MUDLLE_OPEN_FILES
  /\ answer = [op |-> "open", errno |-> "EMFILE"] =>
       Cardinality({o \in reach.file : data[o].f}) = MAX_MUDLLE_OPEN_FILES
  /\ \A o \in FileObjects : data[o].f \/ data[o].port = "open" => data[o].FILE
  /\ fault = "none"

\* What is printed or read is what was asked for, without gaps; printing
\* stops early only when the port is full
\* (files.c:952-953 "Returns zero if successful [...] or -1 if `oport became too full.")
PartPrinted ==
  /\ answer.op = "print" =>
       LET wanted == SubSeq(disk, answer.from + 1,
                            IF answer.bytes < 0 THEN Len(disk) ELSE Least(Len(disk), answer.from + answer.bytes))
       IN  /\ answer.r = 0 => answer.text = wanted
           /\ answer.r = -1 => /\ IsPrefix(answer.text, wanted)
                               /\ answer.size + Len(answer.text) + BUFSIZE >= MAXSIZE
  /\ answer.op = "read" =>
       answer.text = SubSeq(disk, answer.from + 1, Least(Len(disk), answer.from + MAX_STRING_SIZE))

\* However a file is left - closed, dropped or collected, with its port or
\* without - it is counted, and what is read or printed of one has no gaps
\* (files.c:681, 788, 952).
FilesSound == FilesCounted /\ PartPrinted

\* assert(mudlle_file_count > 0) never fails (files.c:681)
NeverAborts == fault # "abort"
=============================================================================

------------------------------ MODULE MCOutput ------------------------------
(***************************************************************************)
(* What programs print: output ports, the printer, and the buffers that C  *)
(* code prints into.  These parts do not meet in the models; each          *)
(* behaviour is one of the part that is chosen at its start.  The printer  *)
(* uses the variables of the ports.                                        *)
(***************************************************************************)
EXTENDS Ports, StrBuf, TLC

CONSTANTS Parts, p1, p2
VARIABLE part

(***************************************************************************)
(* A line port or string port, and a string port, a sink or a file; lines  *)
(* that end in a block and in the next one.                                *)
(***************************************************************************)
MCPortSeq == <<p1, p2>>
MCTexts == {<<NL, CR>>, <<"a", NL, "a">>}
MCKinds == p1 :> {"string", "line"} @@ p2 :> {"string", "sink", "file"}

(***************************************************************************)
(* Values of three objects, that share and contain each other, printed in  *)
(* so few characters that each way of cutting them comes up.               *)
(***************************************************************************)
Str(s) == [type |-> "string", chars |-> s, items |-> <<>>, names |-> <<>>]
Vec(s) == [type |-> "vector", items |-> s, chars |-> <<>>, names |-> <<>>]
Pair(x, y) == [type |-> "pair", items |-> <<x, y>>, chars |-> <<>>, names |-> <<>>]
Tab(s) == [type |-> "table", items |-> s, names |-> [i \in DOMAIN s |-> "N"], chars |-> <<>>]
Gone == [type |-> "gone", items |-> <<>>, chars |-> <<>>, names |-> <<>>]
As == {Vec(<<x, y>>) : x \in {"0", "A", "B"}, y \in {"A", "B", "C"}}
      \cup {Pair(x, y) : x \in {"0", "A", "B", "C"}, y \in {"null", "0", "A", "B", "C"}}
      \cup {Tab(<<x, y>>) : x \in {"A", "B"}, y \in {"0", "A", "C"}}
      \cup {Vec(<<"0", "B", x>>) : x \in {"0", "A", "C"}}
Bs == {Vec(<<x>>) : x \in {"0", "B", "C"}} \cup {Vec(<<"0", x>>) : x \in {"A", "C"}}
      \cup {Pair(x, y) : x \in {"0", "A", "B"}, y \in {"null", "A", "B", "C"}}
      \cup {Tab(<<x>>) : x \in {"A", "C"}}
Cs == {Str(<<>>), Str(<<"a", "\n", "\"", "b", "a">>), Gone, Vec(<<>>), Pair("0", "null"),
       Pair("0", "A"), Pair("0", "0"), Pair("A", "B"), Pair("C", "0")}
PrintedValues == {<<a, b, c>> : a \in As, b \in Bs, c \in Cs}
PrintedStrings == {<<Str(s), Vec(<<>>), Vec(<<>>)>> :
                     s \in {<<>>, <<"a", "b", "c", "a">>, <<"a", "\n", "\"", "?", "b">>}}
PrintedObjects(v) == "A" :> v[1] @@ "B" :> v[2] @@ "C" :> v[3] @@ "N" :> Str(<<"n">>)
Write(truncates, nref) == [level |-> "write", truncate |-> truncates, nref |-> nref, indent |-> 0]
Constant == [level |-> "constant", truncate |-> TRUE, nref |-> FALSE, indent |-> 0]
PrinterInputs ==
  ((PrintedValues \cup PrintedStrings) \X {6, 13, 20} \X {Write(FALSE, nref) : nref \in BOOLEAN})
  \cup ((PrintedValues \cup PrintedStrings) \X {6, 11} \X {Write(TRUE, FALSE)})
  \cup (PrintedValues \X {6, 11} \X {Constant})
Printer == INSTANCE Printer WITH
  value <- io, maxlen <- out, mode <- outer, printed <- text,
  Inputs <- PrinterInputs, Root <- "A", Objects <- PrintedObjects,
  MAX_ATOM_LEN <- 20, NESTED_MAX_ATOM_LEN <- 10, TRIPLE <- 4

MCAdded == {<<>>, <<"a">>, <<"b", "nul">>, <<"a", "b", "c", "d", "e">>}
ASSUME StrBufAssumptions

OutputInit ==
  /\ part \in Parts
  /\ BufInit
  /\ CASE part = "ports" -> Init
       [] part = "print" -> Printer!Init
       [] part = "buffer" -> io = 0 /\ out = 0 /\ outer = 0 /\ text = 0

OutputNext ==
  /\ UNCHANGED part
  /\ \/ part = "ports" /\ Next /\ UNCHANGED buf_vars
     \/ part = "print" /\ Printer!Next /\ UNCHANGED buf_vars
     \/ part = "buffer" /\ BufNext /\ UNCHANGED vars

OutputSpec == OutputInit /\ [][OutputNext]_<<part, vars, buf_vars>>

\* port_append() to the port that it reads does not end
NoSelf == part = "ports" => appending = Idle \/ Target(appending.dst) # appending.src

\* What the printer sets aside while it descends is what it then needs, and a
\* value that fits is printed whole (print.c).
Whole == part = "print" => Printer!RoomKept /\ Printer!Whole

\* Nothing that was printed is lost, doubled or put in another order by the
\* blocks and the lists of blocks; a line port sends a line when it is whole,
\* and not before (ports.c).
PrintedKept == part = "ports" => TextKept /\ LinesWhole
=============================================================================

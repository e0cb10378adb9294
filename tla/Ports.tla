------------------------------- MODULE Ports --------------------------------
(***************************************************************************)
(* Output ports (ports.c, runtime/io.c).  A string port keeps its text in  *)
(* a chain of blocks; blocks that are not needed go to a list that all     *)
(* ports share.  A line port is a string port that sends each line to its  *)
(* host when the next character shows that the line is complete.  What is  *)
(* printed to the standard output goes to the port of the session.         *)
(***************************************************************************)
EXTENDS Integers, SequencesExt

CONSTANTS PortSeq,            \* the ports of the program
          STDOUT,             \* mudout_port
          Stdout,             \* the port it stands for at first
          STRING_BLOCK_SIZE,
          Texts,              \* the strings that are printed
          Kinds,              \* which kinds each port may be of
          MaxText,            \* bound on the text of a port
          MaxDepth            \* bound on calls of with_output()

Ports == ToSet(PortSeq)
CR == "\r"
NL == "\n"
EOF == "EOF"
NULL == 0
JUNK == "?"                   \* what a block holds where nothing was written

VARIABLES io,         \* the ports, the blocks, the free ones, the lines sent, and
                      \* port_append() between two of its blocks
          out,        \* session_context->ports.out
          outer,      \* the ports that callers of with_output() restore
          text        \* history: what was written to each port since it was
                      \* made or emptied
vars == <<io, out, outer, text>>

\* Whether p is one of the ports made of blocks
is_string_port(p) == io.port[p].kind \in {"string", "line"}

(***************************************************************************)
(* Blocks.  Those no port and no list refers to are garbage.               *)
(***************************************************************************)
RECURSIVE ChainFrom(_, _, _)
\* The blocks from b on; a block that comes twice ends the chain
ChainFrom(s, b, seen) ==
  IF b = NULL \/ b \in seen THEN <<>>
  ELSE <<b>> \o ChainFrom(s, s.block[b].next, seen \cup {b})
Chain(s, b) == ChainFrom(s, b, {})
PortChain(s, p) == Chain(s, s.port[p].first)
Idle == [src |-> STDOUT]
appending == io.appending
InUse(s) == UNION {ToSet(PortChain(s, p)) : p \in Ports} \cup ToSet(Chain(s, s.free))

Blank == [next |-> NULL, data |-> <<>> \o [i \in 1..STRING_BLOCK_SIZE |-> JUNK]]
NewBlock(s) == Min(DOMAIN s.block \ InUse(s))

add_string_block(s, p) ==
  LET blk == IF s.free # NULL THEN s.free ELSE NewBlock(s)
      old == s.port[p].current
      linked == IF old = NULL THEN s.block ELSE [s.block EXCEPT ![old].next = blk]
  IN [s EXCEPT
        !.free = IF @ # NULL THEN s.block[@].next ELSE NULL,
        !.block = [linked EXCEPT ![blk] = Blank],
        !.port[p] = [@ EXCEPT !.first = IF @ = NULL THEN blk ELSE @, !.current = blk, !.pos = 0,
                              !.nblocks = IF old = NULL THEN 0 ELSE @ + 1]]

(***************************************************************************)
(* The garbage collector moves blocks: their names say where in the chains *)
(* of the ports, in some order, and of the free blocks they are.           *)
(***************************************************************************)
Moved(s) ==
  LET chains == FlattenSeq([i \in DOMAIN PortSeq |-> PortChain(s, PortSeq[i])]) \o Chain(s, s.free)
      live == FoldLeft(LAMBDA f, b : IF b \in ToSet(f) THEN f ELSE Append(f, b), <<>>, chains)
      Name(b) == IF b = NULL THEN NULL ELSE CHOOSE i \in DOMAIN live : live[i] = b
  IN [s EXCEPT
        !.port = [p \in Ports |-> [s.port[p] EXCEPT !.first = Name(@), !.current = Name(@)]],
        !.block = [i \in DOMAIN s.block |-> IF i > Len(live) THEN Blank
                                            ELSE [s.block[live[i]] EXCEPT !.next = Name(@)]],
        !.free = Name(@),
        !.appending = IF @ = Idle THEN Idle ELSE [@ EXCEPT !.current = Name(@)]]

\* What blocks hold does not matter once they are free, or garbage
Forget(s, chain) == FoldLeft(LAMBDA t, b : [t EXCEPT !.block[b].data = Blank.data], s, chain)

\* Mutant: the first block, which the port keeps, is freed with the others.
empty_string_oport_FreesFirst(s, p) ==
  LET port == s.port[p]
      freed == IF port.first = port.current THEN s
               ELSE [s EXCEPT !.block[port.current].next = s.free, !.free = port.first]
  IN [Forget(freed, PortChain(s, p)) EXCEPT
        !.port[p] = [port EXCEPT !.current = port.first, !.nblocks = 0, !.pos = 0]]

empty_string_oport(s, p) ==
  LET port == s.port[p]
      freed == IF port.first = port.current THEN s
               ELSE [s EXCEPT !.block[port.current].next = s.free,
                              !.free = s.block[port.first].next,
                              !.block[port.first].next = NULL]
  IN [Forget(freed, PortChain(s, p)) EXCEPT
        !.port[p] = [port EXCEPT !.current = port.first, !.nblocks = 0, !.pos = 0]]

Closed == [kind |-> "closed", first |-> NULL, current |-> NULL, pos |-> 0, nblocks |-> 0,
           prev_char |-> EOF, count |-> 0, file |-> <<>>]
free_string_oport(s, p) ==
  [Forget(s, PortChain(s, p)) EXCEPT
     !.block[s.port[p].current].next = s.free,
     !.free = s.port[p].first,
     !.port[p] = Closed]

port_length(s, p) == s.port[p].pos + STRING_BLOCK_SIZE * s.port[p].nblocks

\* A new block is added when there is more to put in it, never before
PutChar(s, p, c) ==
  LET room == IF s.port[p].pos < STRING_BLOCK_SIZE THEN s ELSE add_string_block(s, p)
      at == room.port[p]
  IN [room EXCEPT !.block[at.current].data[at.pos + 1] = c, !.port[p].pos = @ + 1]
string_mswrite(s, p, str) == FoldLeft(LAMBDA t, c : PutChar(t, p, c), s, str)

(***************************************************************************)
(* Reading: what port_for_blocks() and port_copy() go through.             *)
(***************************************************************************)
BlockText(s, p, b) ==
  SubSeq(s.block[b].data, 1, IF s.block[b].next = NULL THEN s.port[p].pos ELSE STRING_BLOCK_SIZE)
\* One block: what it has after the characters to skip, up to those wanted
Copied(s, p, c, b) ==
  LET here == BlockText(s, p, b)
      taken == SubSeq(here, c.from + 1, IF c.from + c.maxlen < Len(here) THEN c.from + c.maxlen ELSE Len(here))
  IN IF c.from >= Len(here) THEN [c EXCEPT !.from = @ - Len(here)]
     ELSE [from |-> 0, maxlen |-> c.maxlen - Len(taken), text |-> c.text \o taken]
port_copy(s, p, from, maxlen) ==
  FoldLeft(LAMBDA c, b : Copied(s, p, c, b), [from |-> from, maxlen |-> maxlen, text |-> <<>>],
           PortChain(s, p)).text
\* port_substring() fails unless the port has these characters
port_substring(s, p, from, nchars) ==
  IF from + nchars > port_length(s, p) THEN <<"error">> ELSE port_copy(s, p, from, nchars)
port_string(s, p, maxlen) ==
  port_substring(s, p, 0, IF port_length(s, p) > maxlen THEN maxlen ELSE port_length(s, p))
port_is_empty(s, p) == s.block[s.port[p].first].next = NULL /\ s.port[p].pos = 0

(***************************************************************************)
(* Line ports.                                                             *)
(***************************************************************************)
SetPrev(s, p, c) == [s EXCEPT !.port[p].prev_char = c]
\* The host gets the one block itself, or a copy of them all
LineText(s, p) ==
  LET first == s.port[p].first
  IN IF s.block[first].next = NULL THEN SubSeq(s.block[first].data, 1, s.port[p].pos)
     ELSE port_string(s, p, MaxText)
line_port_send(s, p, why) ==
  IF port_length(s, p) = 0 THEN s
  ELSE LET line == [line |-> LineText(s, p), why |-> why]
       IN empty_string_oport(SetPrev([s EXCEPT !.sent[p] = Append(@, line)], p, EOF), p)

EndsPair(prev, c) == <<prev, c>> \in {<<CR, NL>>, <<NL, CR>>}

RECURSIVE line_port_putnc(_, _, _, _)
line_port_putnc(s, p, c, n) ==
  IF n = 0 THEN s
  ELSE LET sent == IF s.port[p].prev_char = NL /\ c # CR THEN line_port_send(s, p, "line") ELSE s
           flush == EndsPair(sent.port[p].prev_char, c)
           cnt == IF flush THEN 1 ELSE n
           put == string_mswrite(sent, p, [i \in 1..cnt |-> c])
       IN IF flush THEN line_port_putnc(line_port_send(put, p, "line"), p, c, n - cnt)
          ELSE SetPrev(put, p, c)

\* Mutant: a newline completes its line at once
Complete_AtNewline(line) == TRUE

\* A line ends here, and not with a character still to come
Complete(line) == Len(line) > 1 /\ line[Len(line) - 1] = CR

RECURSIVE line_port_mcwrite(_, _, _)
\* What is left of a string, after the character that ends a line was looked at
WriteLines(s, p, str) ==
  LET found == {i \in DOMAIN str : str[i] = NL}
      n == IF found = {} THEN Len(str) ELSE Min(found)
      line == SubSeq(str, 1, n)
      written == string_mswrite(s, p, line)
  IN IF str = <<>> THEN s
     ELSE IF found = {} THEN SetPrev(written, p, Last(str))
     ELSE line_port_mcwrite(IF Complete(line) THEN line_port_send(written, p, "line")
                            ELSE SetPrev(written, p, NL),
                            p, SubSeq(str, n + 1, Len(str)))
line_port_mcwrite(s, p, str) ==
  IF str = <<>> THEN s
  ELSE LET prev == s.port[p].prev_char IN
       IF EndsPair(prev, Head(str))
       THEN WriteLines(line_port_putnc(s, p, Head(str), 1), p, Tail(str))
       ELSE WriteLines(IF prev = NL THEN line_port_send(s, p, "line") ELSE s, p, str)

(***************************************************************************)
(* The methods of each kind of port.                                       *)
(***************************************************************************)
Target(p) == IF p = STDOUT THEN out ELSE p

fwrite(s, p, str) == [s EXCEPT !.port[p].file = @ \o str]
sink_use(s, p, n) == [s EXCEPT !.port[p].count = @ + n]

putnc(s, p, c, n) ==
  LET str == [i \in 1..n |-> c]
  IN CASE s.port[p].kind = "string" -> string_mswrite(s, p, str)
       [] s.port[p].kind = "line" -> line_port_putnc(s, p, c, n)
       [] s.port[p].kind = "file" -> fwrite(s, p, str)
       [] s.port[p].kind = "sink" -> sink_use(s, p, n)
       [] OTHER -> s
swrite(s, p, str) ==
  CASE s.port[p].kind = "string" -> string_mswrite(s, p, str)
    [] s.port[p].kind = "line" -> line_port_mcwrite(s, p, str)
    [] s.port[p].kind = "file" -> fwrite(s, p, str)
    [] s.port[p].kind = "sink" -> sink_use(s, p, Len(str))
    [] OTHER -> s
close(s, p) ==
  CASE s.port[p].kind \in {"string", "line"} -> free_string_oport(s, p)
    [] s.port[p].kind = "file" -> [s EXCEPT !.port[p].kind = "closed file"]
    [] OTHER -> s
flush(s, p) == IF s.port[p].kind = "line" THEN line_port_send(s, p, "flush") ELSE s

(***************************************************************************)
(* The program                                                             *)
(***************************************************************************)
\* Enough blocks for the texts of all ports and of the free list
Blocks == 1..(Cardinality(Ports) * (MaxText \div STRING_BLOCK_SIZE + 2))
Contents(p) == port_copy(io, p, 0, port_length(io, p))

Init == /\ io = [port |-> [p \in Ports |-> Closed], block |-> [b \in Blocks |-> Blank],
                 free |-> NULL, sent |-> [p \in Ports |-> <<>>], appending |-> Idle]
        /\ out = Stdout
        /\ outer = <<>>
        /\ text = [p \in Ports |-> <<>>]

Open(p) == io.port[p].kind \notin {"closed", "closed file"}
Written(p, str) ==
  /\ Len(text[p]) + Len(str) <= MaxText
  /\ text' = IF Open(p) THEN [text EXCEPT ![p] = @ \o str] ELSE text
Ready == appending = Idle

\* The program forgets the port it had and makes another
make_port(p, kind) ==
  LET made == [io EXCEPT !.port[p] = [Closed EXCEPT !.kind = kind], !.sent[p] = <<>>]
  IN /\ Ready
     /\ io' = Moved(IF kind \in {"string", "line"} THEN add_string_block(made, p) ELSE made)
     /\ text' = [text EXCEPT ![p] = <<>>]
     /\ UNCHANGED <<out, outer>>

pputnc(p, c, n) ==
  /\ Ready
  /\ io' = Moved(putnc(io, Target(p), c, n))
  /\ Written(Target(p), [i \in 1..n |-> c])
  /\ UNCHANGED <<out, outer>>

\* pprint(), pprint_substring() and, for C strings, port_write()
pprint(p, str) ==
  /\ Ready
  /\ io' = Moved(swrite(io, Target(p), str))
  /\ Written(Target(p), str)
  /\ UNCHANGED <<out, outer>>

port_close(p) ==
  /\ Ready
  /\ p # STDOUT /\ Open(p)
  /\ io' = Moved(close(io, p))
  /\ text' = IF is_string_port(p) THEN [text EXCEPT ![p] = <<>>] ELSE text
  /\ UNCHANGED <<out, outer>>

pflush(p) ==
  /\ Ready
  /\ io' = Moved(flush(io, Target(p)))
  /\ UNCHANGED <<out, outer, text>>

\* port_empty!(): what a line port did not send yet is lost, and its history
\* begins anew.
port_empty(p) ==
  /\ Ready
  /\ is_string_port(p)
  /\ LET start == IF io.port[p].kind = "line" THEN <<[line |-> <<>>, why |-> "empty"]>> ELSE <<>>
     IN io' = Moved([empty_string_oport(io, p) EXCEPT !.sent[p] = start])
  /\ text' = [text EXCEPT ![p] = <<>>]
  /\ UNCHANGED <<out, outer>>

(***************************************************************************)
(* port_append(): one block at a time.                                     *)
(***************************************************************************)
port_append(dst, src) ==
  /\ Ready
  /\ dst # src
  /\ is_string_port(src)
  /\ Len(text[Target(dst)]) + port_length(io, src) <= MaxText
  /\ io' = [io EXCEPT !.appending =
              [src |-> src, dst |-> dst, current |-> io.port[src].first,
               pos |-> io.port[src].pos, done |-> <<>>, all |-> Contents(src)]]
  /\ UNCHANGED <<out, outer, text>>

\* port_append_block(); the blocks that come later are looked up later
AppendBlock ==
  /\ appending # Idle
  /\ LET b == io.block[appending.current]
         str == SubSeq(b.data, 1, IF b.next = NULL THEN appending.pos ELSE STRING_BLOCK_SIZE)
         to == Target(appending.dst)
         new == swrite(io, to, str)
         next == new.block[appending.current].next
     IN /\ io' = Moved([new EXCEPT !.appending = IF b.next = NULL THEN Idle
                                                ELSE [@ EXCEPT !.current = next, !.done = @ \o str]])
        /\ text' = IF Open(to) THEN [text EXCEPT ![to] = @ \o str] ELSE text
  /\ UNCHANGED <<out, outer>>

(***************************************************************************)
(* with_output(), and its end, by a return or an error.                    *)
(***************************************************************************)
with_output(p) ==
  /\ Ready
  /\ p # STDOUT /\ p # out /\ Len(outer) < MaxDepth
  /\ out' = p
  /\ outer' = Append(outer, out)
  /\ UNCHANGED <<io, text>>

restore_output ==
  /\ Ready
  /\ outer # <<>>
  /\ out' = Last(outer)
  /\ outer' = Front(outer)
  /\ UNCHANGED <<io, text>>

AnyPort == Ports \cup {STDOUT}
Next == \/ \E p \in Ports : \/ \E kind \in Kinds[p] : make_port(p, kind)
                           \/ port_close(p)
                           \/ port_empty(p)
                           \/ with_output(p)
        \/ \E p \in AnyPort : \/ \E str \in Texts : pprint(p, str)
                         \/ pputnc(p, NL, 2)
                         \/ pflush(p)
                         \/ \E src \in Ports : port_append(p, src)
        \/ AppendBlock
        \/ restore_output
Spec == Init /\ [][Next]_vars

(***************************************************************************)
(* Properties                                                              *)
(***************************************************************************)
SentText(p) == FlattenSeq([i \in DOMAIN io.sent[p] |-> io.sent[p][i].line])

\* No block belongs to two ports, or to a port and the list of free ones, and
\* the count of blocks is that of the chain.
BlocksApart ==
  LET chains == [p \in {q \in Ports : is_string_port(q)} |-> PortChain(io, p)]
      free == ToSet(Chain(io, io.free))
  IN \A p \in DOMAIN chains :
       /\ Len(chains[p]) = io.port[p].nblocks + 1 /\ Last(chains[p]) = io.port[p].current
       /\ ToSet(chains[p]) \cap free = {}
       /\ \A q \in DOMAIN chains \ {p} : ToSet(chains[p]) \cap ToSet(chains[q]) = {}

\* Nothing that was printed is lost, doubled or put in another order by the
\* blocks: a port has, and port_substring() gives, what was written to it,
\* except the lines it has sent.  Files and sinks got it all.
TextKept ==
  /\ BlocksApart
  /\ \A p \in Ports :
       /\ is_string_port(p) => /\ SentText(p) \o Contents(p) = text[p]
                               /\ port_is_empty(io, p) <=> Contents(p) = <<>>
                               /\ \A from \in 0..port_length(io, p) :
                                       \A n \in 0..port_length(io, p) - from :
                                         port_substring(io, p, from, n) = SubSeq(Contents(p), from + 1, from + n)
       /\ io.port[p].kind \in {"file", "closed file"} => io.port[p].file = text[p]
       /\ io.port[p].kind = "sink" => io.port[p].count = Len(text[p])

\* A line port sends a line when it is whole, and not before: there is no text
\* after the newline, and a newline and a carriage return stay together, but
\* in the first line after port_empty!(), which forgets the text and not its end.
LinesWhole ==
  \A p \in Ports : io.port[p].kind = "line" =>
    LET sent == io.sent[p]
        Ends(str) == \A i \in DOMAIN str : str[i] = NL =>
                       \A j \in i..Len(str) : str[j] \in {NL, CR}
        Alone(str) == str # <<>> /\ Last(str) = NL /\ (Len(str) = 1 \/ str[Len(str) - 1] # CR)
        After(i) == IF i < Len(sent) THEN sent[i + 1].line ELSE Contents(p)
    IN /\ Ends(Contents(p))
       /\ \A i \in DOMAIN sent :
            /\ Ends(sent[i].line)
            /\ sent[i].why = "line" =>
                 /\ Last(sent[i].line) \in {NL, CR}
                 /\ \/ ~Alone(sent[i].line) \/ After(i) = <<>> \/ Head(After(i)) # CR
                    \/ i > 1 /\ sent[i - 1].why = "empty"

\* "The characters of port 'src' are appended to the end of port 'dst'"
\* (ports.c): what port_append() has still to copy is the rest of what the
\* port had when it began.
AppendExact ==
  appending # Idle =>
    LET rest == Chain(io, appending.current)
        Piece(b) == SubSeq(io.block[b].data, 1, IF io.block[b].next = NULL THEN appending.pos
                                                ELSE STRING_BLOCK_SIZE)
    IN appending.done \o FlattenSeq([i \in DOMAIN rest |-> Piece(rest[i])]) = appending.all
=============================================================================

------------------------------- MODULE Printer ------------------------------
(***************************************************************************)
(* print.c: output_value_cut(), which writes a value in at most so many    *)
(* characters, cutting sequences with "..." where they do not fit, marks   *)
(* what comes again with "#1=" and "#1", and indents what it is asked to.  *)
(* The printer is one recursive descent over the value with a record c of  *)
(* what struct print_config holds:                                         *)
(*   sb       the text, one character after another                        *)
(*   maxlen   the characters that may still be used                        *)
(*   atom     maxatomlen                                                   *)
(*   seen     the objects that may come again                              *)
(*   nrefs    the marks to be put into the text when all is printed        *)
(*   nest     nest_level                                                   *)
(*   rw       rwmode                                                       *)
(*   g        the struct p_grp of the innermost group                      *)
(*   r        the result of the last call                                  *)
(*   died     the assertion or abort() that has stopped the program        *)
(***************************************************************************)
EXTENDS Integers, Sequences, FiniteSets, SequencesExt, FiniteSetsExt, Functions, TLC

CONSTANTS
  Inputs,                \* <<objects, characters, flags>> of the calls of output_value_cut()
  Root,                  \* the object that is printed
  Objects(_),            \* what the objects are: object -> record
  MAX_ATOM_LEN, NESTED_MAX_ATOM_LEN,
  TRIPLE                 \* strings of so many characters may use """

(***************************************************************************)
(* Values: a digit, NULL, or an object.  An object is                      *)
(*   [type |-> "vector", items |-> values]    [type |-> "string", chars]   *)
(*   [type |-> "pair", items |-> <<car, cdr>>]                             *)
(*   [type |-> "table", names |-> strings, items |-> data]                 *)
(*   [type |-> "gone"]                                                     *)
(* each with rw, one of "rw", "ro" and "im".                               *)
(***************************************************************************)
VARIABLES value, maxlen, mode, printed
vars == <<value, maxlen, mode, printed>>

NULL == "null"
INFINITE == 1000000                      \* SIZE_MAX
heap == Objects(value)
IsObject(v) == v \in DOMAIN heap
Is(v, type) == IsObject(v) /\ heap[v].type = type

truncate == mode.truncate
constant == mode.level = "constant"
Chars(n, ch) == [i \in 1..n |-> ch]
Number(n) == CASE n < 10 -> <<ToString(n)>> [] OTHER -> <<ToString(n \div 10), ToString(n % 10)>>
Dots == <<".", ".", ".">>
TypeName(type) ==
  CASE type = "vector" -> <<"v","e","c","t","o","r">> [] type = "pair" -> <<"p","a","i","r">>
    [] type = "table" -> <<"t","a","b","l","e">> [] type = "gone" -> <<"g","o","n","e">>
    [] type = "recursion" -> <<"r","e","c","u","r","s","i","o","n">>
Recursive(type) == <<"r","e","c","u","r","s","i","v","e"," ">> \o TypeName(type)

(***************************************************************************)
(* The text: p_use() and what writes with it.                              *)
(***************************************************************************)
Granted(c, n) == Min({n, c.maxlen})
Use(c, n) == [c EXCEPT !.maxlen = @ - Granted(c, n)]
UndoUse(c, n) == [c EXCEPT !.maxlen = @ + n]
Died(c, why) == IF c.died = "no" THEN [c EXCEPT !.died = why] ELSE c
Fail(c) == [c EXCEPT !.r = FALSE]
Succeed(c) == [c EXCEPT !.r = TRUE]
Then(c, F(_)) == IF c.r /\ c.died = "no" THEN F(c) ELSE c

p_mem(c, str) == [Use(c, Len(str)) EXCEPT !.sb = @ \o SubSeq(str, 1, Granted(c, Len(str)))]
p_str(c, str) ==
  LET fits == c.maxlen >= Len(str) IN
  IF ~fits /\ ~truncate THEN Fail(c) ELSE [p_mem(c, str) EXCEPT !.r = fits]
p_nchar(c, n, ch) == [p_mem(c, Chars(n, ch)) EXCEPT !.r = c.maxlen >= n]
p_char(c, ch) == p_nchar(c, 1, ch)
p_indent(c, lvl) == Then(p_char(c, "\n"), LAMBDA d : p_nchar(d, 2 * lvl, " "))
indent_need(lvl) == 2 * lvl + 1

p_type(c, name, close) ==
  IF ~truncate /\ c.maxlen < 1 + Len(name) + (IF close THEN 1 ELSE 0) THEN Fail(c)
  ELSE Then(Then(p_char(c, "{"), LAMBDA d : p_str(d, name)),
            LAMBDA d : IF close THEN p_char(d, "}") ELSE d)

(***************************************************************************)
(* p_setpos(): back to a position; the marks and the objects after it are  *)
(* forgotten.                                                              *)
(***************************************************************************)
p_pos(c) == [sblen |-> Len(c.sb), maxlen |-> c.maxlen]

\* An end of a list that is yet to come has the largest position of all
Forgotten(nref, sblen) == nref.pos >= sblen

Renumbered(seen, n) == [j \in DOMAIN seen |-> [seen[j] EXCEPT !.number = @ + n]]

\* One use of a seen object less; the numbers after it go down with the last
Unused(c, i) ==
  LET after == SubSeq(c.seen, i + 1, Len(c.seen))
      left == c.seen[i].uses - 1 IN
  [c EXCEPT !.seen = Append(SubSeq(@, 1, i - 1), [@[i] EXCEPT !.uses = left])
                     \o IF left = 0 THEN Renumbered(after, -1) ELSE after]

\* Only the first n seen objects stay; none of the others is used
SeenCut(c, n) ==
  IF \E i \in n + 1..Len(c.seen) : c.seen[i].uses # 0 THEN Died(c, "p_setpos")
  ELSE [c EXCEPT !.seen = SubSeq(@, 1, n)]
SeenUntil(seen, sblen) == Max({0} \union {i \in DOMAIN seen : seen[i].start <= sblen})
MarksCut(c, sblen) ==
  [FoldLeft(LAMBDA d, nref : IF Forgotten(nref, sblen) /\ nref.type = "use" THEN Unused(d, nref.seen) ELSE d,
            c, c.nrefs)
   EXCEPT !.nrefs = SelectSeq(@, LAMBDA nref : ~Forgotten(nref, sblen))]
TextCut(c, pos) == SeenCut([c EXCEPT !.sb = SubSeq(@, 1, pos.sblen), !.maxlen = pos.maxlen],
                           SeenUntil(c.seen, pos.sblen))
p_setpos(c, pos) == TextCut(MarksCut(c, pos.sblen), pos)

(***************************************************************************)
(* Groups: what stands between parentheses, and can be cut.                *)
(***************************************************************************)
\* Room that was set aside for the end of a group, where it was
UndoKept(c, n) == IF truncate THEN c ELSE UndoUse(c, n)

\* The end of a group, in the room set aside: a line of its own where the
\* group has lines, and the parenthesis.
Dedent(c) ==
  IF c.g.did_indent
  THEN p_indent([UndoKept(c, indent_need(c.nest)) EXCEPT !.g.did_indent = FALSE], c.nest)
  ELSE c
Close(c) == IF c.g.suffix = "" THEN c ELSE p_char(UndoKept(c, 1), c.g.suffix)

OrDied(c, why, r) == IF c.r THEN [c EXCEPT !.g.result = TRUE, !.r = r] ELSE Died(c, why)
CutShort(c) ==
  IF c.g.plast.sblen <= c.g.pstart.sblen THEN Fail(c)
  ELSE OrDied(Then(Then(p_str(c, Dots), Dedent), Close),
              "p_grp_fail", FALSE)
p_grp_fail(c) ==
  IF truncate THEN Fail(c)
  ELSE CutShort(p_setpos([c EXCEPT !.g.did_indent = c.g.last_indent], c.g.plast))

\* The first line sets room aside for that of the end
Indented(c, need) ==
  CASE ~c.r \/ c.g.did_indent -> c
    [] c.r /\ ~c.g.did_indent /\ truncate -> [c EXCEPT !.g.did_indent = TRUE]
    [] OTHER -> IF c.maxlen < need THEN Fail(Use(c, need)) ELSE [Use(c, need) EXCEPT !.g.did_indent = TRUE]
GroupIndent(c) == Indented(p_indent(c, c.nest + 1), indent_need(c.nest + 1))

Noted(c, token) ==
  IF ~c.r THEN p_grp_fail(c)
  ELSE IF token = <<>> \/ truncate \/ c.maxlen < 3 THEN c
  ELSE [c EXCEPT !.g.plast = p_pos(c), !.g.last_indent = c.g.did_indent]
p_grp_token(c, token, indent) ==
  Noted(IF indent THEN GroupIndent(c) ELSE IF token # <<>> THEN p_str(c, token) ELSE Succeed(c), token)

p_grp_start(c, prefix, suffix) ==
  LET start == [c EXCEPT !.g = [pstart |-> p_pos(c), plast |-> p_pos(c), suffix |-> suffix,
                                did_indent |-> FALSE, last_indent |-> FALSE, result |-> FALSE]]
      room == IF suffix # "" /\ ~truncate THEN Use(start, 1) ELSE start
  IN IF suffix # "" /\ ~truncate /\ c.maxlen < 1 THEN Fail(room) ELSE p_grp_token(room, prefix, FALSE)

GroupEnded(c) == IF ~c.r /\ truncate THEN c ELSE OrDied(c, "p_grp_end", TRUE)
p_grp_end(c) == GroupEnded(Then(Dedent(Succeed(c)), Close))

\* The end of a group's writer: its result, and the group around it again
Ended(c, outer) == [c EXCEPT !.r = c.g.result, !.g = outer]

(***************************************************************************)
(* check_recursion().  Marks are numbered in the order of the objects; the *)
(* values here have fewer than nine.                                       *)
(***************************************************************************)
Seen(obj, c) ==
  [obj |-> obj, start |-> Len(c.sb), uses |-> 0, list_end |-> 0,
   number |-> IF c.seen = <<>> THEN 0 ELSE Last(c.seen).number]
Tracks == mode.nref \/ (~truncate /\ ~constant)

\* Another use of the seen object i, in Need characters
\* Mutant: the parentheses of the end of a list are not counted
Need_NoListEnd(seen) == IF seen.uses > 0 THEN 2 ELSE 5
Need(seen) == CASE seen.uses > 0 -> 2 [] seen.list_end > 0 -> 9 [] OTHER -> 5
FirstUse(c, i) ==
  LET end == <<[type |-> "list_end", seen |-> i, pos |-> INFINITE]>>
      def == <<[type |-> "def", seen |-> i, pos |-> c.seen[i].start]>> IN
  [c EXCEPT !.seen = SubSeq(@, 1, i - 1) \o Renumbered(SubSeq(@, i, Len(@)), 1),
            !.nrefs = @ \o (IF c.seen[i].list_end > 0 THEN end ELSE <<>>) \o def]
Used(c, i, fits) ==
  [c EXCEPT !.seen[i].uses = @ + 1, !.r = fits,
            !.nrefs = Append(@, [type |-> "use", seen |-> i, pos |-> Len(c.sb)])]
Marked(c, i) ==
  LET need == Need(c.seen[i])
      fits == c.maxlen >= need IN
  IF ~fits /\ ~truncate THEN Fail(Use(c, need))
  ELSE Used(IF c.seen[i].uses = 0 THEN FirstUse(Use(c, need), i) ELSE Use(c, need), i, fits)

Named(c) == IF c.r THEN c ELSE p_type(c, TypeName("recursion"), TRUE)
Again(c, obj, i) ==
  IF mode.nref THEN Marked(c, i) ELSE Named(p_type(c, Recursive(heap[obj].type), TRUE))

\* [found, c, entry]: found with the result in c, or entered in seen
check_recursion(c, prefix, obj) ==
  LET known == {i \in DOMAIN c.seen : c.seen[i].obj = obj} IN
  CASE ~Tracks -> [found |-> FALSE, c |-> c, entry |-> <<>>]
    [] Tracks /\ known = {} ->
         [found |-> FALSE, c |-> [c EXCEPT !.seen = Append(@, Seen(obj, c))],
          entry |-> <<Seen(obj, c)>>]
    [] OTHER ->
         [found |-> TRUE, entry |-> <<>>,
          c |-> Then(p_str(c, prefix), LAMBDA d : Again(d, obj, Min(known)))]

\* Is this entry the one on top?
OnTop(c, entry) == c.seen # <<>> /\ Last(c.seen).obj = entry.obj /\ Last(c.seen).start = entry.start
pop_from_seen(c, entry) ==
  IF OnTop(c, entry) THEN [c EXCEPT !.seen = Front(@)] ELSE Died(c, "pop_from_seen")

(***************************************************************************)
(* output_string()                                                         *)
(***************************************************************************)
Quote == "\""
chr_plen(ch) == CASE ch = "?" -> 4 [] ch \in {"\n", Quote} -> 2 [] OTHER -> 1
Escaped(ch) == CASE ch = "\n" -> <<"\\", "n">> [] ch = Quote -> <<"\\", Quote>>
                 [] ch = "?" -> <<"\\", "0", "0", "1">> [] OTHER -> <<ch>>

\* How far the string goes: the number of characters, and what ends them
Plan(c, str, triple) ==
  LET quotes == IF triple THEN 3 ELSE 1
      maxplen == Min({c.maxlen, c.atom})
      ellipsis == quotes + 3
      slen == IF truncate THEN 0 ELSE quotes
      \* the characters until idx, and the quotes in a row before it
      step(p, idx) ==
        LET ch == str[idx]
            q == p.quotes + 1
            raw == triple /\ ch \in {"\n", Quote}
            odd == raw /\ ch = Quote /\ ~(q = 3 \/ idx = Len(str))
            len == p.len + IF odd THEN 2 ELSE IF raw THEN 1 ELSE chr_plen(ch)
        IN IF p.cut > 0 THEN p
           ELSE [len |-> len, quotes |-> IF odd THEN q + 1 ELSE 0,
                 fit |-> IF p.len + ellipsis <= maxplen THEN idx - 1 ELSE p.fit,
                 cut |-> IF len + slen <= maxplen THEN 0 ELSE idx]
      end == FoldLeft(step, [len |-> quotes, quotes |-> IF triple THEN 2 ELSE 0, fit |-> 0, cut |-> 0],
                      [i \in DOMAIN str |-> i])
  IN CASE end.cut = 0 -> [n |-> Len(str), suffix |-> Chars(quotes, Quote), r |-> TRUE, again |-> FALSE, fails |-> FALSE]
       [] end.cut > 0 /\ (end.len + slen <= c.maxlen \/ ~truncate) ->
            [n |-> end.fit, suffix |-> Dots \o Chars(quotes, Quote), r |-> TRUE, again |-> triple /\ end.fit < TRIPLE,
             fails |-> constant \/ (~truncate /\ end.fit = 0 /\ c.maxlen < 1 + ellipsis)]
       [] OTHER ->
            [n |-> end.cut, suffix |-> <<>>, r |-> FALSE, again |-> triple /\ end.fit < TRIPLE, fails |-> constant]

\* What is written of the first n characters
Written(str, n, triple) ==
  LET step(p, idx) ==
        LET ch == str[idx]
            raw == triple /\ (ch = "\n" \/ (ch = Quote /\ p.quotes + 1 < 3 /\ idx < n))
            special == chr_plen(ch) > 1
        IN [text |-> p.text \o IF raw THEN <<ch>> ELSE Escaped(ch),
            quotes |-> CASE ~special -> 0 [] raw /\ ch = Quote -> p.quotes + 1
                         [] raw /\ ch # Quote -> p.quotes [] OTHER -> 0]
  IN FoldLeft(step, [text |-> <<>>, quotes |-> IF triple THEN 2 ELSE 0], [i \in 1..n |-> i]).text

output_string(c, str) ==
  LET lines == /\ c.nest < mode.indent /\ Len(str) >= TRIPLE
               /\ Min({c.maxlen, c.atom}) >= TRIPLE + 6
               /\ \E i \in 1..Len(str) - 1 : str[i] = "\n"
      triple == lines /\ ~Plan(c, str, TRUE).again
      plan == Plan(c, str, triple)
      open == p_nchar(c, IF triple THEN 3 ELSE 1, Quote)
  IN CASE str = <<>> -> p_nchar(c, 2, Quote)
       [] str # <<>> /\ plan.fails -> Fail(c)
       [] OTHER -> [p_str(p_mem(open, Written(str, plan.n, triple)), plan.suffix) EXCEPT !.r = plan.r]

(***************************************************************************)
(* Values                                                                  *)
(***************************************************************************)
is_simple(v) ==
  \/ ~IsObject(v)
  \/ Is(v, "vector") /\ heap[v].items = <<>>
  \/ Is(v, "string") /\ Len(heap[v].chars) <= TRIPLE
car(p) == heap[p].items[1]
cdr(p) == heap[p].items[2]

\* Mutant: always room for "..."
tail_savelen_Dots(g, nest, left, v) ==
  IF left = 0 \/ truncate THEN 0 ELSE 3 + IF g.did_indent THEN indent_need(nest) ELSE 1
\* Room for at least one more entry, or for the dots
tail_savelen(g, nest, left, v) ==
  LET ind == IF g.did_indent THEN indent_need(nest) ELSE 1 IN
  CASE left = 0 \/ truncate -> 0
    [] left = 1 /\ v = NULL -> 2 + ind
    [] left = 1 /\ v # NULL /\ ~IsObject(v) -> 1 + ind
    [] left = 1 /\ Is(v, "string") /\ heap[v].chars = <<>> -> 2 + ind
    [] left = 1 /\ Is(v, "vector") /\ heap[v].items = <<>> -> 2 + ind
    [] OTHER -> 3 + ind

RECURSIVE print_value(_, _), ListFrom(_, _, _, _)

print_value_save(c, v, savelen) ==
  LET save == IF truncate THEN 0 ELSE savelen IN
  IF c.maxlen <= save THEN Fail(c) ELSE UndoUse(print_value(Use(c, save), v), save)

print_nested_value(c, v, savelen) ==
  [print_value_save([c EXCEPT !.nest = @ + 1], v, savelen) EXCEPT !.nest = c.nest]

OrFail(c) == IF c.r THEN c ELSE p_grp_fail(c)
EndOrFail(c) == IF c.r THEN p_grp_end(c) ELSE p_grp_fail(c)
Each(c, n, F(_, _)) ==
  LET RECURSIVE From(_, _)
      From(d, i) == IF i > n \/ ~d.r \/ d.died # "no" THEN d ELSE From(F(d, i), i + 1)
  IN From(c, 1)

write_vector(c, v) ==
  LET items == heap[v].items
      n == Len(items)
      indent == /\ c.nest < mode.indent /\ n > 1
                /\ ~(n = 2 /\ is_simple(items[1]) /\ is_simple(items[2]))
      atom(i) == IF i < n THEN NESTED_MAX_ATOM_LEN ELSE c.atom
      item(d, i) ==
        Then(p_grp_token(d, IF i = 1 THEN <<>> ELSE <<" ">>, indent), LAMBDA e :
          OrFail(print_nested_value([e EXCEPT !.atom = atom(i)], items[i],
            tail_savelen(e.g, e.nest, n - i, IF i < n THEN items[i + 1] ELSE NULL))))
      all == Each(p_grp_start(c, <<"[">>, "]"), n, item)
  IN [Ended(Then(all, p_grp_end), c.g) EXCEPT !.atom = c.atom]

\* The pairs that come first in what is left of a list.  added: those of them
\* that were entered in seen.  m: indentation and maxatomlen of the list
Enter(c, entry) ==
  IF entry = <<>> THEN c
  ELSE [c EXCEPT !.seen[Len(c.seen)].list_end = INFINITE, !.added = Append(@, entry[1])]
ListSavelen(c, p) ==
  CASE cdr(p) = NULL -> 0
    [] Is(cdr(p), "pair") /\ cdr(cdr(p)) = NULL -> tail_savelen(c.g, c.nest, 1, car(cdr(p)))
    [] OTHER -> tail_savelen(c.g, c.nest, 2, NULL)
Element(c, p) == OrFail(print_nested_value(c, car(p), ListSavelen(c, p)))
DottedEnd(c, p, m) ==
  Then(Then(p_grp_token([c EXCEPT !.atom = m.atom], <<" ">>, m.indent),
            LAMBDA d : p_grp_token(d, <<".", " ">>, FALSE)),
       LAMBDA d : OrFail(print_nested_value(d, cdr(p), 0)))
Rest(c, p, m) ==
  CASE Is(cdr(p), "pair") -> ListFrom(c, cdr(p), FALSE, m)
    [] cdr(p) = NULL -> p_grp_end(c)
    [] OTHER -> Then(DottedEnd(c, p, m), p_grp_end)
FromPair(rec, p, m) ==
  IF rec.found THEN EndOrFail(rec.c)
  ELSE Then(Element(Enter(rec.c, rec.entry), p), LAMBDA d : Rest(d, p, m))
ListFrom(c, p, first, m) ==
  Then(p_grp_token(IF cdr(p) = NULL THEN [c EXCEPT !.atom = m.atom] ELSE c,
                   IF first THEN <<>> ELSE <<" ">>, m.indent),
       LAMBDA d : FromPair(IF first THEN [found |-> FALSE, c |-> d, entry |-> <<>>]
                           ELSE check_recursion(d, <<".", " ">>, p), p, m))

\* What write_list() does at its end with the pairs it has entered
Leave(c, entry) ==
  LET at == {i \in DOMAIN c.seen : c.seen[i].obj = entry.obj /\ c.seen[i].start = entry.start} IN
  IF entry.start >= Len(c.sb) THEN c
  ELSE IF ~mode.nref THEN pop_from_seen(c, entry)
  ELSE IF at = {} THEN Died(c, "write_list") ELSE [c EXCEPT !.seen[Min(at)].list_end = Len(c.sb)]

LeaveAll(c) == FoldRight(LAMBDA entry, d : Leave(d, entry), c.added, c)

write_list(c, v) ==
  LET simple == /\ is_simple(car(v))
                /\ \/ cdr(v) = NULL
                   \/ Is(cdr(v), "pair") /\ cdr(cdr(v)) = NULL /\ is_simple(car(cdr(v)))
      start == p_grp_start([c EXCEPT !.atom = NESTED_MAX_ATOM_LEN, !.added = <<>>], <<"(">>, ")")
      all == Then(start, LAMBDA d :
        ListFrom(d, v, TRUE, [indent |-> c.nest < mode.indent /\ ~simple, atom |-> c.atom]))
  IN [Ended(LeaveAll(all), c.g) EXCEPT !.added = c.added, !.atom = c.atom]

write_table(c, v) ==
  LET names == heap[v].names
      n == Len(names)
      indent == c.nest < mode.indent /\ n > 1
      left(d, i) == IF truncate \/ i = n THEN 0 ELSE 3 + IF d.g.did_indent THEN indent_need(d.nest) ELSE 1
      name(d, i) == Then(print_nested_value(p_grp_start(d, <<>>, ""), names[i], 2),
                         LAMBDA e : p_grp_token(e, <<"=">>, FALSE))
      symbol(d, i) == Ended(Then(name(d, i), LAMBDA e : EndOrFail(
                              print_nested_value(e, heap[v].items[i], left(d, i)))), d.g)
      item(d, i) ==
        Then(p_grp_token(d, IF i = 1 THEN <<>> ELSE <<" ">>, indent), LAMBDA e : OrFail(symbol(e, i)))
      all == Each(p_grp_start(c, <<"{">>, "}"), n, item)
  IN IF n = 0 THEN p_str(c, <<"{", "}">>) ELSE Ended(Then(all, p_grp_end), c.g)

write(c, v) == CASE Is(v, "vector") -> write_vector(c, v) [] Is(v, "pair") -> write_list(c, v)
                 [] Is(v, "table") -> write_table(c, v)

PopEntry(c, entry) == IF entry # <<>> /\ ~mode.nref THEN pop_from_seen(c, entry[1]) ELSE c
WriteOnce(rec, v) ==
  IF rec.found THEN rec.c
  ELSE PopEntry([write([rec.c EXCEPT !.atom = NESTED_MAX_ATOM_LEN], v) EXCEPT !.atom = rec.c.atom], rec.entry)
print_value(c, v) ==
  CASE c.maxlen = 0 \/ c.died # "no" -> Fail(c)
    [] c.maxlen > 0 /\ ~IsObject(v) -> p_str(c, IF v = NULL THEN <<"(", ")">> ELSE <<v>>)
    [] c.maxlen > 0 /\ Is(v, "string") -> output_string(c, heap[v].chars)
    [] c.maxlen > 0 /\ Is(v, "gone") -> IF constant THEN Fail(c) ELSE p_type(c, TypeName("gone"), TRUE)
       [] OTHER -> WriteOnce(check_recursion(c, <<>>, v), v)

(***************************************************************************)
(* output_value_cut()                                                      *)
(***************************************************************************)
\* cmp_nref() does not know what comes first of these
Undecided(c, a, b) ==
  /\ a.at = b.at
  /\ {a.type, b.type} # {"use", "list_end"}
  /\ ~(a.type = "def" /\ b.type = "def" /\ (c.seen[a.seen].list_end > 0) # (c.seen[b.seen].list_end > 0))
Before(c, a, b) ==
  \/ a.at < b.at
  \/ a.at = b.at /\ a.type = "use" /\ b.type = "list_end"
  \/ a.at = b.at /\ a.type = "def" /\ b.type = "def" /\ c.seen[a.seen].list_end > 0

Mark(c, nref) ==
  LET seen == c.seen[nref.seen]
      list == seen.list_end > 0 IN
  CASE nref.type = "def" -> (IF list THEN <<".", " ">> ELSE <<>>) \o <<"#">> \o Number(seen.number) \o <<"=">>
                            \o (IF list THEN <<"(">> ELSE <<>>)
    [] nref.type = "use" -> <<"#">> \o Number(seen.number)
    [] nref.type = "list_end" -> <<")">>

\* The text with the marks
Assembled(c) ==
  LET placed == [i \in DOMAIN c.nrefs |-> c.nrefs[i] @@
                   [at |-> IF c.nrefs[i].pos = INFINITE THEN c.seen[c.nrefs[i].seen].list_end ELSE c.nrefs[i].pos]]
      sorted == SortSeq(placed, LAMBDA a, b : Before(c, a, b))
      piece(i) == SubSeq(c.sb, (IF i = 1 THEN 0 ELSE sorted[i - 1].at) + 1, sorted[i].at)
      text == FlattenSeq([i \in DOMAIN sorted |->
                piece(i) \o IF c.seen[sorted[i].seen].uses = 0 THEN <<>> ELSE Mark(c, sorted[i])])
      rest == IF sorted = <<>> THEN c.sb ELSE SubSeq(c.sb, Last(sorted).at + 1, Len(c.sb))
  IN [text |-> text \o rest,
      undecided |-> \E i \in DOMAIN placed, j \in DOMAIN placed : i < j /\ Undecided(c, placed[i], placed[j])]

\* lost: the marks did not fit into what was set aside for them
Result(text, r, died) == [text |-> text, r |-> r, died |-> died, lost |-> FALSE]

simple_print(str, max) ==
  CASE Len(str) <= max -> Result(str, TRUE, "no")
    [] Len(str) > max /\ constant -> Result(<<>>, FALSE, "no")
    [] Len(str) > max /\ ~constant /\ truncate -> Result(SubSeq(str, 1, max), FALSE, "no")
    [] OTHER -> IF max < 3 THEN Result(<<>>, FALSE, "no") ELSE Result(Dots, TRUE, "no")

Leftover(c) == IF ~mode.nref /\ c.seen # <<>> THEN "seen is not empty" ELSE "no"
Printed(c, marked, max) ==
  [Result(SubSeq(marked.text, 1, Min({max, Len(marked.text)})), c.r,
          IF marked.undecided THEN "cmp_nref" ELSE Leftover(c))
   EXCEPT !.lost = Len(marked.text) > max]
Cut(c, max) ==
  CASE c.died # "no" -> Result(<<>>, FALSE, c.died)
    [] c.died = "no" /\ ~c.r /\ constant -> Result(<<>>, FALSE, Leftover(c))
    [] c.died = "no" /\ ~c.r /\ ~constant /\ c.sb = <<>> /\ (~truncate \/ mode.nref) ->
         IF max >= 3 THEN Result(Dots, TRUE, Leftover(c)) ELSE Result(<<>>, FALSE, Leftover(c))
    [] OTHER -> Printed(c, Assembled(c), max)

output_value_cut(v, max) ==
  LET atom(n) == IF constant THEN max ELSE n
      start == [sb |-> <<>>, maxlen |-> max, atom |-> atom(MAX_ATOM_LEN), seen |-> <<>>, nrefs |-> <<>>, nest |-> 0,
                g |-> <<>>, added |-> <<>>, r |-> TRUE, died |-> "no"]
  IN IF IsObject(v) THEN Cut(print_value(start, v), max)
     ELSE simple_print(IF v = NULL THEN <<"(", ")">> ELSE <<v>>, max)

Unprinted == Result(<<>>, FALSE, "not yet")

Init == /\ \E call \in Inputs : value = call[1] /\ maxlen = call[2] /\ mode = call[3]
        /\ printed = Unprinted
Output == /\ printed = Unprinted
          /\ printed' = output_value_cut(Root, maxlen)
          /\ UNCHANGED <<value, maxlen, mode>>
Next == Output
Spec == Init /\ [][Next]_vars

(***************************************************************************)
(* What the text of a value is, when nothing has to be cut and nothing     *)
(* comes again.                                                            *)
(***************************************************************************)
Inside(objects) == objects \union UNION {Range(heap[o].items) \cap DOMAIN heap : o \in objects}
Reached(objects) == FoldLeft(LAMBDA found, o : Inside(found), objects, SetToSeq(DOMAIN heap))
Acyclic == \A o \in DOMAIN heap : o \notin Reached(Range(heap[o].items) \cap DOMAIN heap)
Joined(texts) == FlattenSeq([i \in DOMAIN texts |-> IF i = 1 THEN texts[i] ELSE <<" ">> \o texts[i]])

RECURSIVE Text(_), ListText(_)
Text(v) ==
  CASE v = NULL -> <<"(", ")">>
    [] v # NULL /\ ~IsObject(v) -> <<v>>
    [] Is(v, "string") -> <<Quote>> \o FlattenSeq([i \in DOMAIN heap[v].chars |-> Escaped(heap[v].chars[i])]) \o <<Quote>>
    [] Is(v, "gone") -> <<"{">> \o TypeName("gone") \o <<"}">>
    [] Is(v, "vector") -> <<"[">> \o Joined([i \in DOMAIN heap[v].items |-> Text(heap[v].items[i])]) \o <<"]">>
    [] Is(v, "table") ->
         <<"{">> \o Joined([i \in DOMAIN heap[v].items |->
                     Text(heap[v].names[i]) \o <<"=">> \o Text(heap[v].items[i])]) \o <<"}">>
    [] Is(v, "pair") -> <<"(">> \o ListText(v) \o <<")">>
ListText(p) ==
  Text(car(p)) \o CASE cdr(p) = NULL -> <<>>
                    [] Is(cdr(p), "pair") -> <<" ">> \o ListText(cdr(p))
                    [] OTHER -> <<" ", ".", " ">> \o Text(cdr(p))

(***************************************************************************)
(* Properties                                                              *)
(***************************************************************************)
Done == printed # Unprinted

\* What the printer sets aside while it descends (for the ends of groups, for
\* "...", and for the marks it will only later put in) is what it then needs:
\* no assertion about it fails, no group cannot be closed, no mark is lost.
\* Without indentation, and apart from the lists that cmp_nref() cannot order.
RoomKept == Done /\ mode.indent = 0 /\ ~truncate => printed.died \in {"no", "cmp_nref"} /\ ~printed.lost

\* A value that fits is printed whole; output that may be truncated is the
\* beginning of it, and a constant is printed whole or not at all.
Whole ==
  Done /\ mode.indent = 0 /\ ~mode.nref /\ Acyclic =>
  LET text == Text(Root)
      fits == Len(text) <= maxlen
  IN CASE constant -> printed.text \in {text, <<>>} /\ (printed.r <=> printed.text = text)
       [] ~constant /\ truncate -> printed.text = SubSeq(text, 1, Min({maxlen, Len(text)}))
       [] OTHER -> fits => printed.text = text /\ printed.r

\* pop_from_seen() asserts that the object it takes off is the one that it was
\* called for, write_list() uses what it has entered itself.
SeenInOrder == Done => printed.died \notin {"pop_from_seen", "write_list"}
=============================================================================

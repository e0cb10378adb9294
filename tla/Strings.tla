------------------------------ MODULE Strings -------------------------------
(***************************************************************************)
(* The string primitives that look for something or copy parts             *)
(* (runtime/mudlle-string.c): positions count from 0.  Characters are      *)
(* members of small sets; `Fold' maps each to the one that stands for it   *)
(* in a comparison without case and accents.  iconv and PCRE, which are    *)
(* external, are what string_from_utf8() and regexp_exec() see of them.    *)
(***************************************************************************)
EXTENDS Integers, SequencesExt

CONSTANTS Haystacks, Needles,   \* what is searched, and for what
          Offsets,              \* offsets and lengths that are asked for
          Lines,                \* what split_words() splits
          Encoded,              \* what string_from_utf8() is given: "v" for a
                                \* character of ISO 8859-1, "u" for another
                                \* one, "i" for a byte that encodes none
          BUFSIZ,               \* characters of the buffer for iconv()
          Fields,               \* bound on the groups of a regular expression
          MAX_STRING_SIZE

Letters == {"a", "A", "b"}
StringsAssumptions ==
  /\ Haystacks \subseteq Seq(Letters) /\ Needles \subseteq Seq(Letters) /\ Offsets \subseteq Int
  /\ Lines \subseteq Seq({"x", "blank", "single", "double"})
  /\ Encoded \subseteq Seq({"v", "u", "i"}) /\ BUFSIZ \in Nat \ {0}
  /\ Fields \in Nat /\ MAX_STRING_SIZE \in Nat

VARIABLES query, answer
strings_vars == <<query, answer>>

Lower == [c \in Letters |-> IF c = "A" THEN "a" ELSE c]
Unchanged == [c \in Letters |-> c]
Canon(fold) == IF fold THEN Lower ELSE Unchanged

Ok(v) == [error |-> "none", value |-> v]
Throw(e) == [error |-> e]

\* A negative index counts from the end
ct_string_index(idx, s, beyond) ==
  LET i == IF idx < 0 THEN idx + Len(s) ELSE idx
  IN  IF i < 0 \/ i >= Len(s) + beyond THEN -1 ELSE i

(***************************************************************************)
(* Looking for a string: the text is read at the places where the last     *)
(* character of the needle occurs.                                         *)
(***************************************************************************)
\* how far the last character is from its previous occurrence
\* Mutant: from its first one
steplen_First(s, canon) ==
  Max({Len(s) - j : j \in {k \in 1..(Len(s) - 1) : canon[s[k]] = canon[Last(s)]}} \cup
      (IF \E k \in 1..(Len(s) - 1) : canon[s[k]] = canon[Last(s)] THEN {} ELSE {Len(s)}))
steplen(s, canon) ==
  Min({Len(s)} \cup {Len(s) - j : j \in {k \in 1..(Len(s) - 1) : canon[s[k]] = canon[Last(s)]}})

EqualAt(t, start, s, n, canon) == \A k \in 1..n : canon[t[start + k]] = canon[s[k]]

\* Where the last character is from i on, and where a match would start that
\* ends at the first of these places
LastAt(t, s, i, canon) == {k \in i..(Len(t) - 1) : canon[t[k + 1]] = canon[Last(s)]}
check_start(t, s, i, canon) == Min(LastAt(t, s, i, canon)) - (Len(s) - 1)
\* The search from i on is over: no match can come, or there it is
Ended(t, s, i, canon) == \/ LastAt(t, s, i, canon) = {}
                         \/ EqualAt(t, check_start(t, s, i, canon), s, Len(s) - 1, canon)
\* Each turn begins a step after the one before, as long as that is in t
SearchFrom(t, s, canon) ==
  LET from(turn) == Len(s) - 1 + turn * steplen(s, canon)
      last == {turn \in 0..Len(t) : from(turn) < Len(t) /\ Ended(t, s, from(turn), canon)}
      i == from(Min(last))
  IN  IF last = {} \/ LastAt(t, s, i, canon) = {} THEN -1 ELSE check_start(t, s, i, canon)

string_search(s1, s2, offset, fold) ==
  LET ofs == IF offset < 0 THEN offset + Len(s1) ELSE offset
      t == SubSeq(s1, ofs + 1, Len(s1))
      found == SearchFrom(t, s2, Canon(fold))
  IN  IF ofs < 0 \/ ofs > Len(s1) THEN Throw("bad_value")
      ELSE IF s2 = <<>> THEN Ok(0)
      ELSE IF Len(s2) > Len(t) \/ found = -1 THEN Ok(-1)
      ELSE Ok(found + ofs)

string_index(s, c, offset) ==
  LET ofs == ct_string_index(offset, s, 1)
      found == {k \in ofs..(Len(s) - 1) : s[k + 1] = c}
  IN  IF ofs = -1 THEN Throw("bad_index") ELSE Ok(IF found = {} THEN -1 ELSE Min(found))

\* How many characters from `ofs' on, and at most `max', are all in or all
\* not in `filter'
SpanTo(s, at, end, stops) == Min({end} \cup {k \in at..(end - 1) : stops[s[k + 1]]})
string_xspan(s, offset, max, filter, accept) ==
  LET ofs == ct_string_index(offset, s, 1)
      end == IF max + ofs > Len(s) THEN Len(s) ELSE max + ofs
      stops == [c \in Letters |-> (c \in ToSet(filter)) # accept]
  IN  IF ofs = -1 THEN Throw("bad_index")
      ELSE IF max < 0 THEN Throw("bad_range")
      ELSE Ok(SpanTo(s, ofs, end, stops) - ofs)

substring(s, start, length) ==
  LET first == ct_string_index(start, s, 1) IN
  IF first = -1 THEN Throw("bad_index")
  ELSE IF length < 0 THEN Throw("bad_range")
  ELSE IF first + length > Len(s) THEN Throw("bad_index")
  ELSE Ok(SubSeq(s, first + 1, first + length))

\* What comes first of two strings, of which `max' characters count
CMP(a, b) == IF a < b THEN -1 ELSE IF a > b THEN 1 ELSE 0
Code == [c \in Letters |-> CASE c = "A" -> 1 [] c = "a" -> 2 [] c = "b" -> 3]
Compared(s1, s2, canon) ==
  LET diff(i) == CMP(Code[canon[s1[i]]], Code[canon[s2[i]]])
      minlen == Min({Len(s1), Len(s2)})
      differ == {i \in 1..minlen : diff(i) # 0}
  IN  IF differ = {} THEN CMP(Len(s1), Len(s2)) ELSE diff(Min(differ))
Cut(s, max) == SubSeq(s, 1, Min({Len(s), max}))
string_ncmp(s1, s2, max, fold) == IF max < 0 THEN Throw("bad_range")
                                  ELSE Ok(Compared(Cut(s1, max), Cut(s2, max), Canon(fold)))

(***************************************************************************)
(* Copying                                                                 *)
(***************************************************************************)
sconcat(args) ==
  IF FoldSeq(LAMBDA s, n : n + Len(s), 0, args) > MAX_STRING_SIZE THEN Throw("bad_value")
  ELSE Ok(FlattenSeq(args))

sdelete(c, s) == Ok(SelectSeq(s, LAMBDA x : x # c))

IsQuote(c) == c \in {"single", "double"}
\* where the word ends that begins at idx
WordEnd(s, idx) ==
  LET quotes == {k \in (idx + 1)..(Len(s) - 1) : s[k + 1] = s[idx + 1]}
      blanks == {k \in (idx + 1)..(Len(s) - 1) : s[k + 1] = "blank"}
  IN  IF IsQuote(s[idx + 1]) /\ quotes # {} THEN Min(quotes) + 1
      ELSE IF blanks = {} THEN Len(s) ELSE Min(blanks)
\* A turn skips a blank or takes a word
SplitTurn(s, st) ==
  IF st.idx = Len(s) THEN st
  ELSE IF s[st.idx + 1] = "blank" THEN [st EXCEPT !.idx = @ + 1]
  ELSE LET end == WordEnd(s, st.idx)
       IN  [idx |-> end, words |-> Append(st.words, SubSeq(s, st.idx + 1, end))]
split_words(s) ==
  LET after[turn \in 0..Len(s)] ==
        IF turn = 0 THEN [idx |-> 0, words |-> <<>>] ELSE SplitTurn(s, after[turn - 1])
  IN  Ok(after[Len(s)].words)

\* One call of iconv() from `pos' on: it stops at the end, at an error or
\* when the buffer is full.  What it cannot represent is an error, or is
\* replaced or left out, as the encoding asked for says.
iconv_char(s, mode, st) ==
  LET c == s[st.pos + 1] IN
  IF st.r # "more" THEN st
  ELSE IF st.pos = Len(s) THEN [st EXCEPT !.r = "done"]
  ELSE IF c = "i" \/ (c = "u" /\ mode = 0) THEN [st EXCEPT !.r = "EILSEQ"]
  ELSE IF c = "u" /\ mode = 3 THEN [st EXCEPT !.pos = @ + 1]
  ELSE IF Len(st.out) = BUFSIZ THEN [st EXCEPT !.r = "E2BIG"]
  ELSE [st EXCEPT !.pos = @ + 1, !.out = Append(@, IF c = "u" THEN "replaced" ELSE c)]
iconv(s, pos, mode) ==
  LET after[n \in 0..(Len(s) + 1)] ==
        IF n = 0 THEN [pos |-> pos, out |-> <<>>, r |-> "more"] ELSE iconv_char(s, mode, after[n - 1])
  IN  after[Len(s) + 1]

\* A turn of string_from_utf8()
Utf8Turn(s, mode, st) ==
  LET r == iconv(s, st.inpos, mode)
      fails == r.r = "EILSEQ" /\ r.pos < Len(s)
      next == IF fails THEN r.pos + 1 ELSE r.pos
  IN  IF st.end # "more" THEN st
      ELSE IF fails /\ mode < 2 THEN [st EXCEPT !.end = "bad_value"]
      ELSE [inpos |-> next, op |-> st.op \o r.out, end |-> IF next = Len(s) THEN "done" ELSE "more"]
string_from_utf8(s, mode) ==
  LET after[turn \in 0..(Len(s) + 1)] ==
        IF turn = 0 THEN [inpos |-> 0, op |-> <<>>, end |-> "more"] ELSE Utf8Turn(s, mode, after[turn - 1])
      st == after[Len(s) + 1]
  IN  IF st.end = "bad_value" THEN Throw("bad_value") ELSE Ok(st.op)

\* With PCRE_SUBMATCH: the first group that matched, from the starts of the
\* groups in a match, where -1 is PCRE2_UNSET; group 0 is the whole match
submatch(ovector) ==
  LET Wrapped(i) == IF i >= Len(ovector) THEN 0 ELSE i
      i[turn \in 0..Len(ovector)] ==
        IF turn = 0 THEN Wrapped(1)
        ELSE IF ovector[i[turn - 1] + 1] = -1 THEN Wrapped(i[turn - 1] + 1) ELSE i[turn - 1]
      group == i[Len(ovector)]
  IN  Ok(<<group, ovector[group + 1]>>)

(***************************************************************************)
(* Calls                                                                   *)
(***************************************************************************)
NoQuery == [op |-> "none"]
StringsInit == query = NoQuery /\ answer = Ok(0)
Answer(c, r) == query' = c /\ answer' = r

search == \E s1 \in Haystacks, s2 \in Needles, ofs \in Offsets, fold \in BOOLEAN :
            Answer([op |-> "search", s1 |-> s1, s2 |-> s2, ofs |-> ofs, fold |-> fold],
                   string_search(s1, s2, ofs, fold))
index == \E s \in Haystacks, c \in {"a", "b"}, ofs \in Offsets :
           Answer([op |-> "index", s1 |-> s, s2 |-> <<c>>, ofs |-> ofs, fold |-> FALSE], string_index(s, c, ofs))
span == \E s \in Haystacks, ofs, max \in Offsets, filter \in Needles, accept \in BOOLEAN :
          Answer([op |-> "span", s |-> s, ofs |-> ofs, max |-> max, filter |-> filter, accept |-> accept],
                 string_xspan(s, ofs, max, filter, accept))
compare == \E s1, s2 \in Needles, max \in Offsets, fold \in BOOLEAN :
             Answer([op |-> "compare", s1 |-> s1, s2 |-> s2, max |-> max, fold |-> fold],
                    string_ncmp(s1, s2, max, fold))
Sub == \E s \in Haystacks, start, length \in Offsets :
         Answer([op |-> "substring", s |-> s, start |-> start, length |-> length], substring(s, start, length))
concat == \E s1, s2, s3 \in Needles : Answer([op |-> "sconcat", args |-> <<s1, s2, s3>>], sconcat(<<s1, s2, s3>>))
delete == \E s \in Haystacks, c \in {"a", "b"} : Answer([op |-> "sdelete", s |-> s, c |-> c], sdelete(c, s))
split == \E s \in Lines : Answer([op |-> "split", s |-> s], split_words(s))
utf8 == \E s \in Encoded, mode \in 0..3 : Answer([op |-> "utf8", s |-> s, mode |-> mode], string_from_utf8(s, mode))
regexp == \E n \in 1..Fields : \E ov \in [1..n -> {-1, 0, 1}] :
            ov[1] # -1 /\ Answer([op |-> "submatch", ov |-> ov], submatch(ov))
Return == query # NoQuery /\ query' = NoQuery /\ answer' = Ok(0)

StringsNext ==
  \/ /\ query = NoQuery
     /\ \/ search \/ index \/ span \/ compare \/ Sub
        \/ concat \/ delete \/ split \/ utf8 \/ regexp
  \/ Return
StringsSpec == StringsInit /\ [][StringsNext]_strings_vars

(***************************************************************************)
(* Properties                                                              *)
(***************************************************************************)
FromEnd(n, s) == IF n < 0 THEN n + Len(s) ELSE n
Matches(q) == {k \in FromEnd(q.ofs, q.s1)..(Len(q.s1) - Len(q.s2)) :
                 EqualAt(q.s1, k, q.s2, Len(q.s2), Canon(q.fold))}
FirstMatch(q, a) == a.value = (IF Matches(q) = {} THEN -1 ELSE Min(Matches(q)))

LongestSpan(q, n) ==
  LET ofs == FromEnd(q.ofs, q.s)
      belongs(k) == (q.s[k] \in ToSet(q.filter)) = q.accept
  IN  /\ n \in 0..q.max /\ ofs + n <= Len(q.s)
      /\ \A k \in (ofs + 1)..(ofs + n) : belongs(k)
      /\ n < q.max /\ ofs + n < Len(q.s) => ~belongs(ofs + n + 1)

FirstGroup(ov, group) ==
  LET set == {i \in 1..(Len(ov) - 1) : ov[i + 1] # -1}
  IN  group = (IF set = {} THEN 0 ELSE Min(set))

Canonical(s, canon) == [k \in 1..Len(s) |-> canon[s[k]]]
IsPrefixOf(p, s) == Len(p) <= Len(s) /\ SubSeq(s, 1, Len(p)) = p
Before(s, t) == \/ s # t /\ IsPrefixOf(s, t)
                \/ \E k \in 1..Len(s) \cap 1..Len(t) :
                     /\ \A j \in 1..(k - 1) : s[j] = t[j]
                     /\ Code[s[k]] < Code[t[k]]
TellsOrder(q, a) ==
  LET s == Canonical(Cut(q.s1, q.max), Canon(q.fold))
      t == Canonical(Cut(q.s2, q.max), Canon(q.fold))
  IN  a.value = (IF Before(s, t) THEN -1 ELSE IF Before(t, s) THEN 1 ELSE 0)

\* string_search() and string_index() find the first place not before the
\* offset (mudlle-string.c:587 "Returns the first index in `s1 where `s2 was
\* found"), spans end at the first character that does not belong, a submatch
\* is the first group that matched, and a string that is the beginning of
\* another comes before it
Leftmost ==
  answer.error = "none" =>
    /\ query.op \in {"search", "index"} => query.s2 = <<>> \/ FirstMatch(query, answer)
    /\ query.op = "span" => LongestSpan(query, answer.value)
    /\ query.op = "submatch" => FirstGroup(query.ov, answer.value[1])
    /\ query.op = "compare" => TellsOrder(query, answer)

\* Splitting loses nothing but blanks between words, and a word has a blank
\* only between two quotes that are the same (mudlle-string.c:763 "quoted
\* sequences of words are kept together"); string_from_utf8() keeps every
\* character that is representable, in order, however often the buffer fills
\* up, and fails only where its mode says so
Only(chars, s) ==
  LET kept[k \in 0..Len(s)] ==
        IF k = 0 THEN <<>> ELSE IF s[k] \in chars THEN Append(kept[k - 1], s[k]) ELSE kept[k - 1]
  IN  kept[Len(s)]
Unblanked(s) == Only({"x", "single", "double"}, s)
SplitKeeps(s, words) ==
  /\ Unblanked(FlattenSeq(words)) = Unblanked(s)
  /\ \A w \in ToSet(words) :
       /\ w # <<>> /\ Head(w) # "blank"
       /\ "blank" \in ToSet(w) => IsQuote(Head(w)) /\ Last(w) = Head(w)
Utf8Keeps(s, mode, a) ==
  IF a.error = "none"
  THEN Only({"v"}, a.value) = Only({"v"}, s)
  ELSE mode < 2 /\ ToSet(s) \cap (IF mode = 0 THEN {"i", "u"} ELSE {"i"}) # {}
KeepsAll ==
  /\ query.op = "split" => SplitKeeps(query.s, answer.value)
  /\ query.op = "utf8" => Utf8Keeps(query.s, query.mode, answer)

\* A search finds the first match, whatever it skips; splitting, decoding and
\* replacing keep every character (mudlle-string.c).
FindsFirst == Leftmost /\ KeepsAll
=============================================================================

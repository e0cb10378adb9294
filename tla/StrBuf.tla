------------------------------- MODULE StrBuf -------------------------------
(***************************************************************************)
(* Growing string buffers (strbuf.c, strbuf.h).  A short string is kept in *)
(* the structure itself, a longer one in memory from malloc(), which ends  *)
(* with a nul that is not counted.                                         *)
(***************************************************************************)
EXTENDS Integers, SequencesExt

CONSTANTS STRBUF_SMALL_SIZE,  \* 23 in the code
          MinStep,            \* of sb_strftime(), 32 in the code
          Added,              \* the strings that are added
          MaxLen              \* bound on the length of the string

NUL == "nul"
GARBAGE == "?"
SPACE == " "

VARIABLES sb,        \* [isbig, len, buf]; the length of buf is its size
          held       \* history: the string it should hold
buf_vars == <<sb, held>>

Alphabet == {NUL, GARBAGE, SPACE, "a"} \cup UNION {{str[i] : i \in DOMAIN str} : str \in Added}
StrBufAssumptions ==
  /\ STRBUF_SMALL_SIZE \in Nat \ {0} /\ MinStep \in Nat \ {0} /\ MaxLen \in Nat
  /\ \A str \in Added : str \in Seq(Alphabet)

\* The smallest power of 2 that is more than n
POW2[k \in Nat] == IF k = 0 THEN 1 ELSE 2 * POW2[k - 1]
NEXT_POW2(n) == POW2[CHOOSE k \in 0..n : n < POW2[k] /\ \A j \in 0..k - 1 : POW2[j] <= n]

internal_sb_size(s) == Len(s.buf)
Chars(s) == SubSeq(s.buf, 1, s.len)

\* A buffer of a size with these characters at its start; a block of the heap
\* that grows or shrinks in place, by realloc(), ends up the same
Sized(size, str) ==
  [i \in 1..size |-> IF i <= Len(str) THEN str[i] ELSE IF i = Len(str) + 1 THEN NUL ELSE GARBAGE]
Big(size, str) == [isbig |-> TRUE, len |-> Len(str), buf |-> Sized(size, str)]
Small(str) == [isbig |-> FALSE, len |-> Len(str), buf |-> Sized(STRBUF_SMALL_SIZE, str)]

\* sb_setsize_big(): when it shrinks a big buffer it cuts the string
sb_setsize_big(s, size) ==
  IF size = internal_sb_size(s) THEN s
  ELSE Big(size, IF s.isbig /\ s.len >= size THEN SubSeq(s.buf, 1, size - 1) ELSE Chars(s))

\* Mutant: the nul at the end gets no room
sb_makeroom_NoNul(s, n) ==
  LET need == s.len + n
  IN IF need > internal_sb_size(s) THEN sb_setsize_big(s, NEXT_POW2(need - 1)) ELSE s

sb_makeroom(s, n) ==
  LET need == s.len + n + 1
  IN IF need > internal_sb_size(s) THEN sb_setsize_big(s, NEXT_POW2(need - 1)) ELSE s

\* A nul that has no room, which an assertion refuses, leaves no buffer.  What
\* comes after the nul is not looked at.
internal_sb_setlen(s, n) ==
  [s EXCEPT !.len = n, !.buf = IF n < Len(@) THEN Sized(Len(@), SubSeq(@, 1, n)) ELSE <<>>]
Put(s, ofs, str) ==
  [s EXCEPT !.buf = [i \in DOMAIN @ |-> IF i - ofs \in DOMAIN str THEN str[i - ofs] ELSE @[i]]]
sb_addmem(s, str) ==
  IF str = <<>> THEN s
  ELSE Put(internal_sb_setlen(sb_makeroom(s, Len(str)), s.len + Len(str)), s.len, str)

sb_initmem(str) ==
  IF Len(str) + 1 <= STRBUF_SMALL_SIZE THEN Small(str) ELSE Big(Len(str) + 1, str)

sb_trim(s) ==
  IF s.len >= STRBUF_SMALL_SIZE THEN sb_setsize_big(s, s.len + 1)
  ELSE IF s.isbig THEN sb_initmem(Chars(s)) ELSE s

\* sb_setlen(): characters that come into the string have any value
sb_setlen(s, n) ==
  LET new == internal_sb_setlen(s, n)
  IN Put(new, s.len, [i \in 1..(n - s.len) |-> GARBAGE])

\* The loop of sb_strftime(): longer and longer steps, until the text fits with
\* the space added after its format; strftime() returns 0 when it does not
Turns(s) ==
  LET first == internal_sb_size(s) - 1 - s.len
      turn[n \in Nat] ==
        IF n = 0 THEN [sb |-> s, step |-> IF first = 0 THEN MinStep ELSE first]
        ELSE LET t == turn[n - 1] IN
             [sb |-> sb_addmem(t.sb, [i \in 1..t.step |-> GARBAGE]),
              step |-> IF t.step < MinStep THEN MinStep ELSE 2 * t.step]
  IN turn
TextOf(str, n) == IF n = 1 THEN str ELSE Append(str, SPACE)
TextFits(s, str, n) ==
  TextOf(str, n) # <<>> /\ Len(TextOf(str, n)) < Turns(s)[n].sb.len - s.len
sb_strftime(s, str) ==
  LET last == CHOOSE n \in 1..Len(str) + 2 :
                TextFits(s, str, n) /\ \A k \in 1..n - 1 : ~TextFits(s, str, k)
  IN sb_setlen(Put(Turns(s)[last].sb, s.len, Append(TextOf(str, last), NUL)), s.len + Len(str))

(***************************************************************************)
(* The program                                                             *)
(***************************************************************************)
BufInit == sb = Small(<<>>) /\ held = <<>>

Fits(str) == Len(held) + Len(str) <= MaxLen
Becomes(new, str) == sb' = new /\ held' = str

\* sb_addmem(), and all that add a string, a character or a number with it
add(str) == Fits(str) /\ Becomes(sb_addmem(sb, str), held \o str)
\* sb_addnc()
addnc(c, n) == add([i \in 1..n |-> c])
\* sb_vprintf() with its own contents, which end with a nul, as the format
vprintf_self ==
  /\ sb.len > 0
  /\ LET fmt == SubSeq(Chars(sb), 1, Min({i \in 1..sb.len : sb.buf[i] = NUL} \cup {sb.len + 1}) - 1)
     IN /\ Fits(fmt)
        /\ Last(held) = NUL
        /\ Becomes(sb_addmem(sb, fmt), held \o fmt)
\* The room that is tried grows with each call for an empty text
ftime(str) == Fits(str) /\ internal_sb_size(sb) < 2 * MaxLen
              /\ Becomes(sb_strftime(sb, str), held \o str)
trim == Becomes(sb_trim(sb), held)
setlen(n) == /\ n <= sb.len /\ n < internal_sb_size(sb)
             /\ Becomes(sb_setlen(sb, n), SubSeq(held, 1, n))
init(str) == Becomes(sb_initmem(str), str)
\* sb_detach() gives the string to its caller; sb_free() drops it
free == Becomes(Small(<<>>), <<>>)

BufNext == \/ \E str \in Added : add(str) \/ init(str) \/ ftime(str)
           \/ \E n \in 0..MaxLen : addnc("a", n) \/ setlen(n)
           \/ vprintf_self \/ trim \/ free
BufSpec == BufInit /\ [][BufNext]_buf_vars

\* The buffer holds what was put in it, with a nul after it that is inside its
\* memory: "len < size", "buf[len] == 0" (strbuf.h); what is small is in the
\* structure.
BufferKept ==
  /\ sb.len < internal_sb_size(sb)
  /\ sb.buf[sb.len + 1] = NUL
  /\ Chars(sb) = held
  /\ sb.isbig <=> internal_sb_size(sb) > STRBUF_SMALL_SIZE
=============================================================================

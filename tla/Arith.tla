------------------------------- MODULE Arith --------------------------------
(***************************************************************************)
(* Integer arithmetic.  An integer is a machine word of W bits whose       *)
(* lowest bit is set; any other word is a pointer.  The primitives of      *)
(* runtime/arith.c compute on the tagged words; what compiled code calls   *)
(* instead of some of them (x64builtins.S) takes the tags off and puts     *)
(* them back in its own way; atoi_base() and itoa_base() convert integers  *)
(* from and to text.  A word stands for the `long' it is; arithmetic on    *)
(* words wraps, as the instructions do that the code is compiled to.       *)
(***************************************************************************)
EXTENDS Integers, Sequences, Bitwise

CONSTANTS W,          \* bits of a word, a power of two; 64 in the code
          Words,      \* the operands of the primitives
          Texts,      \* what atoi_base() is given, see below
          Bases,      \* and in which bases
          Numbers     \* what itoa_base() is given

VARIABLES call,       \* the call being made: its operation and operands
          result,     \* the answer of the primitive
          compiled    \* and of the function that compiled code calls

vars == <<call, result, compiled>>

TAGGED_INT_BITS == W - 1
MAX_TAGGED_UINT == 2^(W - 1) - 1
MAX_TAGGED_INT == 2^(W - 2) - 1
MIN_TAGGED_INT == -MAX_TAGGED_INT - 1
TaggedInts == MIN_TAGGED_INT..MAX_TAGGED_INT

\* the number x as a field of `bits' bits holds it
Wrapped(x, bits) == ((x + 2^(bits - 1)) % 2^bits) - 2^(bits - 1)
long(x) == Wrapped(x, W)
ulong(x) == x % 2^W
mudlle_sign_extend(x) == Wrapped(x, TAGGED_INT_BITS)

makeint(i) == long(2 * i + 1)
intval(v) == v \div 2
uintval(v) == ulong(v) \div 2
integerp(v) == v % 2 = 1
makebool(b) == makeint(IF b THEN 1 ELSE 0)

Abs(x) == IF x < 0 THEN -x ELSE x
Sign(x) == IF x < 0 THEN -1 ELSE 1
quotient(i, j) == Sign(i) * Sign(j) * (Abs(i) \div Abs(j))
rest(i, j) == i - quotient(i, j) * j

Ok(v) == [error |-> "none", value |-> v]
Throw(e) == [error |-> e, value |-> 0]
Overflows(r, negative) == IF long(r) = r THEN Ok(r) ELSE Throw(IF negative THEN "underflow" ELSE "overflow")

(***************************************************************************)
(* The primitives of two integers                                          *)
(***************************************************************************)
plus(v1, v2) == long(v1 + v2 - 1)
subtract(v1, v2) == long(v1 - v2 + 1)
multiply(v1, v2) == makeint(intval(v1) * intval(v2))
divide(v1, v2) == makeint(quotient(intval(v1), intval(v2)))
remainder(v1, v2) == makeint(rest(intval(v1), intval(v2)))
modulo(v1, v2) ==
  LET r == rest(intval(v1), intval(v2))
  IN  makeint(IF r # 0 /\ (intval(v1) < 0) # (intval(v2) < 0) THEN r + intval(v2) ELSE r)
bitor(v1, v2) == long(ulong(v1) | ulong(v2))
bitxor(v1, v2) == long((ulong(v1) ^^ ulong(v2)) | 1)
bitand(v1, v2) == long(ulong(v1) & ulong(v2))
shift_left(v1, v2) == makeint(uintval(v1) * 2^(uintval(v2) % W))
shift_right(v1, v2) == makeint(intval(v1) \div 2^(uintval(v2) % W))

overflow_add(a, b) == Overflows(a + b - 1, a <= 0)
overflow_sub(a, b) == Overflows(a - (b - 1), a <= 0)
overflow_mul(a, b) ==
  LET r == (a \div 2) * (b - 1)
  IN  IF long(r) = r THEN Ok(long(ulong(r) | 1))
      ELSE Throw(IF (a < 0) = (b < 0) THEN "overflow" ELSE "underflow")
overflow_div(a, b) == IF a = makeint(MIN_TAGGED_INT) /\ b = makeint(-1) THEN Throw("overflow")
                      ELSE Ok(divide(a, b))
\* the new sign bit and all bits shifted out must be equal
overflow_shl(a, b) ==
  LET an == intval(a)
      bn == intval(b)
      mask == long(-(2^(TAGGED_INT_BITS - 1 - bn)))
      ah == long(ulong(an) & ulong(mask))
  IN  IF IF bn >= TAGGED_INT_BITS THEN an = 0 ELSE ah \in {0, mask}
      THEN Ok(IF bn >= TAGGED_INT_BITS THEN makeint(0) ELSE makeint(an * 2^bn))
      ELSE Throw(IF an >= 0 THEN "overflow" ELSE "underflow")
overflow_shr(a, b) == IF intval(b) >= TAGGED_INT_BITS THEN Ok(makeint(IF a >= 0 THEN 0 ELSE -1))
                      ELSE Ok(makeint(intval(a) \div 2^intval(b)))

Dividing == {"divide", "remainder", "modulo", "overflow_div"}
Shifting == {"overflow_shl", "overflow_shr"}
Overflowing == {"overflow_neg", "overflow_abs", "overflow_add", "overflow_sub",
                "overflow_mul", "overflow_div", "overflow_shl"}
Binary == {"plus", "subtract", "multiply", "divide", "remainder", "modulo", "smaller", "max", "min",
           "bitor", "bitxor", "bitand", "shift_left", "shift_right", "overflow_add",
           "overflow_sub", "overflow_mul", "overflow_div", "overflow_shl", "overflow_shr"}

Operation(op, a, b) ==
  CASE op = "plus" -> Ok(plus(a, b))
    [] op = "subtract" -> Ok(subtract(a, b))
    [] op = "multiply" -> Ok(multiply(a, b))
    [] op = "divide" -> Ok(divide(a, b))
    [] op = "remainder" -> Ok(remainder(a, b))
    [] op = "modulo" -> Ok(modulo(a, b))
    [] op = "smaller" -> Ok(makebool(a < b))
    [] op = "max" -> Ok(IF a < b THEN b ELSE a)
    [] op = "min" -> Ok(IF a < b THEN a ELSE b)
    [] op = "bitor" -> Ok(bitor(a, b))
    [] op = "bitxor" -> Ok(bitxor(a, b))
    [] op = "bitand" -> Ok(bitand(a, b))
    [] op = "shift_left" -> Ok(shift_left(a, b))
    [] op = "shift_right" -> Ok(shift_right(a, b))
    [] op = "overflow_add" -> overflow_add(a, b)
    [] op = "overflow_sub" -> overflow_sub(a, b)
    [] op = "overflow_mul" -> overflow_mul(a, b)
    [] op = "overflow_div" -> overflow_div(a, b)
    [] op = "overflow_shl" -> overflow_shl(a, b)
    [] op = "overflow_shr" -> overflow_shr(a, b)

check_integers(a, b) == integerp(a) /\ integerp(b)

\* A primitive with its checks; the error of a bad type names the operands
Primitive(op, a, b) ==
  IF ~check_integers(a, b) THEN [error |-> "bad_type", value |-> <<a, b>>]
  ELSE IF op \in Dividing /\ b = makeint(0) THEN [error |-> "divide_by_zero", value |-> <<a, b>>]
  ELSE IF op \in Shifting /\ b < 0 THEN Throw("bad_range")
  ELSE Operation(op, a, b)

(***************************************************************************)
(* The primitives of one integer                                           *)
(***************************************************************************)
negate(n) == long(2 - n)
labs(x) == long(Abs(x))
abs(n) == long(labs(n - 1) + 1)
bitnot(n) == long(ulong(n) ^^ ulong(-2))
ffs(n) == makeint(IF intval(n) = 0 THEN 0
                  ELSE CHOOSE i \in 1..W : /\ intval(n) % 2^i # 0
                                           /\ intval(n) % 2^(i - 1) = 0)
overflow_neg(n) == Overflows(2 - n, FALSE)
overflow_abs(n) == IF n = makeint(MIN_TAGGED_INT) THEN Throw("overflow") ELSE Ok(abs(n))

Unary == {"negate", "abs", "bitnot", "ffs", "overflow_neg", "overflow_abs"}
Operation1(op, n) ==
  CASE op = "negate" -> Ok(negate(n))
    [] op = "abs" -> Ok(abs(n))
    [] op = "bitnot" -> Ok(bitnot(n))
    [] op = "ffs" -> Ok(ffs(n))
    [] op = "overflow_neg" -> overflow_neg(n)
    [] op = "overflow_abs" -> overflow_abs(n)

(***************************************************************************)
(* What compiled code calls.  Each takes the tags off by shifting or       *)
(* clearing, finds out on the way whether its operands are integers, and   *)
(* if one is not puts them back together for the primitive, which fails.   *)
(***************************************************************************)
sar(v) == v \div 2
odd(v) == v % 2 = 1
MAKEINT(v) == long(2 * v + 1)
add_self(v) == long(2 * v)
SETINT(v) == long(ulong(v) | 1)
cl(v) == ulong(v) % W

bmultiply(a, b) ==
  LET a0 == long(a - (a % 2)) IN
  IF ~odd(a) THEN Primitive("multiply", a0, b)
  ELSE IF ~odd(b) THEN Primitive("multiply", SETINT(a0), add_self(sar(b)))
  ELSE Ok(long(a0 * sar(b) + 1))

\* bdivide and bremainder, which return different halves of what idiv leaves
Idiv(op, a, b) ==
  IF ~odd(a) THEN Primitive(op, a, b)
  ELSE IF ~odd(b) THEN Primitive(op, a, add_self(sar(b)))
  ELSE IF sar(b) = 0 THEN Primitive(op, a, MAKEINT(sar(b)))
  ELSE Ok(MAKEINT(IF op = "divide" THEN quotient(sar(a), sar(b)) ELSE rest(sar(a), sar(b))))

bshift_left(a, b) ==
  IF ~odd(b) THEN Primitive("shift_left", a, add_self(sar(b)))
  ELSE IF ~odd(a) THEN Primitive("shift_left", a, MAKEINT(sar(b)))
  ELSE Ok(SETINT(long((a - 1) * 2^cl(sar(b)))))

\* Mutant: the shift count is handed on without its tag
bshift_right_Untagged(a, b) ==
  IF ~odd(b) THEN Primitive("shift_right", a, add_self(sar(b)))
  ELSE IF ~odd(a) THEN Primitive("shift_right", a, sar(b))
  ELSE Ok(SETINT(a \div 2^cl(sar(b))))
bshift_right(a, b) ==
  IF ~odd(b) THEN Primitive("shift_right", a, add_self(sar(b)))
  ELSE IF ~odd(a) THEN Primitive("shift_right", a, MAKEINT(sar(b)))
  ELSE Ok(SETINT(a \div 2^cl(sar(b))))

Compiled(op, a, b) ==
  CASE op = "multiply" -> bmultiply(a, b)
    [] op \in {"divide", "remainder"} -> Idiv(op, a, b)
    [] op = "shift_left" -> bshift_left(a, b)
    [] op = "shift_right" -> bshift_right(a, b)
    [] OTHER -> Primitive(op, a, b)

(***************************************************************************)
(* Text.  A character is a number: the digits 0 to 35 of any base, where   *)
(* `b' and `x' are digits too, the signs, a blank and the final NUL.       *)
(***************************************************************************)
Digit == 0..35
LetterB == 11
LetterX == 33
PlusSign == 36
MinusSign == 37
Blank == 38
NUL == 39

RECURSIVE ulongtostr(_, _)
ulongtostr(base, u) == (IF u < base THEN <<>> ELSE ulongtostr(base, u \div base)) \o <<u % base>>
longtostr(base, l) == (IF l < 0 THEN <<MinusSign>> ELSE <<>>) \o ulongtostr(base, ulong(Abs(l)))

\* the digits from the character at `sp' on, after which n is read
RECURSIVE ReadDigits(_, _, _, _, _)
ReadDigits(s, sp, base, lim, n) ==
  LET n1 == long(n * base + s[sp]) IN
  IF s[sp] \notin Digit \/ s[sp] >= base \/ n1 > lim THEN Throw("syntax")
  ELSE IF sp = Len(s) THEN Ok(n1)
  ELSE IF n1 > lim \div base THEN Throw("syntax")
  ELSE ReadDigits(s, sp + 1, base, lim, n1)

\* Mutant: a sign does not take the sign bit away
Limit_Signed(sign, base, allow_one_overflow) ==
  IF base # 10 THEN MAX_TAGGED_UINT
  ELSE IF sign = -1 \/ allow_one_overflow THEN -MIN_TAGGED_INT ELSE MAX_TAGGED_INT
Limit(sign, base, allow_one_overflow) ==
  IF sign = 0 /\ base # 10 THEN MAX_TAGGED_UINT
  ELSE IF sign = -1 \/ allow_one_overflow THEN -MIN_TAGGED_INT ELSE MAX_TAGGED_INT

mudlle_strtolong(s, base0, allow_one_overflow) ==
  LET At(i) == IF i <= Len(s) THEN s[i] ELSE NUL
      start == CHOOSE i \in 1..(Len(s) + 1) : At(i) # Blank /\ \A j \in 1..(i - 1) : s[j] = Blank
      sign == CASE At(start) = PlusSign -> 1 [] At(start) = MinusSign -> -1 [] OTHER -> 0
      first == IF sign = 0 THEN start ELSE start + 1
      prefix == IF At(first) # 0 THEN "none"
                ELSE CASE At(first + 1) = LetterX -> "hex" [] At(first + 1) = LetterB -> "binary"
                       [] OTHER -> "zero"
      base == CASE prefix = "hex" -> 16 [] prefix = "binary" -> 2
                [] prefix = "zero" -> IF base0 = 0 THEN 8 ELSE base0
                [] OTHER -> IF base0 = 0 THEN 10 ELSE base0
      sp == CASE prefix \in {"hex", "binary"} -> first + 2 [] prefix = "zero" -> first + 1 [] OTHER -> first
      n == ReadDigits(s, sp, base, Limit(sign, base, allow_one_overflow), 0)
  IN  IF prefix = "zero" /\ sp = Len(s) + 1 THEN Ok(0)
      ELSE IF \/ first > Len(s) \/ sp > Len(s)
              \/ (prefix \in {"hex", "binary"} /\ base0 \notin {0, base})
              \/ n.error # "none"
           THEN Throw("syntax")
      ELSE Ok(IF sign = -1 THEN -n.value
              ELSE IF sign = 0 /\ base # 10 THEN mudlle_sign_extend(n.value) ELSE n.value)

(***************************************************************************)
(* Calls                                                                   *)
(***************************************************************************)
NoCall == [op |-> "none"]
Init == call = NoCall /\ result = Ok(0) /\ compiled = Ok(0)

binary(op) ==
  \E a, b \in Words :
    /\ call' = [op |-> op, a |-> a, b |-> b]
    /\ result' = Primitive(op, a, b)
    /\ compiled' = Compiled(op, a, b)

unary(op) ==
  \E n \in Words :
    /\ call' = [op |-> op, a |-> n, b |-> makeint(0)]
    /\ result' = IF integerp(n) THEN Operation1(op, n) ELSE Throw("bad_type")
    /\ compiled' = result'

atoi_base ==
  \E s \in Texts, base \in Bases, allow \in BOOLEAN :
    /\ call' = [op |-> "atoi_base", s |-> s, base |-> base, allow |-> allow]
    /\ result' = mudlle_strtolong(s, base, allow)
    /\ compiled' = result'

itoa_base ==
  \E n \in Numbers, base \in Bases \ {0} :
    /\ call' = [op |-> "itoa_base", a |-> n, base |-> base]
    /\ result' = Ok(longtostr(base, n))
    /\ compiled' = mudlle_strtolong(longtostr(base, n), base, FALSE)

Return == call # NoCall /\ call' = NoCall /\ result' = Ok(0) /\ compiled' = Ok(0)

Next == \/ /\ call = NoCall
           /\ \/ \E op \in Binary : binary(op)
              \/ \E op \in Unary : unary(op)
              \/ atoi_base
              \/ itoa_base
        \/ Return

Spec == Init /\ [][Next]_vars

(***************************************************************************)
(* Properties                                                              *)
(***************************************************************************)
\* What the operations compute of integers without bounds; a shift by W or
\* more shifts everything out
Bit(i, n) == (i \div 2^n) % 2
FromBits(b) == LET RECURSIVE Sum(_)
                   Sum(n) == IF n = TAGGED_INT_BITS THEN 0 ELSE b[n] * 2^n + Sum(n + 1)
               IN  Sum(0)
Bitwise(i, j, f(_, _)) == FromBits([n \in 0..(TAGGED_INT_BITS - 1) |-> f(Bit(i, n), Bit(j, n))])
Truncated(i, j) == CHOOSE q \in -Abs(i)..Abs(i) :
                     LET r == i - q * j IN Abs(r) < Abs(j) /\ (r = 0 \/ Sign(r) = Sign(i))
Floored(i, j) == CHOOSE q \in -Abs(i)..Abs(i) :
                   LET r == i - q * j IN Abs(r) < Abs(j) /\ (r = 0 \/ Sign(r) = Sign(j))

Exact(op, i, j) ==
  CASE op \in {"plus", "overflow_add"} -> i + j
    [] op \in {"subtract", "overflow_sub"} -> i - j
    [] op \in {"multiply", "overflow_mul"} -> i * j
    [] op \in {"divide", "overflow_div"} -> Truncated(i, j)
    [] op = "remainder" -> i - Truncated(i, j) * j
    [] op = "modulo" -> i - Floored(i, j) * j
    [] op = "smaller" -> IF i < j THEN 1 ELSE 0
    [] op = "max" -> IF i < j THEN j ELSE i
    [] op = "min" -> IF i < j THEN i ELSE j
    [] op = "bitor" -> Bitwise(i, j, LAMBDA x, y : IF x + y = 0 THEN 0 ELSE 1)
    [] op = "bitxor" -> Bitwise(i, j, LAMBDA x, y : IF x = y THEN 0 ELSE 1)
    [] op = "bitand" -> Bitwise(i, j, LAMBDA x, y : x * y)
    [] op = "shift_left" -> i * 2^(j % W)
    [] op = "overflow_shl" -> i * 2^(IF j < W THEN j ELSE W)
    [] op = "shift_right" -> i \div 2^(j % W)
    [] op = "overflow_shr" -> i \div 2^(IF j < W THEN j ELSE W)
    [] op \in {"negate", "overflow_neg"} -> -i
    [] op \in {"abs", "overflow_abs"} -> Abs(i)
    [] op = "bitnot" -> -1 - i
    [] op = "ffs" -> IF i = 0 THEN 0 ELSE 1 + (CHOOSE n \in 0..W : Bit(i, n) = 1 /\ \A k \in 0..(n - 1) : Bit(i, k) = 0)

Arithmetic == call.op \in Binary \cup Unary

\* An operation on tagged words gives the exact result, or its lowest bits
\* where it may not fail; the checked operations fail exactly when the exact
\* result does not fit, and say in which direction (runtime/arith.c)
WrapsOrFails ==
  Arithmetic /\ result.error \notin {"bad_type", "divide_by_zero", "bad_range"} =>
    LET x == Exact(call.op, intval(call.a), intval(call.b)) IN
    IF call.op \in Overflowing /\ x \notin TaggedInts
    THEN result.error = (IF x < 0 THEN "underflow" ELSE "overflow")
    ELSE result = Ok(makeint(mudlle_sign_extend(x)))

\* Compiled code computes what the primitive does, and where it fails the
\* primitive fails in its place with the operands it was given
\* (x64builtins.S:294-393)
CompiledAgrees == Arithmetic => compiled = result

\* What a text stands for in a base: blanks, a sign, a prefix that fits the
\* base, digits; without a sign and in another base than ten, the bits.  The
\* values from 2^W on are as good as infinite.
RECURSIVE PlaceValue(_, _)
PlaceValue(s, base) ==
  IF s = <<>> THEN 0
  ELSE LET u == PlaceValue(SubSeq(s, 1, Len(s) - 1), base) * base + s[Len(s)]
       IN  IF u < 2^W THEN u ELSE 2^W
Readings(s) ==
  {m \in [blanks : 0..Len(s), sign : {<<>>, <<PlusSign>>, <<MinusSign>>},
          prefix : {<<>>, <<0>>, <<0, LetterX>>, <<0, LetterB>>}] :
     LET front == [i \in 1..m.blanks |-> Blank] \o m.sign \o m.prefix
     IN  Len(front) <= Len(s) /\ SubSeq(s, 1, Len(front)) = front}
RadixOf(m, base0) == CASE m.prefix = <<0, LetterX>> -> 16 [] m.prefix = <<0, LetterB>> -> 2
                       [] OTHER -> IF base0 # 0 THEN base0 ELSE IF m.prefix = <<0>> THEN 8 ELSE 10
DigitsOf(m, s) == SubSeq(s, m.blanks + Len(m.sign) + Len(m.prefix) + 1, Len(s))
Proper(m, s, base0) ==
  LET digits == DigitsOf(m, s) IN
  /\ base0 \in {0, RadixOf(m, base0)}
  /\ \A i \in 1..Len(digits) : digits[i] \in 0..(RadixOf(m, base0) - 1)
  /\ CASE m.prefix = <<>> -> digits # <<>> /\ digits[1] # 0
       [] m.prefix = <<0>> -> digits = <<>> \/ digits[1] \notin {LetterX, LetterB}
       [] OTHER -> digits # <<>>
Denoted(s, base0, allow) ==
  LET ValueOf(m) == PlaceValue(DigitsOf(m, s), RadixOf(m, base0))
      bits(m) == m.sign = <<>> /\ RadixOf(m, base0) # 10
      fits(m) == IF bits(m) THEN ValueOf(m) <= MAX_TAGGED_UINT
                 ELSE \/ ValueOf(m) <= MAX_TAGGED_INT
                      \/ ValueOf(m) = -MIN_TAGGED_INT /\ (allow \/ m.sign = <<MinusSign>>)
  IN  {IF m.sign = <<MinusSign>> THEN -ValueOf(m)
       ELSE IF bits(m) THEN mudlle_sign_extend(ValueOf(m)) ELSE ValueOf(m) :
         m \in {r \in Readings(s) : Proper(r, s, base0) /\ fits(r)}}

\* A text is read as the integer it stands for and as no other, and not at
\* all when it stands for none or for one out of range; what itoa_base()
\* writes is read back as the same integer
\* (types.c:407-412 "On over/underflow or illegal characters, it returns false.")
ReadsExactly ==
  /\ call.op = "atoi_base" =>
       Denoted(call.s, call.base, call.allow) =
         IF result.error = "none" THEN {result.value} ELSE {}
  /\ call.op = "itoa_base" => compiled = Ok(call.a)
=============================================================================

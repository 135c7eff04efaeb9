--------------------------- MODULE StringSupport ---------------------------
(***************************************************************************)
(* Conversions between strings and other values: string_support.cpp,       *)
(* base16.hpp, checksum.cpp, url.cpp, utf8.cpp of lib/cxxll.  A string is  *)
(* a sequence of bytes.  A number from 256 on stands for a whole word that *)
(* no conversion looks into ("rpm", "sha256").                             *)
(***************************************************************************)
EXTENDS Integers, Sequences, SequencesExt

CONSTANT ULLONG_MAX    \* the largest unsigned long long

ASSUME StringSupportAssumption == ULLONG_MAX \in Nat \ {0}

Word(i) == <<256 + i>>
Error == [ok |-> FALSE]
Value(v) == [ok |-> TRUE, value |-> v]

-----------------------------------------------------------------------------
(* string_support.cpp                                                      *)
whitespace(ch) == ch \in 0..32

non_whitespace(s) ==
  LET i == SelectInSeq(s, LAMBDA ch : ~whitespace(ch))
  IN  IF i = 0 THEN <<>> ELSE SubSeq(s, i, Len(s))

strip(s) == Reverse(non_whitespace(Reverse(non_whitespace(s))))

Digits == 48..57

(* strtoull: a sign, then digits; a negative number is taken modulo, and   *)
(* no digits at all are 0, with nothing consumed.                          *)
Sign(s) == IF s # <<>> /\ s[1] \in {43, 45} THEN 1 ELSE 0

DigitsEnd(s, p) ==      \* the end of the digits from p on
  LET others == {i \in p..Len(s) : s[i] \notin Digits}
  IN  IF others = {} THEN Len(s) ELSE Min(others) - 1

Decimal(digits) == FoldLeft(LAMBDA n, ch : 10 * n + (ch - 48), 0, digits)

Converted(s, sign, last, v) ==
  [value |-> IF sign = 1 /\ s[1] = 45 /\ v # 0 THEN ULLONG_MAX + 1 - v ELSE v,
   range |-> v > ULLONG_MAX,
   rest |-> IF last = sign THEN s ELSE SubSeq(s, last + 1, Len(s))]

strtoull(s) ==
  LET sign == Sign(s)
      last == DigitsEnd(s, sign + 1)
  IN  Converted(s, sign, last, Decimal(SubSeq(s, sign + 1, last)))

Unsigned(r) ==
  IF r.range \/ non_whitespace(r.rest) # <<>> THEN Error ELSE Value(r.value)

parse_unsigned_long_long(text) == Unsigned(strtoull(non_whitespace(text)))

ends_with(s, pattern) ==
  Len(s) >= Len(pattern) /\ SubSeq(s, Len(s) - Len(pattern) + 1, Len(s)) = pattern

-----------------------------------------------------------------------------
(* base16.hpp                                                              *)
hexdigit(n) == IF n < 10 THEN 48 + n ELSE 97 + n - 10

base16_encode(bytes) ==
  FlattenSeq([i \in 1..Len(bytes) |->
                <<hexdigit(bytes[i] \div 16), hexdigit(bytes[i] % 16)>>])

HexValue(ch) ==
  CASE ch \in Digits -> ch - 48
    [] ch \in 65..70 -> 10 + ch - 65
    [] ch \in 97..102 -> 10 + ch - 97
    [] OTHER -> -1

base16_decode(s) ==
  IF Len(s) % 2 # 0 \/ \E i \in 1..Len(s) : HexValue(s[i]) < 0 THEN Error
  ELSE Value([i \in 1..Len(s) \div 2 |->
                16 * HexValue(s[2 * i - 1]) + HexValue(s[2 * i])])

(* hash_sink::from_string and checksum::set_hexadecimal.                   *)
md5 == Word(1)
sha1 == Word(2)
sha == Word(3)
sha256 == Word(4)

from_string(str) ==
  CASE str \in {sha1, sha} -> Value(sha1)
    [] str \in {md5, sha256} -> Value(str)
    [] OTHER -> Error

SumOf(t, len, v) ==
  IF v.ok /\ t.ok
  THEN Value([type |-> t.value, length |-> len, value |-> v.value])
  ELSE Error

set_hexadecimal(typ, len, hex) == SumOf(from_string(typ), len, base16_decode(hex))

(* url_combine_yum                                                         *)
slash == 47

url_combine_yum(base, relative) ==
  CASE base = <<>> -> relative
    [] base # <<>> /\ relative = <<>> -> base
    [] base # <<>> /\ relative # <<>> ->
         IF Last(base) = slash \/ Head(base) = slash
         THEN base \o relative
         ELSE base \o <<slash>> \o relative

-----------------------------------------------------------------------------
(* quote: escapes for messages.                                            *)
Escaped(ch) ==
  CASE ch = 13 -> <<92, 114>>
    [] ch = 10 -> <<92, 110>>
    [] ch = 9 -> <<92, 116>>
    [] ch \in {34, 39, 92} -> <<92, ch>>
    [] OTHER -> IF ch < 32 \/ ch >= 127
                THEN <<92, 120, hexdigit(ch \div 16), hexdigit(ch % 16)>>
                ELSE <<ch>>

Special(ch) == ch <= 32 \/ ch \in {34, 39, 92} \/ ch >= 127

quote(str) ==
  IF \E i \in 1..Len(str) : Special(str[i])
  THEN FlattenSeq([i \in 1..Len(str) |-> Escaped(str[i])])
  ELSE str

-----------------------------------------------------------------------------
(* utf8.cpp                                                                *)
pg_utf_mblen(b) ==
  CASE b \in 192..223 -> 2
    [] b \in 224..239 -> 3
    [] b \in 240..247 -> 4
    [] OTHER -> 1

(* The bytes that may follow the first one.                                *)
Second(b) ==
  CASE b = 224 -> 160..191
    [] b = 237 -> 128..159
    [] b = 240 -> 144..191
    [] b = 244 -> 128..143
    [] OTHER -> 128..191

pg_utf8_islegal(s) ==
  /\ \A i \in 3..Len(s) : s[i] \in 128..191
  /\ Len(s) >= 2 => s[2] \in Second(s[1])
  /\ s[1] \notin 128..193 /\ s[1] <= 244

(* is_valid_utf8 with pg_utf8_verifier, from position p on.                *)
valid_from[s \in Seq(0..255), p \in Nat] ==
  IF p > Len(s) THEN TRUE
  ELSE LET l == pg_utf_mblen(s[p]) IN
       IF p + l - 1 > Len(s) \/ ~pg_utf8_islegal(SubSeq(s, p, p + l - 1))
       THEN FALSE ELSE valid_from[s, p + l]

is_valid_utf8(s) == valid_from[s, 1]

latin1_to_utf8(s) ==
  FlattenSeq([i \in 1..Len(s) |->
                IF s[i] < 128 THEN <<s[i]>>
                ELSE <<192 + (s[i] \div 64), 128 + (s[i] % 64)>>])

(* rpm_package_info::normalize of a license                                *)
normalize(license) ==
  IF is_valid_utf8(license) THEN license ELSE latin1_to_utf8(license)
=============================================================================

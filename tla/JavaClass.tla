----------------------------- MODULE JavaClass -----------------------------
(***************************************************************************)
(* lib/cxxll/java_class.cpp and vector_extract.cpp: the constant pool and  *)
(* the class names of a Java class file, a sequence of bytes.  Offsets     *)
(* count from 0.  A result is [out, value]: out tells a value from a       *)
(* java_class::exception, which the loader catches, and from               *)
(* std::out_of_range, which it does not.                                   *)
(***************************************************************************)
EXTENDS Integers, Sequences, SequencesExt

CAFEBABE == <<202, 254, 186, 190>>
MinimumSize == 32

Good(v) == [out |-> "value", value |-> v]
Exception == [out |-> "exception"]
OutOfRange == [out |-> "out_of_range"]

(* extract8, extract16 and extract of a string; -1 is out of range.        *)
extract8(vec, offset) == IF offset < Len(vec) THEN vec[offset + 1] ELSE -1

extract16(vec, offset) ==
  IF offset + 1 < Len(vec) THEN 256 * vec[offset + 1] + vec[offset + 2] ELSE -1

extract(vec, offset, length) ==
  IF offset + length > Len(vec) THEN OutOfRange
  ELSE Good(SubSeq(vec, offset + 1, offset + length))

has_signature(vec) ==
  Len(vec) >= MinimumSize /\ SubSeq(vec, 1, 4) = CAFEBABE /\ extract16(vec, 6) < 100

-----------------------------------------------------------------------------
CONSTANT_Utf8 == 1
CONSTANT_Class == 7
TwoBytes == {CONSTANT_Class, 8}                 \* String
FourBytes == {9, 4, 3, 11, 10, 12}              \* Fieldref, Float, Integer, ...
EightBytes == {5, 6}                            \* Long, Double

(* The loop over the constant pool: the offset of each constant, then the  *)
(* offset behind the pool.  Long and Double take two indexes.              *)
\* MUTANT: they take one.
RECURSIVE PoolOneSlot(_, _, _, _)
PoolOneSlot(vec, offset, i, offsets) ==
  LET tag == extract8(vec, offset)
      len == extract16(vec, offset + 1)
      Skip(n) == PoolOneSlot(vec, offset + 1 + n, i - 1, Append(offsets, offset))
  IN CASE i <= 0 -> Good([offsets |-> offsets, offset |-> offset])
       [] i > 0 /\ tag \in TwoBytes -> Skip(2)
       [] i > 0 /\ tag \in FourBytes -> Skip(4)
       [] i > 0 /\ tag \in EightBytes -> Skip(8)
       [] i > 0 /\ tag = CONSTANT_Utf8 /\ len >= 0 -> Skip(2 + len)
       [] OTHER -> Exception

RECURSIVE Pool(_, _, _, _)
Pool(vec, offset, i, offsets) ==
  LET tag == extract8(vec, offset)
      len == extract16(vec, offset + 1)
      Skip(n) == Pool(vec, offset + 1 + n, i - 1, Append(offsets, offset))
  IN CASE i <= 0 -> Good([offsets |-> offsets, offset |-> offset])
       [] i > 0 /\ tag \in TwoBytes -> Skip(2)
       [] i > 0 /\ tag \in FourBytes -> Skip(4)
       [] i > 0 /\ tag \in EightBytes ->
            Pool(vec, offset + 9, i - 2, offsets \o <<offset, 0>>)
       [] i > 0 /\ tag = CONSTANT_Utf8 /\ len >= 0 -> Skip(2 + len)
       [] OTHER -> Exception

(* The constructor.  Whatever is out of range here becomes an exception of *)
(* the class.                                                              *)
java_class(vec) ==
  LET count == extract16(vec, 8)
      pool == IF count < 2 THEN Exception ELSE Pool(vec, 10, count - 1, <<>>)
      at == pool.value.offset
      interfaces == extract16(vec, at + 6)
      last == at + 8 + 2 * interfaces
  IN  IF SubSeq(vec, 1, 4) # CAFEBABE \/ pool.out # "value" THEN Exception
      ELSE IF interfaces < 0 \/ last > Len(vec) THEN Exception
      ELSE Good([buffer |-> vec, offsets |-> pool.value.offsets,
                 access_flags |-> extract16(vec, at),
                 this_class |-> extract16(vec, at + 2), super_class |-> extract16(vec, at + 4),
                 interfaces |-> [i \in 1..interfaces |-> extract16(vec, at + 6 + 2 * i)]])

(* constant_pool_offsets.at(idx - 1) throws std::out_of_range.             *)
utf8_string(jc, idx) ==
  CASE idx = 0 -> Exception
    [] idx > Len(jc.offsets) -> OutOfRange
    [] OTHER ->
         LET offset == jc.offsets[idx] IN
         IF extract8(jc.buffer, offset) # CONSTANT_Utf8 THEN Exception
         ELSE extract(jc.buffer, offset + 3, extract16(jc.buffer, offset + 1))

class_name(jc, idx) ==
  CASE idx = 0 -> Exception
    [] idx > Len(jc.offsets) -> OutOfRange
    [] OTHER -> IF extract8(jc.buffer, jc.offsets[idx]) # CONSTANT_Class THEN Exception
                ELSE utf8_string(jc, extract16(jc.buffer, jc.offsets[idx] + 1))

super_class(jc) == IF jc.super_class = 0 THEN Good(<<>>) ELSE class_name(jc, jc.super_class)

(* All results, or the first that is not a value.                          *)
Combine(results) ==
  LET i == SelectInSeq(results, LAMBDA r : r.out # "value")
  IN  IF i = 0 THEN Good([k \in 1..Len(results) |-> results[k].value])
      ELSE [results[i] EXCEPT !.out = @]

interface_names(jc) ==
  [i \in 1..Len(jc.interfaces) |-> class_name(jc, jc.interfaces[i])]

class_references(jc) ==
  LET refs == SelectSeq(jc.offsets, LAMBDA o : o # 0 /\ extract8(jc.buffer, o) = CONSTANT_Class)
  IN  Combine([i \in 1..Len(refs) |-> utf8_string(jc, extract16(jc.buffer, refs[i] + 1))])
=============================================================================

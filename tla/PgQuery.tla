------------------------------ MODULE PgQuery ------------------------------
(***************************************************************************)
(* The bindings to libpq: include/cxxll/pg_private.hpp, pg_query.hpp and   *)
(* pg_response.hpp, lib/cxxll/pg_private.cpp, pgresult_handle.cpp and      *)
(* pg_encode_array.cpp.  A parameter goes to the server in binary, with    *)
(* the object ID of its type; a column comes back in binary or as text.    *)
(* NULL is None, texts and byte arrays stand for themselves, and a byte    *)
(* has Base values, 256 in the program.                                    *)
(***************************************************************************)
EXTENDS Integers, Sequences, SequencesExt

CONSTANTS Base, None

Failure == [out |-> "pg_exception"]
Loaded(v) == [out |-> "value", value |-> v]

(* pg_private::dispatch<T>: oid and storage.                               *)
dispatch == [bool |-> [oid |-> 16, storage |-> 1], short |-> [oid |-> 21, storage |-> 2],
             int |-> [oid |-> 23, storage |-> 4], longlong |-> [oid |-> 20, storage |-> 8],
             text |-> [oid |-> 25, storage |-> 0], bytea |-> [oid |-> 17, storage |-> 0]]
Integral == {"short", "int", "longlong"}

(* The two's complement, most significant byte first, and its meaning.     *)
Bytes(n, v) == [i \in 1..n |-> ((v % Base^n) \div Base^(n - i)) % Base]

Signed(n, v) ==
  LET u == v % Base^n IN IF u >= Base^n \div 2 THEN u - Base^n ELSE u
Number(b) == Signed(Len(b), FoldLeft(LAMBDA a, d : a * Base + d, 0, b))

(* A value of a wider or an unsigned type becomes one of type t.           *)
static_cast(t, v) == Signed(dispatch[t].storage, v)

(* store, also through a pointer, which may be NULL.                       *)
store(t, v) ==
  CASE v = None -> None
    [] v # None /\ t = "bool" -> <<IF v THEN 1 ELSE 0>>
    [] v # None /\ t \in Integral -> Bytes(dispatch[t].storage, v)
    [] v # None /\ t \in {"text", "bytea"} -> v

Arg(t, v) == [type |-> t, value |-> v]

(* What the server makes of a parameter in binary format.                  *)
Received(oid, b) ==
  CASE b = None -> None
    [] b # None /\ oid = 16 -> b = <<1>>
    [] b # None /\ oid \in {20, 21, 23} -> Number(b)
    [] b # None /\ oid \in {17, 25} -> b

(* pg_query: the parameters of a statement, as the server gets them.       *)
pg_query(args) ==
  [i \in 1..Len(args) |->
     Received(dispatch[args[i].type].oid, store(args[i].type, args[i].value))]

(* The row that an INSERT makes of the first parameters, by its columns.   *)
Row(columns, values) ==
  [c \in ToSet(columns) |-> values[SelectInSeq(columns, LAMBDA d : d = c)]]

-----------------------------------------------------------------------------
(* A column of a result, of a query (text) or of a binary one.             *)
Column(t, v, binary) ==
  [oid |-> dispatch[t].oid, binary |-> binary, null |-> v = None,
   value |-> IF v = None THEN <<>> ELSE IF binary THEN store(t, v) ELSE v]

(* In binary the type and the length have to be right, as text the number  *)
(* has to be in the range of the type.                                     *)
load_integer(t, c) ==
  CASE c.binary /\ (c.oid # dispatch[t].oid \/ Len(c.value) # dispatch[t].storage) -> Failure
    [] c.null -> Failure
    [] c.binary /\ ~c.null /\ c.oid = dispatch[t].oid /\ Len(c.value) = dispatch[t].storage ->
         Loaded(Number(c.value))
    [] ~c.binary /\ ~c.null ->
         IF static_cast(t, c.value) # c.value THEN Failure ELSE Loaded(c.value)

load_bool(c) ==
  CASE c.null \/ (c.binary /\ (c.oid # 16 \/ Len(c.value) # 1)) -> Failure
    [] ~c.null /\ c.binary /\ c.oid = 16 /\ Len(c.value) = 1 ->
         IF c.value[1] \in {0, 1} THEN Loaded(c.value[1] = 1) ELSE Failure
    [] ~c.null /\ ~c.binary -> Loaded(c.value)

(* NULL is read like a text without characters.                            *)
load_text(c) ==
  IF c.binary /\ c.oid \notin {17, 25} THEN Failure ELSE Loaded(c.value)

load(t, c) ==
  CASE t = "bool" -> load_bool(c)
    [] t \in Integral -> load_integer(t, c)
    [] t \in {"text", "bytea"} -> load_text(c)

(* pg_response: the columns of a row into variables of the types.          *)
AllLoaded(all) ==
  IF \E i \in 1..Len(all) : all[i].out # "value" THEN Failure
  ELSE Loaded([i \in 1..Len(all) |-> all[i].value])

pg_response(types, row) ==
  AllLoaded([i \in 1..Len(types) |-> load(types[i], row[i])])

(* pgresult_handle::reset: a result that is an error is not kept.          *)
do_check(status) ==
  status \notin {"PGRES_BAD_RESPONSE", "PGRES_NONFATAL_ERROR", "PGRES_FATAL_ERROR"}
reset(new) == IF do_check(new.status) THEN Loaded(new.value) ELSE Failure

(* get_id and get_id_force of database.cpp.                                *)
Positive(id) == IF id.out = "value" /\ id.value <= 0 THEN Failure ELSE id
Only(r) == IF r.out = "value" THEN Loaded(r.value[1]) ELSE r

get_id(rows) ==
  IF rows = <<>> THEN Loaded(0) ELSE Positive(Only(pg_response(<<"int">>, rows[1])))

get_id_force(rows) == Positive(get_id(rows))

-----------------------------------------------------------------------------
(* pg_encode_array: texts, as sequences of characters, in quotes.          *)
bslash == "\\"
dquote == "\""
nul == "NUL"

Escaped(s) ==
  FlattenSeq([i \in 1..Len(s) |->
    IF s[i] \in {dquote, bslash} THEN <<bslash, s[i]>> ELSE <<s[i]>>])

pg_encode_array(in) ==
  IF \E i \in 1..Len(in) : \E j \in 1..Len(in[i]) : in[i][j] = nul THEN Failure
  ELSE Loaded(<<"{">>
         \o FlattenSeq([i \in 1..Len(in) |->
              (IF i = 1 THEN <<>> ELSE <<",">>) \o <<dquote>> \o Escaped(in[i]) \o <<dquote>>])
         \o <<"}">>)

(* The cast to text[] in the server, of a literal that consists of quoted  *)
(* elements.  acc is the elements so far, cur the one that is being read.  *)
RECURSIVE Elements(_, _, _)
Elements(s, acc, cur) ==
  CASE s = <<>> -> Failure
    [] s # <<>> /\ cur = None ->
         (CASE s[1] = dquote -> Elements(Tail(s), acc, <<>>)
            [] s[1] = "," -> Elements(Tail(s), acc, None)
            [] s[1] = "}" -> IF Len(s) = 1 THEN Loaded(acc) ELSE Failure
            [] OTHER -> Failure)
    [] s # <<>> /\ cur # None ->
         CASE s[1] = dquote -> Elements(Tail(s), Append(acc, cur), None)
           [] s[1] = bslash /\ Len(s) > 1 -> Elements(SubSeq(s, 3, Len(s)), acc, Append(cur, s[2]))
           [] OTHER -> Elements(Tail(s), acc, Append(cur, s[1]))

TextArray(s) == IF s # <<>> /\ s[1] = "{" THEN Elements(Tail(s), <<>>, None) ELSE Failure
=============================================================================

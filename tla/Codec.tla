------------------------------- MODULE Codec -------------------------------
(***************************************************************************)
(* The chive archive of archive.hpp, the serializer behind every koi      *)
(* message (msg.cpp encode/decode).                                        *)
(*                                                                         *)
(* The writer is a state machine over the archive's _data and _list_stack: *)
(* one action per archive::append overload the messages use, the pair     *)
(* _push_container/_pop_container of append(vector<T>), and done().  Each  *)
(* action writes the bytes the code writes (_append_chunk's header nibbles *)
(* and the little-endian bodies), and adds the value it stands for to a    *)
(* ghost tree, `open`.                                                     *)
(*                                                                         *)
(* The reader is an operator: the chunk_iterator walk that reader::next,   *)
(* operator>> and contents() make over the bytes, with the iterator's own  *)
(* size(), body(), operator++ and operator!=.  String, raw and uuid bodies *)
(* are the byte Fill: what the properties tell apart is where chunks start *)
(* and end, not their text.                                                *)
(***************************************************************************)
EXTENDS Integers, Sequences

CONSTANTS
    Ints,       \* ints the messages append (seqnr, op, state, uptime ...)
    Longs,      \* uint64 / ptime values, below 2^31 (high word 0)
    StrLens,    \* lengths of the strings appended
    RawLens,    \* lengths of raw data (endpoints: 6 or 18 bytes)
    Fill,       \* the byte every string, raw and uuid body is made of
    MaxOps,     \* bound on appends and pushes per archive
    MaxDepth    \* bound on open containers, the root BigList included

\* BaseTypes (archive.hpp 73-90).  Int is Int32 here: Int is TLA+'s.
Null == 0
Bool == 1
SmallInt == 2
Uint8 == 3
Uint16 == 4
Int32 == 5
Uint64 == 6
PosixTime == 7
UUID == 8
NilUUID == 9
String == 10
SmallString == 11
RawData == 12
List == 13
BigList == 14

\* internal::is_fixed_size and fixed_size
IsFixedSize(t) == t < String
FixedSize == [t \in {Null, Bool, SmallInt, NilUUID, Uint8, Uint16, Int32,
                     Uint64, PosixTime, UUID} |->
                 CASE t \in {Null, Bool, SmallInt, NilUUID} -> 0
                   [] t = Uint8 -> 1
                   [] t = Uint16 -> 2
                   [] t = Int32 -> 4
                   [] t \in {Uint64, PosixTime} -> 8
                   [] t = UUID -> 16]

\* n bytes of v, least significant first: v & 0xff, (v & 0xff00) >> 8, ...
\* (\div and % round down, so a negative v gives its two's complement)
LE(v, n) == [k \in 1..n |-> (v \div (256 ^ (k - 1))) % 256]
Body(n) == [k \in 1..n |-> Fill]

\* The header bytes _append_chunk writes for a chunk of type typ, size sz
Header(typ, sz) ==
    <<typ + (sz % 16) * 16>>
    \o (IF ~IsFixedSize(typ) /\ typ # SmallString
           THEN <<(sz \div 16) % 256>> ELSE <<>>)
    \o (IF typ = BigList THEN <<(sz \div 4096) % 256>> ELSE <<>>)

\* A value, as written (the ghost tree) and as read back
Val(kind, num, hi, items) == [kind |-> kind, num |-> num, hi |-> hi, items |-> items]
V(kind, num) == Val(kind, num, 0, <<>>)
Failed == V("error", 0)

VARIABLES
    data,    \* archive::_data
    stack,   \* archive::_list_stack: 0-based offsets of open list headers
    open,    \* ghost: the values appended into each open list
    ops,     \* appends and pushes so far
    phase    \* "writing", "done" (done() and valid() passed), "failed" (threw)

vars == <<data, stack, open, ops, phase>>

---------------------------------------------------------------------------
(* Reading: chunk_iterator over _data.  Offsets are 0-based as in the     *)
(* code; a read at or past _data's end is outside the buffer.              *)

Byte(d, i) == d[i + 1]
TypeAt(d, p) == Byte(d, p) % 16

\* chunk_iterator::size()
SizeAt(d, p) ==
    LET t == TypeAt(d, p) IN
    CASE IsFixedSize(t) -> FixedSize[t]
      [] t = SmallString -> Byte(d, p) \div 16
      [] t = BigList -> Byte(d, p) \div 16 + Byte(d, p + 1) * 16
                        + Byte(d, p + 2) * 4096
      [] OTHER -> Byte(d, p) \div 16 + Byte(d, p + 1) * 16

\* chunk_iterator::data_offset() and body()
DataOffset(t) == IF IsFixedSize(t) \/ t = SmallString THEN 0
                 ELSE IF t = BigList THEN 2 ELSE 1
BodyAt(d, p) == p + 1 + DataOffset(TypeAt(d, p))

\* Four bytes at b as get<int> combines them (b3 << 24 into a signed int)
Signed32(d, b) ==
    LET b3 == Byte(d, b + 3) IN
    Byte(d, b) + Byte(d, b + 1) * 256 + Byte(d, b + 2) * 65536
    + (IF b3 >= 128 THEN b3 - 256 ELSE b3) * 16777216

\* The chunk at p holds header and body inside _data (header bytes read
\* by size(), body bytes read by get<T>)
InBuffer(d, p) ==
    /\ p < Len(d)
    /\ LET t == TypeAt(d, p) IN
       /\ p + DataOffset(t) < Len(d)
       /\ BodyAt(d, p) + SizeAt(d, p) <= Len(d)

RECURSIVE Items(_, _, _), ValueAt(_, _)

\* get<T> on the chunk at p, for the T it was written as
ValueAt(d, p) ==
    LET t == TypeAt(d, p)
        b == BodyAt(d, p)
        n == SizeAt(d, p)
    IN CASE t = Null -> V("null", 0)
         [] t = Bool -> V("bool", IF Byte(d, p) \div 16 # 0 THEN 1 ELSE 0)
         [] t = SmallInt -> V("int", Byte(d, p) \div 16)
         [] t = Uint8 -> V("int", Byte(d, b))
         [] t = Uint16 -> V("int", Byte(d, b) + Byte(d, b + 1) * 256)
         [] t = Int32 -> V("int", Signed32(d, b))
         [] t \in {Uint64, PosixTime} ->
                Val(IF t = Uint64 THEN "u64" ELSE "time",
                    Signed32(d, b), Signed32(d, b + 4), <<>>)
         [] t \in {UUID, NilUUID} -> V("uuid", IF t = UUID THEN 1 ELSE 0)
         [] t \in {String, SmallString} -> V("str", n)
         [] t = RawData -> V("raw", n)
         [] t \in {List, BigList} ->
                LET r == Items(d, b, b + n) IN
                IF r.ok THEN Val("list", 0, 0, r.items) ELSE Failed
         [] OTHER -> Failed

\* for (i = begin(); i != end(); ++i) out.push_back(i.get<T>()) over the
\* list whose body is [p, e).  operator!= is true while _pos # e, also
\* past e; there is_end() holds, type() is 0xff and get<T> throws.
Items(d, p, e) ==
    IF p = e THEN [ok |-> TRUE, items |-> <<>>]
    ELSE IF p > e \/ ~InBuffer(d, p) THEN [ok |-> FALSE, items |-> <<>>]
    ELSE LET v == ValueAt(d, p)
             rest == Items(d, BodyAt(d, p) + SizeAt(d, p), e)
         IN IF v = Failed THEN [ok |-> FALSE, items |-> <<>>]
            ELSE [ok |-> rest.ok, items |-> <<v>> \o rest.items]

\* archive::valid(): only the root's size is checked against _data
Valid(d) == Len(d) >= 2 /\ SizeAt(d, 0) + 1 + DataOffset(TypeAt(d, 0)) <= Len(d)

\* reader r(a) over a valid archive reads the root list's items
Decode(d) == Items(d, BodyAt(d, 0), BodyAt(d, 0) + SizeAt(d, 0))

---------------------------------------------------------------------------
(* Writing                                                                 *)

\* archive(): _push_big_container()
Init ==
    /\ data = Header(BigList, 0)
    /\ stack = <<0>>
    /\ open = <<<<>>>>
    /\ ops = 0
    /\ phase = "writing"

\* Append the bytes of one value, and the value to the innermost list
Emit(bytes, v) ==
    /\ phase = "writing"
    /\ ops < MaxOps
    /\ data' = data \o bytes
    /\ open' = [open EXCEPT ![Len(open)] = Append(@, v)]
    /\ ops' = ops + 1
    /\ UNCHANGED <<stack, phase>>

\* An archive_error thrown mid-encode: encode catches it and returns false
Throw ==
    /\ phase' = "failed"
    /\ UNCHANGED <<data, stack, open, ops>>

AppendNull == Emit(Header(Null, 0), V("null", 0))

AppendBool(b) == Emit(Header(Bool, IF b THEN 1 ELSE 0), V("bool", IF b THEN 1 ELSE 0))

\* append(int): SmallInt, Uint8, Uint16 or Int by range
IntBytes(i) ==
    CASE i >= 0 /\ i <= 15 -> Header(SmallInt, i)
      [] i > 0 /\ i <= 255 -> Header(Uint8, 1) \o <<i>>
      [] i > 0 /\ i <= 65535 -> Header(Uint16, 2) \o LE(i, 2)
      [] OTHER -> Header(Int32, 4) \o LE(i, 4)

AppendInt(i) == Emit(IntBytes(i), V("int", i))

\* append(uint64_t) and append(ptime): low word, then high word
AppendU64(typ, v) ==
    Emit(Header(typ, 8) \o LE(v, 4) \o LE(0, 4),
         Val(IF typ = Uint64 THEN "u64" ELSE "time", v, 0, <<>>))

\* append(uuid)
AppendUuid(nil) ==
    Emit(IF nil THEN Header(NilUUID, 0) ELSE Header(UUID, 16) \o Body(16),
         V("uuid", IF nil THEN 0 ELSE 1))

\* append(const char*): SmallString up to 15, else String cut at 0xfff
AppendString(len) ==
    LET n == IF len > 4095 THEN 4095 ELSE len IN
    Emit((IF n <= 15 THEN Header(SmallString, n) ELSE Header(String, n)) \o Body(n),
         V("str", n))

\* append(raw_data, len): throws above 0xfff
AppendRaw(len) ==
    \/ /\ len <= 4095
       /\ Emit(Header(RawData, len) \o Body(len), V("raw", len))
    \/ /\ len > 4095
       /\ phase = "writing"
       /\ Throw

\* append(vector<T>) begins with _push_container()
PushContainer ==
    /\ phase = "writing"
    /\ ops < MaxOps
    /\ Len(stack) < MaxDepth
    /\ stack' = Append(stack, Len(data))
    /\ data' = data \o Header(List, 0)
    /\ open' = Append(open, <<>>)
    /\ ops' = ops + 1
    /\ UNCHANGED phase

\* _pop_container's back-patch of the list header at i: the size is cut
\* to the header's 12 (List) or 20 (BigList) bits, with no range check
Backpatch(d, i) ==
    LET typ == Byte(d, i) % 16
        lts == IF typ = BigList THEN 2 ELSE 1
        size == Len(d) - i - 1 - lts
    IN [k \in 1..Len(d) |->
          CASE k = i + 1 -> typ + (size % 16) * 16
            [] k = i + 2 -> (size \div 16) % 256
            [] k = i + 3 /\ lts > 1 -> (size \div 4096) % 256
            [] OTHER -> d[k]]

\* append(vector<T>) ends with _pop_container() of its List
PopContainer ==
    /\ phase = "writing"
    /\ Len(stack) > 1
    /\ data' = Backpatch(data, stack[Len(stack)])
    /\ stack' = SubSeq(stack, 1, Len(stack) - 1)
    /\ open' = [k \in 1..Len(open) - 1 |->
                  IF k = Len(open) - 1
                  THEN Append(open[k], Val("list", 0, 0, open[Len(open)]))
                  ELSE open[k]]
    /\ ops' = ops
    /\ UNCHANGED phase

\* a.done(), then encode's `if (!a.valid()) throw`
Done ==
    /\ phase = "writing"
    /\ Len(stack) = 1
    /\ data' = Backpatch(data, stack[1])
    /\ stack' = <<>>
    /\ phase' = IF Valid(data') THEN "done" ELSE "failed"
    /\ UNCHANGED <<open, ops>>

Next ==
    \/ AppendNull
    \/ \E b \in BOOLEAN : AppendBool(b)
    \/ \E i \in Ints : AppendInt(i)
    \/ \E typ \in {Uint64, PosixTime}, v \in Longs : AppendU64(typ, v)
    \/ \E nil \in BOOLEAN : AppendUuid(nil)
    \/ \E len \in StrLens : AppendString(len)
    \/ \E len \in RawLens : AppendRaw(len)
    \/ PushContainer
    \/ PopContainer
    \/ Done

Spec == Init /\ [][Next]_vars

---------------------------------------------------------------------------
(* Properties                                                              *)

TypeOK ==
    /\ data \in Seq(0..255)
    /\ stack \in Seq(0..Len(data))
    /\ Len(open) = Len(stack) \/ (phase # "writing" /\ Len(open) = 1)
    /\ ops \in 0..MaxOps
    /\ phase \in {"writing", "done", "failed"}

\* What the archive promises its users (archive.hpp 29-66, msg.cpp decode):
\* an archive that done() finished and valid() accepted is read back by
\* reader >> and contents() as exactly the values appended, in order and
\* nested as appended.  A list whose size overflows the 12 bits that
\* _pop_container back-patches breaks this: the reader ends the list
\* early and reads its tail as the fields that follow it, or throws.
RoundTrip == phase = "done" => Decode(data) = [ok |-> TRUE, items |-> open[1]]

(* The refinement mapping: what a reader would find in the bytes written   *)
(* so far.  Each open list is read from its body to the next open list's   *)
(* header (the innermost one to the end of _data), and closed lists inside *)
(* it through their back-patched headers.  A read that throws maps to no   *)
(* state of ArchiveSpec.                                                   *)
OpenLists(d, s) ==
    [k \in 1..Len(s) |->
        Items(d, BodyAt(d, s[k]), IF k < Len(s) THEN s[k + 1] ELSE Len(d))]
ReadLists(d, s) == IF s = <<>> THEN <<Decode(d)>> ELSE OpenLists(d, s)
MappedLists(d, s) ==
    LET r == ReadLists(d, s) IN
    IF \A k \in DOMAIN r : r[k].ok THEN [k \in DOMAIN r |-> r[k].items] ELSE <<>>


=============================================================================

------------------------------- MODULE Codec -------------------------------
(***************************************************************************)
(* The bodies of messages: how the generated C and C++ functions and the   *)
(* dynamic types lay the members of a message out in a buffer and read     *)
(* them back, for two programs built from one specification.               *)
(*                                                                         *)
(* The functions generated for a message call one another along its type.  *)
(* What they come to is a sequence of leaves: scalars, each with its place *)
(* in the buffer.  An object is the sequence of the values of its leaves,  *)
(* a value the sequence of its bytes, the least significant first, as in   *)
(* the memory of the hosts.  A byte is a name: of a byte of a value, of a  *)
(* header field, or of memory nobody has set.                              *)
(***************************************************************************)
EXTENDS SpecTypes

CONSTANTS
  SpecFile,     \* specifications; the last entry is the message exchanged
  Langs,        \* the libraries of the two programs
  Value         \* values of all the leaves an application fills in

Lang == {"c", "cc", "py", "dyn"}
Program == {"near", "far"}

ASSUME LangsAssumption == Langs \subseteq [Program -> Lang]

\* A generator accepted the specification, and so did the C compiler: a struct
\* with a message in it would pass a const message to SsPackX, which sets its
\* header, and the build treats that warning as an error.
ASSUME CodecAssumption ==
  \A s \in SpecFile :
    /\ Acceptable(s) /\ s # <<>> /\ s[Len(s)].kind = "Message"
    /\ \A m, n \in DOMAIN s :
         s[m].kind = "Struct" /\ s[n].kind = "Message" =>
           \A i \in DOMAIN s[m].items : s[m].items[i].type # s[n].name

VARIABLES
  spec,      \* the specification
  layout,    \* the leaves of the message exchanged
  lang,      \* the library of each program
  mem,       \* mem[p]: the object of program p
  wire,      \* the buffer packed last, and the object it was packed from
  got        \* the latest unpack: who, into what

vars == <<spec, layout, lang, mem, wire, got>>

-----------------------------------------------------------------------------
(* The layout.                                                             *)

Leaf(size, enum) ==
  [offset |-> 0, size |-> size, enum |-> enum, header |-> "none", frames |-> <<>>]

\* Mutants: the stride of an outer array is that of its elements' elements; the
\* last element is left out.
ArrayOffsetsFlat(size, lens) ==
  FoldLeft(LAMBDA offs, n :
             FlattenSeq([i \in 1 .. n |-> [a \in DOMAIN offs |-> offs[a] + (i - 1) * size]]),
           <<0>>, lens)

ArrayOffsetsShort(size, lens) ==
  FoldLeft(LAMBDA offs, n :
             FlattenSeq([i \in 1 .. (n - 1) |->
               [a \in DOMAIN offs |-> offs[a] + (i - 1) * (Len(offs) * size)]]),
           <<0>>, lens)

\* Where the elements of an array lie that array_pack and array_unpack loop
\* over; lens begins with the innermost array.
ArrayOffsets(size, lens) ==
  FoldLeft(LAMBDA offs, n :
             FlattenSeq([i \in 1 .. n |->
               [a \in DOMAIN offs |-> offs[a] + (i - 1) * (Len(offs) * size)]]),
           <<0>>, lens)

\* How a field of type SsHeader differs: as the header of a message it is
\* filled in by the pack function and checked by the unpack function, and as a
\* field of the user's ("user") it is left out by the unpack functions.
HeaderRole(types, t, k, role) ==
  LET f == t.fields[k]
  IN  IF types[f.type.index].name # "SsHeader" \/ f.lens # <<>> THEN role
      ELSE IF t.kind = "Message" /\ k = 1 THEN "own" ELSE "user"

MovedFrames(frames, by) == [i \in DOMAIN frames |-> [frames[i] EXCEPT !.at = @ + by]]

\* struct_pack_body and struct_unpack_body for field k of t, whose offset is
\* base, given the leaves of the types before t.  Inside a message each leaf
\* knows where the messages that enclose it begin.
FieldLeaves(types, t, k, base, before) ==
  LET f == t.fields[k]
      sub == before[f.type.index]
      offs == ArrayOffsets(Sizes(types)[f.type.index], f.lens)
      placed(l, at) ==
        [l EXCEPT !.offset = @ + at,
                  !.header = HeaderRole(types, t, k, @),
                  !.frames = MovedFrames(@, at)]
  IN  FlattenSeq([a \in DOMAIN offs |->
                    [i \in DOMAIN sub |-> placed(sub[i], base + offs[a])]])

FieldOffset(types, t, k) ==
  TypeSize([t EXCEPT !.fields = SubSeq(@, 1, k - 1)], Sizes(types))

TypeLeaves(types, n, before) ==
  LET t == types[n]
      parts == [k \in DOMAIN t.fields |->
                  FieldLeaves(types, t, k, FieldOffset(types, t, k), before)]
      enter(l) == [l EXCEPT !.frames = <<[at |-> 0, type |-> n]>> \o @]
  IN  CASE t.kind = "Struct" -> FlattenSeq(parts)
        [] t.kind = "Message" ->
             LET leaves == FlattenSeq(parts)
             IN  [i \in DOMAIN leaves |-> enter(leaves[i])]
        [] OTHER -> <<Leaf(Sizes(types)[n], t.kind = "Enum")>>

\* The leaves of the last type of the specification.
Layout(types) ==
  Last(FoldLeft(LAMBDA before, n : Append(before, TypeLeaves(types, n, before)),
                <<>>, [n \in DOMAIN types |-> n]))

PackedSize == FoldLeft(LAMBDA sum, l : sum + l.size, 0, layout)
Nested(l) == Len(l.frames) > 1

-----------------------------------------------------------------------------
(* Values.                                                                 *)

Zero == <<"zero">>
Unset == <<"unset">>             \* memory that nobody has initialised
Bytes(n, byte) == [b \in 1 .. n |-> byte]

IntSize == 4

\* Mutant: the most significant bytes of an int are packed.
RawHigh(l, value) == SubSeq(value, Len(value) - l.size + 1, Len(value))

\* A C enum, and the ctypes enum of Python, is an int, in C++ and in the dynamic
\* types it has the packed size.  Values are not negative, as a static_assert
\* says of the number of values.
Raw(l, value) == SubSeq(value, 1, l.size)
InMemory(p, l, raw) ==
  IF l.enum /\ lang[p] \in {"c", "py"} THEN raw \o Bytes(IntSize - l.size, Zero) ELSE raw

Object(p, byte) == [i \in DOMAIN layout |-> InMemory(p, layout[i], Bytes(layout[i].size, byte))]

\* The two header fields of messages of type n.  UIDs within a specification
\* differ, so that a UID stands for the type.
HeaderField(l, n) == [b \in 1 .. l.size |-> <<"header", n, l.size, b>>]
OwnHeader(l) == HeaderField(l, Last(l.frames).type)

UserField(v, i) == [b \in 1 .. layout[i].size |-> <<"value", v, i, b>>]

-----------------------------------------------------------------------------
(* Packing.                                                                *)

\* primitive_pack and enum_pack: big endian.
Write(buf, l, value) ==
  [b \in DOMAIN buf |-> IF b \in l.offset .. (l.offset + l.size - 1)
                        THEN value[l.size - (b - l.offset)] ELSE buf[b]]

PackBody(obj) ==
  FoldLeft(LAMBDA buf, i : Write(buf, layout[i], Raw(layout[i], obj[i])),
           [b \in 0 .. (PackedSize - 1) |-> Unset], [i \in DOMAIN layout |-> i])

\* Mutant: SsPackX of a message in a message fills nothing in either.
FillsInOutermost(p, l) == l.header = "own" /\ ~Nested(l)

\* The pack functions fill headers in, in the caller's object: SsPackX of a
\* message does so for itself, and is called for messages in messages; in C++
\* X::Pack does, and the functions it calls do not.
FillsIn(p, l) == l.header = "own" /\ (lang[p] \in {"c", "py"} \/ ~Nested(l))
WithHeaders(p, obj) ==
  [i \in DOMAIN layout |-> IF FillsIn(p, layout[i]) THEN OwnHeader(layout[i]) ELSE obj[i]]

-----------------------------------------------------------------------------
(* Unpacking.                                                              *)

\* primitive_unpack, and UnpackBe of the dynamic types.
Read(buf, l) == [b \in 1 .. l.size |-> buf[l.offset + l.size - b]]

HeaderMatches(buf, frame) ==
  \A l \in Range(layout) :
    l.header = "own" /\ Last(l.frames) = frame => Read(buf, l) = OwnHeader(l)

\* Mutant: SsUnpackX leaves headers out like the body functions do.
SetsCNoHeader(buf, l) ==
  l.header = "none" /\ \A i \in DOMAIN l.frames : HeaderMatches(buf, l.frames[i])

\* Which leaves an unpack sets.  A header is unpacked before it is checked, the
\* body if it matches.  SsUnpackX of a message in a message makes the same check,
\* and its status is dropped; in C++ the functions for the messages inside make
\* no check, and leave out the header like any field of that type.
SetsC(buf, l) ==
  /\ l.header # "user"
  /\ \A i \in DOMAIN l.frames :
       \/ HeaderMatches(buf, l.frames[i])
       \/ l.header = "own" /\ i = Len(l.frames)
SetsCc(buf, l) ==
  \/ l.header = "own" /\ ~Nested(l)
  \/ l.header = "none" /\ HeaderMatches(buf, l.frames[1])

\* DynamicStruct::Unpack moves its pointer by the size of each field it has
\* read; this is where it stands at leaf i.
DynLeaf(i) ==
  [layout[i] EXCEPT !.offset =
     FoldLeft(LAMBDA sum, l : sum + l.size, 0, SubSeq(layout, 1, i - 1))]

Unpacked(p, buf, obj) ==
  LET sets(i) == CASE lang[p] \in {"c", "py"} -> SetsC(buf, layout[i])
                   [] lang[p] = "cc" -> SetsCc(buf, layout[i])
                   [] lang[p] = "dyn" -> TRUE
      leaf(i) == IF lang[p] = "dyn" THEN DynLeaf(i) ELSE layout[i]
  IN  [i \in DOMAIN layout |->
         IF sets(i) THEN InMemory(p, layout[i], Read(buf, leaf(i))) ELSE obj[i]]

\* What an unpack is made into: the caller's object, a new one of C++, which is
\* not initialised, or a new one of Python or the dynamic types, which is zero.
Targets(p) ==
  CASE lang[p] = "c" -> {mem[p]}
    [] lang[p] = "cc" -> {mem[p], Object(p, Unset)}
    [] OTHER -> {Object(p, Zero)}

-----------------------------------------------------------------------------
(* The two programs.                                                       *)

Nothing == [by |-> "nobody"]

Init ==
  /\ spec \in SpecFile
  /\ layout = Layout(Meaning(spec, "", 1))
  /\ lang \in Langs
  /\ mem = [p \in Program |-> Object(p, Unset)]
  /\ wire = Nothing
  /\ got = Nothing

\* The application fills in all members; headers are none of its business.
Compose(p) ==
  /\ lang[p] # "dyn"
  /\ \E v \in Value :
       mem' = [mem EXCEPT ![p] = [i \in DOMAIN layout |->
         InMemory(p, layout[i], IF layout[i].header = "own"
                                THEN Bytes(layout[i].size, Zero) ELSE UserField(v, i))]]
  /\ got' = Nothing
  /\ UNCHANGED <<spec, layout, lang, wire>>

Pack(p) ==
  /\ lang[p] # "dyn"
  /\ mem' = [mem EXCEPT ![p] = WithHeaders(p, @)]
  /\ wire' = [by |-> p, bytes |-> PackBody(mem'[p]), obj |-> mem'[p]]
  /\ got' = Nothing
  /\ UNCHANGED <<spec, layout, lang>>

Unpack(p) ==
  /\ wire # Nothing
  /\ HeaderMatches(wire.bytes, layout[1].frames[1])
  /\ \E obj \in Targets(p) :
       /\ mem' = [mem EXCEPT ![p] = Unpacked(p, wire.bytes, obj)]
       /\ got' = [by |-> p, into |-> obj]
  /\ UNCHANGED <<spec, layout, lang, wire>>

Next == \E p \in Program : Compose(p) \/ Pack(p) \/ Unpack(p)

Spec == Init /\ [][Next]_vars

-----------------------------------------------------------------------------
(* Properties.                                                             *)

\* Objects keep their shape, buffers their packed size.
TypeOK ==
  /\ spec \in SpecFile /\ lang \in Langs
  /\ \A p \in Program : /\ DOMAIN mem[p] = DOMAIN layout
                        /\ \A i \in DOMAIN layout : Len(mem[p][i]) >= layout[i].size
  /\ PackedSize = Last(Sizes(Meaning(spec, "", 1)))
  /\ wire # Nothing => wire.by \in Program /\ DOMAIN wire.bytes = 0 .. (PackedSize - 1)
  /\ got # Nothing => got.by \in Program /\ wire # Nothing

\* The leaves lie end to end: a packed object of which every leaf was set leaves
\* no byte of the buffer as it found it.
WholeBufferWritten ==
  wire # Nothing /\ (\A i \in DOMAIN layout : Unset \notin Range(wire.obj[i])) =>
    \A b \in DOMAIN wire.bytes : wire.bytes[b] # Unset

\* Leaves that an unpack leaves as they were although it reports success.
MayKeep(l) ==
  CASE lang[got.by] = "dyn" -> FALSE
    [] lang[got.by] = "cc" -> l.header = "user" \/ (l.header = "own" /\ Nested(l))
    [] OTHER -> l.header = "user" \/ (Nested(l) /\ lang[wire.by] = "cc")

\* A successful unpack by any library, of what any library packed, sets every
\* leaf to what the sender's object held, never to what another leaf held.  The
\* exceptions keep what they held: a field of type SsHeader, and in a message
\* inside another the header in C++, and all of it in C if the sender is C++.
\* The dynamic types have no exception.
DeliveredOrKept ==
  got # Nothing =>
    \A i \in DOMAIN layout :
      LET l == layout[i]
      IN  \/ Raw(l, mem[got.by][i]) = Raw(l, wire.obj[i])
          \/ MayKeep(l) /\ mem[got.by][i] = got.into[i]

\* A program that unpacks a message and packs it again passes on the bytes it
\* received, unless the message has a message or a field of type SsHeader in it.
RelayIsExact ==
  [][\A p \in Program :
       /\ Pack(p) /\ got # Nothing /\ got.by = p
       /\ \A l \in Range(layout) : l.header # "user" /\ ~Nested(l)
       => wire'.bytes = wire.bytes]_vars

\* The packing function populates the header of every message there is in what it
\* packs, except that C++ sends the header of a message inside another as the
\* application left it.
HeadersPopulated ==
  wire # Nothing =>
    \A i \in DOMAIN layout :
      LET l == layout[i]
      IN  l.header = "own" =>
            Read(wire.bytes, l) = IF lang[wire.by] = "cc" /\ Nested(l) THEN wire.obj[i]
                                  ELSE OwnHeader(l)
=============================================================================

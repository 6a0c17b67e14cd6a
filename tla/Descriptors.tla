---------------------------- MODULE Descriptors ----------------------------
(***************************************************************************)
(* DescriptorBuilder: the C++ reader of a specification at run time.  It   *)
(* builds its own type descriptors, UIDs and sizes, and has to come to     *)
(* those that parse_yaml gave the generators, or no message is recognised. *)
(*                                                                         *)
(* The specification is one that a generator accepted.  It is read from    *)
(* its file, or from the header of a log written by the generated library. *)
(* One step of the model is one round of a loop of the builder.            *)
(***************************************************************************)
EXTENDS SpecTypes

CONSTANTS
  SpecFile,     \* specifications
  Rank(_),      \* the place of a name in the alphabetical order
  NoUid         \* the UID zero, which no hash of a run is

ASSUME SpecFileAssumption == \A s \in SpecFile : Acceptable(s)

\* Nor is a type called like the map of UIDs in a log.
ASSUME RankAssumption ==
  \A s \in SpecFile :
    /\ "SsMessageUidMap" \notin Names(s)
    /\ \A x, y \in Names(s) \cup {"SsMessageUidMap"} :
         Rank(x) \in Int /\ (Rank(x) = Rank(y) => x = y)

VARIABLES
  spec,         \* the specification
  origin,       \* "file" or "log"
  root,         \* the entries of root_node in the order of the document
  types,        \* type_map_: from keys to descriptors
  uid_lookup,   \* uid_lookup_: from UIDs to keys of messages
  pc,           \* "entries", "items", "built" or "thrown"
  k, j,         \* the entry and the item of it that come next
  obj           \* the descriptor under construction

vars == <<spec, origin, root, types, uid_lookup, pc, k, j, obj>>

\* The name of a type: that of an array is the name of its element type
\* followed by its length in brackets.
Key(base, lens) == [base |-> base, lens |-> lens]
Named(name) == Key(name, <<>>)

Descriptor(name, kind, uid, size, fields) ==
  [name |-> name, kind |-> kind, uid |-> uid, size |-> size, fields |-> fields]

Add(map, key, value) ==
  [x \in DOMAIN map \cup {key} |-> IF x \in DOMAIN map THEN map[x] ELSE value]

-----------------------------------------------------------------------------
(* The document.                                                           *)

\* The header of a log: yaml.dump writes the keys of a map in alphabetical
\* order, and the generator has added a map of the UIDs of the messages.
LogHeader(s) ==
  LET all == Append(s, [shape |-> "ok", name |-> "SsMessageUidMap", kind |-> "none",
                        items |-> <<>>])
      upTo(n) == {m \in DOMAIN all : Rank(all[m].name) <= Rank(all[n].name)}
  IN  [p \in DOMAIN all |-> all[CHOOSE n \in DOMAIN all : Cardinality(upTo(n)) = p]]

Document(s, from) == IF from = "log" THEN LogHeader(s) ELSE s

-----------------------------------------------------------------------------
(* The parts of a descriptor.                                              *)

\* Mutant: the offset is taken after the size has grown.
WithFieldAfter(struct, name, key, map) ==
  LET f == [name |-> name, key |-> key, uid |-> FieldHash(name, map[key].uid),
            offset |-> struct.size + map[key].size]
      fs == Append(struct.fields, f)
  IN  Descriptor(struct.name, struct.kind,
                 TypeHash(struct.name, [n \in DOMAIN fs |-> fs[n].uid]),
                 struct.size + map[key].size, fs)

\* StructDescriptor::AddField: the field takes the UID its type has by now, and
\* the offset that is the size of the struct so far.
WithField(struct, name, key, map) ==
  LET f == [name |-> name, key |-> key, uid |-> FieldHash(name, map[key].uid),
            offset |-> struct.size]
      fs == Append(struct.fields, f)
  IN  Descriptor(struct.name, struct.kind,
                 TypeHash(struct.name, [n \in DOMAIN fs |-> fs[n].uid]),
                 struct.size + map[key].size, fs)

\* The powers of two that SetBitfieldSize compares the bits with.
BitfieldSize(bits) ==
  CASE bits <= 8 -> 1 [] bits \in 9 .. 16 -> 2 [] bits \in 17 .. 32 -> 4 [] OTHER -> 8

\* BitfieldDescriptor::AddField; the offset is in bits.
WithBits(bitfield, name, bits) ==
  LET fs == Append(bitfield.fields,
              [name |-> name, bits |-> bits, uid |-> ValueHash(name, bits),
               offset |-> Bits(bitfield.fields)])
  IN  Descriptor(bitfield.name, "Bitfield",
                 TypeHash(bitfield.name, [n \in DOMAIN fs |-> fs[n].uid]),
                 BitfieldSize(Bits(fs)), fs)

\* Mutant: the value 2^7 is taken to fit an int8.
EnumSizeUnsigned(count) ==
  CASE count <= 2^7 -> 1 [] count \in (2^7 + 1) .. 2^15 -> 2 [] OTHER -> 4

\* EnumDescriptor::AddValue: the type is the smallest signed one that holds the
\* number of values.
EnumSize(count) ==
  CASE count <= 2^7 - 1 -> 1 [] count \in 2^7 .. (2^15 - 1) -> 2 [] OTHER -> 4

WithValue(enum, name) ==
  LET fs == Append(enum.fields,
              [name |-> name, uid |-> ValueHash(name, Len(enum.fields))])
  IN  Descriptor(enum.name, "Enum",
                 TypeHash(enum.name, [n \in DOMAIN fs |-> fs[n].uid]),
                 EnumSize(Len(fs)), fs)

\* ParseArray, from the innermost array outwards: an array whose name is in the
\* map already is shared.
WithArrays(map, base, lens) ==
  LET elem(n) == Key(base, SubSeq(lens, 1, n - 1))
      array(m, n) ==
        Descriptor(Key(base, SubSeq(lens, 1, n)), "Array",
                   ArrayHash(m[elem(n)].uid, lens[n]), m[elem(n)].size * lens[n],
                   <<elem(n)>>)
  IN  FoldLeft(LAMBDA m, n : Add(m, Key(base, SubSeq(lens, 1, n)), array(m, n)),
               map, [n \in DOMAIN lens |-> n])

-----------------------------------------------------------------------------
(* The constructor.                                                        *)

\* The types that are always there.
BaseTypes ==
  LET prim(key) == Descriptor(key.base, "Primitive",
                              PrimitiveHash(key.base, PrimSize[key.base]),
                              PrimSize[key.base], <<>>)
      prims == [key \in {Named(name) : name \in Range(Primitive)} |-> prim(key)]
      header == Descriptor("SsHeader", "Struct", NoUid, 0, <<>>)
      uid == WithField(header, "uid", Named("uint32"), prims)
  IN  Add(prims, Named("SsHeader"), WithField(uid, "len", Named("uint16"), prims))

Init ==
  /\ spec \in SpecFile
  /\ origin \in {"file", "log"}
  /\ root = Document(spec, origin)
  /\ types = BaseTypes
  /\ uid_lookup = <<>>
  /\ pc = "entries"
  /\ k = 1 /\ j = 1
  /\ obj = Descriptor("", "none", NoUid, 0, <<>>)

\* The next entry is skipped if it has no "type" key; else its descriptor is
\* made, with the UID zero and, for a message, with the implicit header.
StartEntry ==
  /\ pc = "entries" /\ k <= Len(root)
  /\ LET e == root[k]
         fresh == Descriptor(e.name, e.kind, NoUid, IF e.kind = "Enum" THEN 1 ELSE 0, <<>>)
     IN  \/ /\ e.kind = "none"
            /\ k' = k + 1
            /\ UNCHANGED <<pc, obj>>
         \/ /\ e.kind # "none"
            /\ obj' = IF e.kind = "Message"
                      THEN WithField(fresh, "ss_header", Named("SsHeader"), types)
                      ELSE fresh
            /\ pc' = "items"
            /\ UNCHANGED k
  /\ j' = 1
  /\ UNCHANGED <<spec, origin, root, types, uid_lookup>>

\* Mutant: a full bitfield is refused.
ThrowsWhenFull(item) ==
  \/ obj.kind \in {"Struct", "Message"} /\ Named(item.type) \notin DOMAIN types
  \/ obj.kind = "Bitfield" /\ Bits(obj.fields) + item.bits >= MaxBits

\* Neither type_map_.at nor the bitfields know the item: an exception leaves the
\* constructor, and there is no builder.
Throws(item) ==
  \/ obj.kind \in {"Struct", "Message"} /\ Named(item.type) \notin DOMAIN types
  \/ obj.kind = "Bitfield" /\ Bits(obj.fields) + item.bits > MaxBits

\* One round of the loop over the fields or values of a type.
AddItem ==
  /\ pc = "items" /\ j <= Len(root[k].items)
  /\ LET item == root[k].items[j]
     IN  \/ /\ Throws(item)
            /\ pc' = "thrown"
            /\ UNCHANGED <<types, j, obj>>
         \/ /\ ~Throws(item)
            /\ types' = IF obj.kind \in {"Struct", "Message"}
                        THEN WithArrays(types, item.type, item.lens) ELSE types
            /\ obj' = CASE obj.kind = "Bitfield" -> WithBits(obj, item.name, item.bits)
                        [] obj.kind = "Enum" -> WithValue(obj, item.name)
                        [] OTHER -> WithField(obj, item.name,
                                              Key(item.type, item.lens), types')
            /\ j' = j + 1
            /\ UNCHANGED pc
  /\ UNCHANGED <<spec, origin, root, uid_lookup, k>>

\* Mutant: the map does not take over messages.
FinishEntryUnowned ==
  /\ pc = "items" /\ j > Len(root[k].items)
  /\ \/ /\ obj.kind = "Message"
        /\ uid_lookup' = Add(uid_lookup, obj.uid, Named(obj.name))
        /\ UNCHANGED types
     \/ /\ obj.kind # "Message"
        /\ types' = Add(types, Named(obj.name), obj)
        /\ UNCHANGED uid_lookup
  /\ pc' = "entries"
  /\ k' = k + 1
  /\ UNCHANGED <<spec, origin, root, j, obj>>

\* The map takes over the descriptor, and a message can be looked up.
FinishEntry ==
  /\ pc = "items" /\ j > Len(root[k].items)
  /\ types' = Add(types, Named(obj.name), obj)
  /\ uid_lookup' = IF obj.kind = "Message"
                   THEN Add(uid_lookup, obj.uid, Named(obj.name)) ELSE uid_lookup
  /\ pc' = "entries"
  /\ k' = k + 1
  /\ UNCHANGED <<spec, origin, root, j, obj>>

Built ==
  /\ pc = "entries" /\ k > Len(root)
  /\ pc' = "built"
  /\ UNCHANGED <<spec, origin, root, types, uid_lookup, k, j, obj>>

Next == StartEntry \/ AddItem \/ FinishEntry \/ Built

Spec == Init /\ [][Next]_vars

-----------------------------------------------------------------------------
(* Properties.                                                             *)

\* The variables keep their types; keys lead to descriptors of that name.
TypeOK ==
  /\ spec \in SpecFile /\ origin \in {"file", "log"}
  /\ pc \in {"entries", "items", "built", "thrown"}
  /\ k \in 1 .. (Len(root) + 1)
  /\ pc = "items" => k <= Len(root) /\ j \in 1 .. (Len(root[k].items) + 1)
  /\ \A key \in DOMAIN types :
       types[key].name = IF key.lens = <<>> THEN key.base ELSE key
  /\ \A uid \in DOMAIN uid_lookup : uid_lookup[uid] \in DOMAIN types

\* The UID and the offset a field recorded when it was added are those of the
\* finished descriptors: the fields lie end to end and fill the struct.
FieldsLieEndToEnd ==
  \A key \in DOMAIN types :
    LET struct == types[key]  fs == struct.fields
        End(n) == fs[n].offset + types[fs[n].key].size
    IN  struct.kind \in {"Struct", "Message"} =>
          /\ \A n \in DOMAIN fs :
               /\ fs[n].uid = FieldHash(fs[n].name, types[fs[n].key].uid)
               /\ fs[n].offset = IF n = 1 THEN 0 ELSE End(n - 1)
          /\ struct.size = IF fs = <<>> THEN 0 ELSE End(Len(fs))

\* The types of the generators for the same specification, which is what a
\* packed message was laid out by.
Generated == Meaning(spec, "", 1)
\* The types of some kinds that have no fields or values.
Empty(gen, kinds) == {n \in DOMAIN gen : gen[n].kind \in kinds /\ gen[n].fields = <<>>}
\* Some types, and those that contain one of them.
Reaches(gen, some, found, n) ==
  \/ n \in some
  \/ /\ gen[n].kind \in {"Struct", "Message"}
     /\ \E m \in DOMAIN gen[n].fields : gen[n].fields[m].type.index \in found
Containing(gen, some) ==
  FoldLeft(LAMBDA found, n : IF Reaches(gen, some, found, n) THEN found \cup {n} ELSE found,
           {}, [n \in DOMAIN gen |-> n])

\* A builder that was built has, for every type of the specification, the size that
\* the generated libraries have, but for types that contain a bitfield without fields,
\* and the UID, but for types that contain one without fields or values; it finds
\* each message by that UID and nothing else, whatever the order in which it read the
\* types, and whichever array types it shared.
AgreesWithGenerators ==
  pc = "built" =>
    LET gen == Generated  uids == Uids(gen)  sizes == Sizes(gen)
        same == DOMAIN gen \ Containing(gen, Empty(gen, {"Enum", "Bitfield", "Struct"}))
        alike == DOMAIN gen \ Containing(gen, Empty(gen, {"Bitfield"}))
        messages == {n \in DOMAIN gen : gen[n].kind = "Message"}
    IN  /\ \A n \in DOMAIN gen :
             /\ Named(gen[n].name) \in DOMAIN types
             /\ types[Named(gen[n].name)].uid = uids[n] <=> n \in same
             /\ types[Named(gen[n].name)].size = sizes[n] <=> n \in alike
        /\ Cardinality(DOMAIN uid_lookup) = Cardinality(messages)
        /\ \A n \in messages \cap same :
             /\ uids[n] \in DOMAIN uid_lookup
             /\ uid_lookup[uids[n]] = Named(gen[n].name)

\* The file of a specification that the generators accepted is accepted, and so
\* is the header of a log when the types happen to be used in alphabetical order.
\* Nothing but a use before the definition is refused.
OnlyForwardUseThrows ==
  pc = "thrown" =>
    /\ origin = "log"
    /\ \E m, n \in DOMAIN spec :
         /\ m < n /\ Rank(spec[n].name) < Rank(spec[m].name)
         /\ \E i \in DOMAIN spec[n].items : spec[n].items[i].type = spec[m].name

\* The log header is a specification, in which types are defined before use.
LogHeaderLoads == pc # "thrown"
=============================================================================

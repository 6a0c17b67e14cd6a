------------------------------- MODULE MCCodec -------------------------------
(***************************************************************************)
(* Instances of Codec for TLC: messages with nested arrays, arrays of      *)
(* structs, enums and bitfields, messages in messages, and fields of type  *)
(* SsHeader.                                                               *)
(***************************************************************************)
EXTENDS Codec, TLC

InjectiveHash(t) == t
Primitives == <<"uint8", "uint16", "uint32">>
PrimSizes == ("uint8" :> 1) @@ ("uint16" :> 2) @@ ("uint32" :> 4)

Item(name, type, lens) ==
  [shape |-> "ok", name |-> name, type |-> type, lens |-> lens, tags |-> {}, bits |-> 0]
BitsItem(name, n) == [Item(name, "", <<>>) EXCEPT !.bits = n]
Entry(name, kind, items) == [shape |-> "ok", name |-> name, kind |-> kind, items |-> items]

Enum == Entry("E", "Enum", [n \in 1 .. 128 |-> Item(<<"v", n>>, "", <<>>)])
Bitfield == Entry("B", "Bitfield", <<BitsItem("f", 5), BitsItem("g", 12)>>)
Struct == Entry("S", "Struct", <<Item("x", "uint8", <<>>), Item("y", "uint16", <<2>>)>>)
Holder == Entry("H", "Struct", <<Item("h", "SsHeader", <<>>), Item("x", "uint8", <<>>)>>)
Inner == Entry("M", "Message", <<Item("x", "uint16", <<>>)>>)

Scalars == {
  <<Enum, Bitfield, Entry("R", "Message",
      <<Item("e", "E", <<>>), Item("x", "uint8", <<2>>), Item("b", "B", <<>>)>>)>>,
  <<Enum, Entry("R", "Message", <<Item("e", "E", <<2, 1>>)>>)>>,
  <<Entry("R", "Message", <<>>)>>}
Arrays == {
  <<Struct, Entry("R", "Message", <<Item("s", "S", <<2, 2>>), Item("z", "uint32", <<>>)>>)>>,
  <<Entry("R", "Message", <<Item("x", "uint16", <<2, 1, 2>>), Item("y", "uint8", <<>>)>>)>>}
Contained == {
  <<Inner, Entry("R", "Message", <<Item("m", "M", <<>>), Item("x", "uint8", <<>>)>>)>>,
  <<Inner, Entry("N", "Message", <<Item("m", "M", <<2>>)>>),
    Entry("R", "Message", <<Item("n", "N", <<>>), Item("m", "M", <<>>)>>)>>}
Headers == {
  <<Entry("R", "Message", <<Item("h", "SsHeader", <<>>), Item("x", "uint8", <<>>)>>)>>,
  <<Entry("R", "Message", <<Item("h", "SsHeader", <<2>>)>>)>>,
  <<Holder, Entry("R", "Message", <<Item("k", "H", <<2>>), Item("x", "uint8", <<>>)>>)>>}
Specs == Scalars \cup Arrays \cup Contained \cup Headers

Pairs == {l \in [Program -> Lang] : l["near"] # "dyn"}
=============================================================================

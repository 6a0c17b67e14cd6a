--------------------------- MODULE MCDescriptors ---------------------------
(***************************************************************************)
(* Instances of Descriptors for TLC: specifications of one, two or three   *)
(* types drawn from a list, in every order a generator accepts.  Sizes are *)
(* chosen at the boundaries: bitfields of 8, 9 and 64 bits, enums of 127   *)
(* and 128 values, arrays of arrays that other fields share.               *)
(***************************************************************************)
EXTENDS Descriptors, TLC

\* The hash has no collisions.
InjectiveHash(t) == t

Primitives == <<"uint8", "uint16", "uint32">>
PrimSizes == ("uint8" :> 1) @@ ("uint16" :> 2) @@ ("uint32" :> 4)

Item(name, type, lens) ==
  [shape |-> "ok", name |-> name, type |-> type, lens |-> lens, tags |-> {}, bits |-> 0]
BitsItem(name, n) == [Item(name, "", <<>>) EXCEPT !.bits = n]
Entry(name, kind, items) == [shape |-> "ok", name |-> name, kind |-> kind, items |-> items]
Values(n) == [m \in 1 .. n |-> Item(<<"v", m>>, "", <<>>)]

Entries == {
  Entry("B", "Bitfield", <<BitsItem("f", 5), BitsItem("g", 3)>>),
  Entry("B", "Bitfield", <<BitsItem("f", 5), BitsItem("g", 4)>>),
  Entry("B", "Bitfield", <<BitsItem("f", 64)>>),
  Entry("E", "Enum", Values(2)),
  Entry("S", "Struct", <<Item("x", "uint8", <<>>), Item("y", "uint16", <<2, 3>>)>>),
  Entry("S", "Struct", <<Item("b", "B", <<2>>), Item("x", "uint32", <<1>>)>>),
  Entry("M", "Message", <<Item("e", "E", <<>>), Item("y", "uint16", <<2>>)>>),
  Entry("M", "Message", <<Item("s", "S", <<2, 3>>), Item("t", "S", <<2>>)>>),
  Entry("R", "Message", <<Item("m", "M", <<2>>)>>),
  Entry("R", "Message", <<Item("y", "uint16", <<2, 3>>), Item("z", "uint16", <<2>>)>>) }

Empties == {Entry("B", "Bitfield", <<>>), Entry("E", "Enum", <<>>), Entry("S", "Struct", <<>>), Entry("R", "Message", <<>>)}

Specs(entries) ==
  LET some == {<<e>> : e \in entries} \cup (entries \X entries)
                \cup (entries \X entries \X entries)
  IN  {s \in some : WellFormed(s)}
LargeEnums ==
  {<<Entry("E", "Enum", Values(n)), Entry("R", "Message", <<Item("e", "E", <<2>>)>>)>> :
     n \in {127, 128}}
Accepted == Specs(Entries \cup Empties) \cup LargeEnums

Alphabet == <<"B", "E", "M", "R", "S", "SsMessageUidMap">>
AlphabeticalRank(name) == IndexOf([n \in DOMAIN Alphabet |-> [name |-> Alphabet[n]]], name)
=============================================================================

---------------------------- MODULE MessageLink ----------------------------
(***************************************************************************)
(* Peers that exchange packed messages through the libraries generated     *)
(* from a stuff_sack specification.  A peer is a program linked with the   *)
(* C, C++ or Python library, or a receiver built on the dynamic types, and *)
(* it may be rebuilt from another specification at any time.  The          *)
(* transport between peers is the application's and may do anything to a   *)
(* datagram that its receiver can notice.                                  *)
(*                                                                         *)
(* The bytes of a message body are abstracted to the definition that laid  *)
(* them out and the value it laid out; the header keeps its two fields.    *)
(***************************************************************************)
EXTENDS Naturals, FiniteSets, Sequences

CONSTANTS
  Peer,        \* the programs that exchange messages
  Lang,        \* Peer -> {"c", "cc", "py", "dyn"}: the library each links
  Def,         \* message definitions, over all versions of the specification
  Value,       \* body values
  Garbled,     \* a body read with the layout of another definition
  Uid,         \* Def -> UidVal: the UID of a definition
  Size,        \* Def -> Nat: its packed size in bytes
  UidVal,      \* values of the 32-bit header field "uid"
  JunkUid,     \* a UID of no definition
  LenMod,      \* 2^16: the header field "len" is a uint16
  Library,     \* the message lists of the specifications a peer may link
  WireSize,    \* sizes to which the transport may cut or pad a datagram
  NetLimit     \* bound: datagrams in flight

UidBytes == 4
HeaderSize == 6
Langs == {"c", "cc", "py", "dyn"}

Elems(l) == {l[i] : i \in DOMAIN l}

\* A packed size fits the header field: the generated assignment of a larger
\* constant to a uint16 is an error of the build, which uses -Wall -Werror.
ASSUME SizeAssumption ==
  /\ LenMod \in Nat /\ HeaderSize < LenMod
  /\ Size \in [Def -> HeaderSize .. (LenMod - 1)]
  /\ WireSize \subseteq Nat

ASSUME UidAssumption ==
  /\ Uid \in [Def -> UidVal]
  /\ JunkUid \in UidVal
  /\ \A d \in Def : Uid[d] # JunkUid

\* parse_yaml refuses a specification in which two types share a UID.
ASSUME LibraryAssumption ==
  /\ Library \subseteq Seq(Def)
  /\ \A l \in Library : \A i, j \in DOMAIN l : Uid[l[i]] = Uid[l[j]] => i = j

ASSUME ValueAssumption == Garbled \notin Value

ASSUME LangAssumption == Lang \in [Peer -> Langs]

ASSUME NetLimitAssumption == NetLimit \in Nat

VARIABLES
  lib,     \* lib[p]: the message list peer p was built from
  obj,     \* obj[p]: the struct the application of p owns, or NoObj
  net,     \* datagrams in flight: delivered in any order and repeatedly
  ret      \* what the unpack call of the latest step returned, and to whom

vars == <<lib, obj, net, ret>>

Datagram ==
  [uid : UidVal, len : 0 .. (LenMod - 1), size : Nat,
   body : [def : Def, val : Value]]

NoObj == [def |-> "none"]
Obj == [def : Def, uid : UidVal \cup {0}, len : 0 .. (LenMod - 1),
        val : Value \cup {Garbled}]

Status == {"Success", "InvalidUid", "InvalidLen", "UnknownMessage",
           "IncorrectBufferSize"}
NoCall == [status |-> "none"]
Rejected == [peer : Peer, status : Status \ {"Success"}]
Accepted == [peer : Peer, status : {"Success"}, def : Def,
             val : Value \cup {Garbled}, wire : [def : Def, val : Value]]

-----------------------------------------------------------------------------
(* Decoding: what each library makes of a datagram.                        *)

\* The position in the message list of the first definition with this UID,
\* or the position after the last, kSsMsgTypeUnknown.
InspectHeader(l, uid) ==
  LET hits == {i \in DOMAIN l : Uid[l[i]] = uid}
  IN  IF hits = {} THEN Len(l) + 1
      ELSE CHOOSE i \in hits : \A j \in hits : i <= j

\* The body bytes read with the layout of definition d.
DecodeBody(d, g) == IF g.body.def = d THEN g.body.val ELSE Garbled

Failure(p, status) == [peer |-> p, status |-> status]
Success(p, d, g) ==
  [peer |-> p, status |-> "Success", def |-> d, val |-> DecodeBody(d, g),
   wire |-> g.body]

\* Mutant: the UID of the header is not compared.
HeaderStatusNoUid(d, uid, len) ==
  IF len # Size[d] THEN "InvalidLen" ELSE "Success"

\* The checks SsUnpackX and X::Unpack make on the header just unpacked.
HeaderStatus(d, uid, len) ==
  IF uid # Uid[d] THEN "InvalidUid"
  ELSE IF len # Size[d] THEN "InvalidLen"
  ELSE "Success"

\* UnpackNew, and the unpack of a fresh struct.
UnpackNew(p, d, g) ==
  LET status == HeaderStatus(d, g.uid, g.len)
  IN  IF status = "Success" THEN Success(p, d, g) ELSE Failure(p, status)

\* C++ UnpackMessage(buffer, len).
CcUnpackMessage(p, l, g) ==
  LET i == InspectHeader(l, g.uid)
  IN  IF g.size < HeaderSize THEN Failure(p, "InvalidLen")
      ELSE IF i \notin DOMAIN l THEN Failure(p, "InvalidUid")
      ELSE IF g.size # Size[l[i]] THEN Failure(p, "InvalidLen")
      ELSE UnpackNew(p, l[i], g)

\* Mutant: the length of the buffer is not compared.
PyUnpackAnySize(p, d, g) == UnpackNew(p, d, g)

\* Python X.unpack(buf).
PyUnpack(p, d, g) ==
  IF g.size # Size[d] THEN Failure(p, "IncorrectBufferSize")
  ELSE UnpackNew(p, d, g)

\* Python unpack_message(buf).  The header is inspected before any length is
\* checked, so uid is the four bytes found at the buffer, whatever its size.
PyUnpackMessage(p, l, uid, g) ==
  LET i == InspectHeader(l, uid)
  IN  IF i \notin DOMAIN l THEN Failure(p, "UnknownMessage")
      ELSE PyUnpack(p, l[i], g)

\* The four bytes at a buffer shorter than that end in memory it does not own.
ReadUid(g) == IF g.size < UidBytes THEN UidVal ELSE {g.uid}

\* The dynamic UnpackMessage(data, len, types).
DynUnpackMessage(p, l, g) ==
  LET i == InspectHeader(l, g.uid)
  IN  IF g.size < HeaderSize \/ g.len # g.size THEN Failure(p, "InvalidLen")
      ELSE IF i \notin DOMAIN l THEN Failure(p, "InvalidUid")
      ELSE IF g.len # Size[l[i]] THEN Failure(p, "InvalidLen")
      ELSE Success(p, l[i], g)

-----------------------------------------------------------------------------
(* The application and the library of a peer.                              *)

Init ==
  /\ lib \in [Peer -> Library]
  /\ obj = [p \in Peer |-> NoObj]
  /\ net = {}
  /\ ret = NoCall

\* The application declares a message struct, or gives its own a new value.
Compose(p) ==
  /\ Lang[p] # "dyn"
  /\ \E d \in Elems(lib[p]), v \in Value :
       obj' = [obj EXCEPT ![p] = [def |-> d, uid |-> 0, len |-> 0, val |-> v]]
  /\ ret' = NoCall
  /\ UNCHANGED <<lib, net>>

\* Mutant: the UID is left as the application set it.
PackedHeaderNoUid(d) == [uid |-> 0, len |-> Size[d] % LenMod]

PackedHeader(d) == [uid |-> Uid[d], len |-> Size[d] % LenMod]

\* SsPackX, X::Pack or x.pack(), then the application sends the buffer.  A
\* struct left garbled by an earlier unpack is not sent on.
Pack(p) ==
  /\ obj[p] # NoObj /\ obj[p].val # Garbled
  /\ LET o == obj[p]  h == PackedHeader(o.def)
         g == [uid |-> h.uid, len |-> h.len, size |-> Size[o.def],
               body |-> [def |-> o.def, val |-> o.val]]
     IN  /\ obj' = [obj EXCEPT ![p].uid = h.uid, ![p].len = h.len]
         /\ Cardinality(net \cup {g}) <= NetLimit
         /\ net' = net \cup {g}
  /\ ret' = NoCall
  /\ UNCHANGED lib

\* The C functions and X::Unpack take no length: the caller vouches that the
\* buffer holds a header and, when the header is that of d, a whole d.
BufferHolds(d, g) ==
  /\ g.size >= HeaderSize
  /\ HeaderStatus(d, g.uid, g.len) = "Success" => g.size >= Size[d]

\* Mutant: the body is unpacked before the header is checked.
UnpackedUnchecked(o, g) ==
  [def |-> o.def, uid |-> g.uid, len |-> g.len, val |-> DecodeBody(o.def, g)]

\* The struct o after an unpack: the header is unpacked into it before the
\* checks, the body only after both succeed.
Unpacked(o, g) ==
  [def |-> o.def, uid |-> g.uid, len |-> g.len,
   val |-> IF HeaderStatus(o.def, g.uid, g.len) = "Success"
           THEN DecodeBody(o.def, g) ELSE o.val]

\* SsUnpackX(buffer, &x) and x.Unpack(buffer).
UnpackInPlace(p) ==
  /\ Lang[p] \in {"c", "cc"}
  /\ obj[p] # NoObj
  /\ \E g \in net :
       /\ BufferHolds(obj[p].def, g)
       /\ obj' = [obj EXCEPT ![p] = Unpacked(@, g)]
       /\ ret' = UnpackNew(p, obj[p].def, g)
  /\ UNCHANGED <<lib, net>>

\* X::UnpackNew(buffer).
CcUnpackNew(p) ==
  /\ Lang[p] = "cc"
  /\ \E d \in Elems(lib[p]), g \in net :
       /\ BufferHolds(d, g)
       /\ ret' = UnpackNew(p, d, g)
  /\ UNCHANGED <<lib, obj, net>>

\* UnpackMessage, unpack_message or X.unpack, as the library of p has it.
UnpackAny(p) ==
  /\ \E g \in net :
       \/ /\ Lang[p] = "cc"
          /\ ret' = CcUnpackMessage(p, lib[p], g)
       \/ /\ Lang[p] = "py"
          /\ \E uid \in ReadUid(g) :
               ret' = PyUnpackMessage(p, lib[p], uid, g)
       \/ /\ Lang[p] = "py"
          /\ \E d \in Elems(lib[p]) : ret' = PyUnpack(p, d, g)
       \/ /\ Lang[p] = "dyn"
          /\ ret' = DynUnpackMessage(p, lib[p], g)
  /\ UNCHANGED <<lib, obj, net>>

\* Peer p is rebuilt from another specification and restarted.
Upgrade(p) ==
  /\ \E l \in Library : lib' = [lib EXCEPT ![p] = l]
  /\ obj' = [obj EXCEPT ![p] = NoObj]
  /\ ret' = NoCall
  /\ UNCHANGED net

-----------------------------------------------------------------------------
(* The transport.  It may lose, repeat and reorder datagrams (net is a     *)
(* set), change their size and spoil a header field.  There is no checksum *)
(* over the body: a body changed on the way is not noticed by any library. *)

Lose ==
  /\ \E g \in net : net' = net \ {g}
  /\ ret' = NoCall
  /\ UNCHANGED <<lib, obj>>

Replace(g, h) == net' = (net \ {g}) \cup {h}

Resize ==
  /\ \E g \in net, n \in WireSize : Replace(g, [g EXCEPT !.size = n])
  /\ ret' = NoCall
  /\ UNCHANGED <<lib, obj>>

Spoil ==
  /\ \E g \in net : \/ Replace(g, [g EXCEPT !.uid = JunkUid])
                    \/ \E n \in WireSize :
                         Replace(g, [g EXCEPT !.len = n % LenMod])
  /\ ret' = NoCall
  /\ UNCHANGED <<lib, obj>>

Next ==
  \/ \E p \in Peer : \/ Compose(p)
                     \/ Pack(p)
                     \/ UnpackInPlace(p)
                     \/ CcUnpackNew(p)
                     \/ UnpackAny(p)
                     \/ Upgrade(p)
  \/ Lose
  \/ Resize
  \/ Spoil

Spec == Init /\ [][Next]_vars

-----------------------------------------------------------------------------
(* Properties.                                                             *)

\* Every variable keeps its type, and the struct a peer owns is always one of
\* the messages of the specification it was built from.
TypeOK ==
  /\ lib \in [Peer -> Library]
  /\ obj \in [Peer -> Obj \cup {NoObj}]
  /\ \A p \in Peer : obj[p] # NoObj => obj[p].def \in Elems(lib[p])
  /\ net \subseteq Datagram
  /\ ret \in Accepted \cup Rejected \cup {NoCall}

Succeeded == ret.status = "Success"

\* An unpack call of any library that reports success returns a message of its
\* own specification: of the very definition and value some peer packed, whatever
\* the transport did and whichever versions of the specification the two ends
\* were built from.  One exception is left: a definition of another version, and
\* only one that has the UID of the definition that was packed.
DeliveredAsSent ==
  Succeeded =>
    /\ ret.def \in Elems(lib[ret.peer])
    /\ \/ [def |-> ret.def, val |-> ret.val] = ret.wire
       \/ ret.def # ret.wire.def /\ Uid[ret.def] = Uid[ret.wire.def]

\* The buffer is what a pack of d leaves, header and size alike.
Intact(d, g) == g.uid = Uid[d] /\ g.len = Size[d] /\ g.size = Size[d]

\* C++ UnpackMessage, Python unpack_message and the dynamic UnpackMessage
\* check header, size and UID in three different orders, the Python one after
\* reading a header the buffer may not hold; yet each accepts a datagram as
\* message d exactly when it is intact, so the three agree on every datagram.
AcceptExactlyIntact ==
  \A p \in Peer, g \in net : \A d \in Elems(lib[p]) :
    LET TakenAsD(r) == r.status = "Success" /\ r.def = d
    IN  /\ TakenAsD(CcUnpackMessage(p, lib[p], g)) <=> Intact(d, g)
        /\ TakenAsD(DynUnpackMessage(p, lib[p], g)) <=> Intact(d, g)
        /\ \A uid \in ReadUid(g) :
             TakenAsD(PyUnpackMessage(p, lib[p], uid, g)) <=> Intact(d, g)

\* The link implements the delivery of typed values: a peer knows the messages
\* of its specification and holds what its struct holds without the header.
Typed(o) == [def |-> o.def, val |-> o.val]
KnownDefs == [p \in Peer |-> Elems(lib[p])]
HeldValue == [p \in Peer |-> IF obj[p] = NoObj THEN NoObj ELSE Typed(obj[p])]
InFlight == {g.body : g \in net}
Received ==
  IF Succeeded
  THEN [peer |-> ret.peer, msg |-> [def |-> ret.def, val |-> ret.val]]
  ELSE NoCall

Abstract == INSTANCE TypedDelivery WITH
  known <- KnownDefs, held <- HeldValue, wire <- InFlight, got <- Received,
  Nothing <- NoObj, NoneGot <- NoCall

\* Every step of the libraries, the applications and the transport is a step of
\* TypedDelivery or changes nothing there: in particular an unpack that fails,
\* although it overwrites the header of the caller's struct, changes neither the
\* value the caller holds nor what it sends next.
AbstractSpec == Abstract!Spec
=============================================================================

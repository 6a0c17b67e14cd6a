----------------------------- MODULE SpecParser -----------------------------
(***************************************************************************)
(* parse_yaml and the type registry it fills.  The registry is a class     *)
(* attribute that every parse rebinds to a fresh dict; what a parse        *)
(* returns is a live view of the dict it filled, and the documentation     *)
(* generators register more types after a parse.  dicts is the heap of all *)
(* dicts ever created: they are never collected here, so that what a       *)
(* caller still holds can be compared with what it was given.              *)
(***************************************************************************)
EXTENDS SpecTypes

CONSTANTS
  SpecFile,     \* the specifications that are parsed
  Tag,          \* values of alias_tag
  MaxParse      \* bound: calls of parse_yaml

\* A file is a sequence of entries, and an entry has a sequence of items.
ASSUME SpecShapeAssumption ==
  \A s \in SpecFile :
    /\ s \in Seq(Range(s))
    /\ \A n \in DOMAIN s : s[n].items \in Seq(Range(s[n].items))

\* An item in which no type is wrong has integers for its bits and lengths.
ASSUME NumberAssumption ==
  \A s \in SpecFile : \A n \in DOMAIN s : \A i \in Range(s[n].items) :
    i.shape = "ok" => i.bits \in Int /\ i.lens \in Seq(Int)

VARIABLES
  dicts,      \* the heap: sequence of dicts, each a sequence of type objects
  cur,        \* DataType.all_types, an index of dicts
  pc,         \* "idle", "entries" or "items"
  spec, tag,  \* the arguments of the latest call of parse_yaml
  k, j,       \* the entry and the item of it that come next
  outcome,    \* how the latest call ended, "none" while it runs
  views,      \* what the calls so far returned: [dict, spec, tag]
  extras,     \* whether extra enums were registered since the latest call
  calls       \* number of calls so far

vars == <<dicts, cur, pc, spec, tag, k, j, outcome, views, extras, calls>>

-----------------------------------------------------------------------------
(* parse_yaml.                                                             *)

\* The types of a view are compared pairwise.
Collide(types) ==
  LET u == Uids(types)
  IN  \E m, n \in DOMAIN u : m < n /\ u[m] = u[n]

Init ==
  /\ dicts = <<<<>>>>
  /\ cur = 1
  /\ pc = "idle"
  /\ spec = <<>> /\ tag \in Tag
  /\ k = 1 /\ j = 1
  /\ outcome = "none"
  /\ views = {}
  /\ extras = TRUE
  /\ calls = 0

\* reset_types: the attribute is bound to a fresh dict.
Reset == dicts' = Append(dicts, Builtins(Len(dicts) + 1)) /\ cur' = Len(dicts) + 1

Call ==
  /\ pc = "idle"
  /\ calls < MaxParse
  /\ calls' = calls + 1
  /\ spec' \in SpecFile /\ tag' \in Tag
  /\ Reset
  /\ pc' = "entries"
  /\ k' = 1 /\ j' = 1
  /\ outcome' = "none"
  /\ extras' = FALSE
  /\ UNCHANGED views

\* A file that holds no map is refused before the registry is touched; it
\* stands as one entry that is bad.
NotAMap == <<[shape |-> "bad", name |-> "", kind |-> "", items |-> <<>>]>>
CallOnBadFile ==
  /\ pc = "idle"
  /\ calls < MaxParse
  /\ calls' = calls + 1
  /\ spec' = NotAMap /\ tag' \in Tag
  /\ k' = 1 /\ j' = 1
  /\ outcome' = "SpecParseError"
  /\ UNCHANGED <<dicts, cur, pc, views, extras>>

\* An exception leaves parse_yaml with the registry as it stands.
Raise(exception) ==
  /\ outcome' = exception
  /\ pc' = "idle"
  /\ UNCHANGED <<cur, views>>

Registered == dicts[cur]

\* DataType.from_yaml up to the construction of the object, which registers it:
\* a Message then gets its header.
StartType ==
  /\ pc = "entries" /\ k <= Len(spec)
  /\ LET e == spec[k]
         header == HeaderOf(cur, Registered)
     IN  \/ /\ e.shape # "ok" \/ e.kind \notin Kinds \/ e.name \in Names(Registered)
            /\ Raise("SpecParseError")
            /\ UNCHANGED dicts
         \/ /\ e.shape = "ok" /\ e.kind \in Kinds /\ e.name \notin Names(Registered)
            /\ dicts' = [dicts EXCEPT ![cur] = Append(@,
                 TypeObj(e.name, e.kind,
                         IF e.kind = "Message" THEN <<header>> ELSE <<>>))]
            /\ pc' = "items"
            /\ UNCHANGED <<cur, outcome, views>>
  /\ j' = 1
  /\ UNCHANGED <<spec, tag, k, extras, calls>>

\* Mutants: a type may contain itself; a bitfield may not be full.
RefusedButSelf(obj, item) ==
  \/ item.shape # "ok"
  \/ item.name \in {obj.fields[n].name : n \in DOMAIN obj.fields}
  \/ obj.kind = "Bitfield" /\ (item.bits < 1 \/ Bits(obj.fields) + item.bits > MaxBits)
  \/ /\ obj.kind \in {"Struct", "Message"}
     /\ \/ item.type \notin Names(Registered)
        \/ \E n \in DOMAIN item.lens : item.lens[n] < 1
RefusedWhenFull(obj, item) ==
  \/ RefusedButSelf(obj, item)
  \/ obj.kind = "Bitfield" /\ Bits(obj.fields) + item.bits >= MaxBits
  \/ obj.kind \in {"Struct", "Message"} /\ item.type = obj.name

\* What add_field and add_value refuse to add to the object under construction.
Refused(obj, item) ==
  \/ item.shape # "ok"
  \/ item.name \in {obj.fields[n].name : n \in DOMAIN obj.fields}
  \/ obj.kind = "Bitfield" /\ (item.bits < 1 \/ Bits(obj.fields) + item.bits > MaxBits)
  \/ /\ obj.kind \in {"Struct", "Message"}
     /\ \/ item.type \notin Names(Registered)
        \/ item.type = obj.name
        \/ \E n \in DOMAIN item.lens : item.lens[n] < 1

\* One round of the loop over the fields or values of a type.
AddItem ==
  /\ pc = "items" /\ j <= Len(spec[k].items)
  /\ LET item == spec[k].items[j]
         obj == Last(Registered)
         added == IF obj.kind \in {"Struct", "Message"}
                  THEN Member(item.name, Ref(cur, IndexOf(Registered, item.type)),
                              item.lens, 0, tag \in item.tags)
                  ELSE Member(item.name, NoRef, <<>>,
                              IF obj.kind = "Bitfield" THEN item.bits ELSE 0, FALSE)
     IN  \/ /\ Refused(obj, item)
            /\ Raise(IF item.shape = "bare" THEN "KeyError" ELSE "SpecParseError")
            /\ UNCHANGED <<dicts, j>>
         \/ /\ ~Refused(obj, item)
            /\ dicts' = [dicts EXCEPT ![cur][Len(Registered)].fields = Append(@, added)]
            /\ j' = j + 1
            /\ UNCHANGED <<cur, pc, outcome, views>>
  /\ UNCHANGED <<spec, tag, k, extras, calls>>

\* Mutant: an entry is skipped.
FinishTypeAndSkip ==
  /\ pc = "items" /\ j > Len(spec[k].items)
  /\ pc' = "entries"
  /\ k' = k + 2
  /\ UNCHANGED <<dicts, cur, spec, tag, j, outcome, views, extras, calls>>

\* The object is complete; the next entry follows.
FinishType ==
  /\ pc = "items" /\ j > Len(spec[k].items)
  /\ pc' = "entries"
  /\ k' = k + 1
  /\ UNCHANGED <<dicts, cur, spec, tag, j, outcome, views, extras, calls>>

\* Mutant: the registry is not reset.
ReturnWithoutReset ==
  /\ pc = "entries" /\ k > Len(spec)
  /\ pc' = "idle"
  /\ \/ /\ Collide(Registered)
        /\ outcome' = "AssertionError"
        /\ UNCHANGED views
     \/ /\ ~Collide(Registered)
        /\ outcome' = "returned"
        /\ views' = views \cup {[dict |-> cur, spec |-> spec, tag |-> tag]}
  /\ UNCHANGED <<dicts, cur, spec, tag, k, j, extras, calls>>

\* The view is taken, the registry reset, and the view checked for collisions.
Return ==
  /\ pc = "entries" /\ k > Len(spec)
  /\ Reset
  /\ pc' = "idle"
  /\ \/ /\ Collide(Registered)
        /\ outcome' = "AssertionError"
        /\ UNCHANGED views
     \/ /\ ~Collide(Registered)
        /\ outcome' = "returned"
        /\ views' = views \cup {[dict |-> cur, spec |-> spec, tag |-> tag]}
  /\ UNCHANGED <<spec, tag, k, j, extras, calls>>

\* A documentation generator has its view, of the dict before the one the reset
\* made, and calls get_extra_enums, which
\* constructs the enums of message types and status codes of its language, with
\* the names it gives them.  A message named Unknown makes the first a
\* SpecParseError of the generator.
CNames == <<"SsMsgType", "SsStatus">>
CcNames == <<"MsgType", "Status">>
ExtraEnums(names) ==
  LET messages == NameSeq(Messages(dicts[cur - 1]))
      value(name) == Scalar(name, NoRef)
      types == [n \in DOMAIN messages |-> value(messages[n])]
      status == <<value("Success"), value("InvalidUid"), value("InvalidLen")>>
  IN  /\ pc = "idle" /\ outcome = "returned" /\ ~extras
      /\ dicts' = [dicts EXCEPT ![cur] = @ \o
           IF "Unknown" \in Range(messages) THEN <<TypeObj(names[1], "Enum", types)>>
           ELSE <<TypeObj(names[1], "Enum", Append(types, value("Unknown"))),
                  TypeObj(names[2], "Enum", status)>>]
      /\ extras' = TRUE
      /\ UNCHANGED <<cur, pc, spec, tag, k, j, outcome, views, calls>>

Parse == StartType \/ AddItem \/ FinishType \/ Return
Next ==
  \/ Call \/ CallOnBadFile \/ Parse
  \/ \E names \in {CNames, CcNames} : ExtraEnums(names)

Spec == Init /\ [][Next]_vars

-----------------------------------------------------------------------------
(* Properties.                                                             *)

\* The variables keep their types; the registry is a dict of the heap.
TypeOK ==
  /\ cur \in DOMAIN dicts
  /\ pc \in {"idle", "entries", "items"}
  /\ spec \in SpecFile \cup {<<>>, NotAMap} /\ tag \in Tag
  /\ k \in 1 .. (Len(spec) + 1)
  /\ pc = "items" => k <= Len(spec) /\ j \in 1 .. (Len(spec[k].items) + 1)
  /\ outcome \in {"none", "returned", "SpecParseError", "KeyError", "AssertionError"}
  /\ \A v \in views : v.dict \in DOMAIN dicts

\* A call of parse_yaml returns exactly for the specifications that are well
\* formed and whose types all differ in UID, whatever was parsed before, with or
\* without success, in the same process.
VerdictRight ==
  pc = "idle" /\ calls > 0 =>
    LET collision == WellFormed(spec) /\ Collide(Meaning(spec, tag, 1))
    IN  /\ outcome = "returned" <=> WellFormed(spec) /\ ~collision
        /\ outcome = "AssertionError" <=> collision

\* What a call returned is, and stays, the meaning of its own specification
\* under its own alias tag: later parses, failed ones included, and the extra
\* enums of the generators do not reach it although it is a live view.
ViewsHold ==
  \A v \in views : dicts[v.dict] = Meaning(v.spec, v.tag, v.dict)

\* In every dict, at every moment, a type refers only to types before it in that
\* same dict: the generators can declare the types in order, and no object of an
\* earlier parse is ever part of a later one.
RefersBack ==
  \A d \in DOMAIN dicts : \A n \in DOMAIN dicts[d] :
    \A f \in Range(dicts[d][n].fields) :
      f.type # NoRef => f.type.dict = d /\ f.type.index \in 1 .. (n - 1)
=============================================================================

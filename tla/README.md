# stuff_sack in TLA+

stuff_sack turns one YAML specification of messages into C, C++ and Python
libraries that pack and unpack them, and offers a C++ reader that interprets the
same specification at run time. This directory holds TLA+ models of that system,
TLC configurations that check them on small instances, and TLAPS proofs of the
main results for every value of the constants.

Paths below are relative to the repository; `src/` is its source directory.

## The system

| Part | Code | State | Operations | What makes it correct |
|---|---|---|---|---|
| Specification parser | `src/stuff_sack.py` | `DataType.all_types`, a class-level registry; `DataType.config` | `parse_yaml`, `reset_types`, the constructors and `from_yaml` of each kind, `add_field`, `add_value` | the verdict depends on the specification alone; a result stays what it was; types refer to earlier types only; UIDs of one specification differ |
| UIDs and sizes | `src/stuff_sack.py`, `src/uid_hash.*` | none | one hash per kind of type | the two implementations (Python objects, C++ descriptors) agree |
| CRC-32 | `src/crc32.h` | the table; `crc` of a call | `GenerateCrc32Table`, `GetCrc32` | the table computes the division; neighbouring changes never cancel out |
| C generator | `src/c_stuff_sack.py` | the files it writes; the caller's struct | declarations, packing and log functions; `SsPackX`, `SsUnpackX`, `SsInspectHeader`, `SsWriteLogHeader`, `SsFindLogDelimiter`, `SsLogX` | the library compiles; a successful unpack is what was packed; a log can be split again |
| C++ generator | `src/cc_stuff_sack.py` | the files it writes; the caller's struct, the callbacks of `MessageDispatcher` | declarations; `Pack`, `Unpack`, `UnpackNew`, `UnpackMessage`, `AddCallback` | the same; every callback of the message is called |
| Python library | `src/py_stuff_sack.py` | `Logger.file_p` | `get_globals`, `unpack`, `pack`, `unpack_message`, `Logger.open/log/close` | its classes and numbers are those of the C library; a closed log is complete; no freed `FILE` is used |
| Dynamic types | `src/dynamic/` | `type_map_`, `uid_lookup_`; the fields of a `DynamicStruct` | `DescriptorBuilder`, `UnpackMessage`, `Get`, `Convert` | same UIDs, sizes and messages as the generators |
| stdio port | `src/logging.c`, `src/libc_wrapper.py` | a `FILE` | `SsWriteFile`, `SsReadFile`, `fopen`, `fclose` | |
| Documentation generator | `src/stuff_sack_docs.py` | extra enums in the parser's registry | `get_extra_enums`, three documents | what it says is true of the libraries |
| Build macros, library stub, utilities | `tools/`, `src/generate_python_lib.py`, `src/utils.py` | none | compile with `-Wall -Werror`, change the case of names | |

How the parts interact. The generators call `parse_yaml` and write code; programs
link that code. Two programs meet in the bytes of a message, whose header carries
the UID of its definition and its packed size, and in the bytes of a log, which
is a specification, a delimiter and packed messages. The Python library calls the
C library through ctypes. The dynamic types read the specification themselves and
have to reach the same UIDs.

What is hard. There are no threads. The difficulty is in what two ends know of
each other: datagrams are lost, repeated, cut, reordered and spoilt, the ends are
built from different versions of a specification, and each library makes its
checks in an order of its own. Further: writes that fail part-way, `fclose` that
fails, a process that dies with a full buffer, a search that must survive chunk
boundaries and partial matches, a class-level registry that is reset under a live
view, two implementations of UIDs and sizes, and seven texts (two libraries of two files,
a Python module, three documents) that are written from one specification by code of
their own, with names made by changing the case of others and joining them.

## The modules

| Module | Models | Checked by | Proofs |
|---|---|---|---|
| `TypedDelivery` | what message passing promises (abstract, 6 actions) | | |
| `MessageLink` | peers with the C, C++, Python and dynamic libraries, and a transport; implements `TypedDelivery` | `MCMessageLink` | `ReceiverProofs` |
| `Codec` | message bodies: layout, packing and unpacking by the four libraries | `MCCodec` | `BodyProofs` |
| `Bitfields` | the fields of a bitfield: the struct, `PackBitfield`, `UnpackBitfield`, the dynamic types | `MCBitfields` | `BodyProofs` |
| `Crc32` | the table and the loop of `crc32.h`, bit by bit | `MCCrc32` | `ReceiverProofs` |
| `Dispatcher` | `MessageDispatcher` and callbacks that use it | `MCDispatcher` | `ReceiverProofs` |
| `LogScan` | `SsFindLogDelimiter`, byte by byte | `MCLogScan` | `LogProofs` |
| `Logger` | the Python `Logger` over a stdio stream | `MCLogger` | `LogProofs` |
| `SpecTypes` | type objects, UIDs, sizes; the meaning of a specification | with the modules below and `Codec` | `SpecTypesProofs` |
| `SpecParser` | `parse_yaml` and its registry | within `MCGenerators` | `SpecParserProofs` |
| `GeneratedFiles` | what the generated C, C++ and Python code declares and uses, and what the documents say | within `MCGenerators` | `SpecParserProofs`, `LibraryProofs` |
| `Generators` | the programs that parse and write: composes the previous two | `MCGenerators` | `SpecParserProofs`, `LibraryProofs` |
| `Descriptors` | `DescriptorBuilder` on a specification file or log header; compared with `SpecTypes` | `MCDescriptors` | `DescriptorsProofs` |

`FoldTheorems` holds what the proofs need of folds and of induction over natural numbers.
`Crc32`, `Dispatcher`, `LogScan` and `Bitfields` name their formulas `CrcSpec`, `DispSpec`, `ScanSpec` and `BitSpec`, because
their proofs stand in one module with those of `MessageLink`, `Logger` or `Codec`.

Operators whose comment begins with "Mutant" are faulty variants of the definition
that follows them. They are used in no specification: each is substituted for its
original to see that the named property of a run notices.

### MessageLink

`obj[p]` is the struct the application of `p` owns; `net` the set of datagrams in
flight, so that they arrive in any order and any number of times; `ret` the result
of the latest unpack call, together with what was on the wire, for the properties
only. A datagram keeps the two header fields and its size; its body is the
definition that laid it out and the value, and a body read under another
definition is `Garbled`. This is the abstraction of all of the field-by-field
packing code, which `Codec` models. `Upgrade` rebuilds a peer from another specification.

Each unpack function is an operator with the checks in the order of the code:
`HeaderStatus` (`SsUnpackX`, `X::Unpack`), `CcUnpackMessage`, `PyUnpack`,
`PyUnpackMessage`, `DynUnpackMessage`. `UnpackInPlace` overwrites the header of the
caller's struct before it checks, as the code does. `PyUnpackMessage` gets a UID
from `ReadUid`: Python calls `SsInspectHeader` on a buffer of any length, and from a
buffer of less than four bytes C reads what lies behind it, which is any value. The
C functions take no length, so their caller vouches for the buffer (`BufferHolds`).

The refinement `AbstractSpec` maps a struct to what it holds without its header:
a failed unpack, although it changes the header, must be a stuttering step or a
`Refuse` of `TypedDelivery`. UIDs are all that tells definitions of different versions apart, and nothing in
the code keeps two of them from having the same one. So `TypedDelivery` lets `Receive` take a message for one of any definition with its UID, and what
is then read is `Garbled` (`ReadAs`); it allows nothing else, and nobody sends on what is garbled. `DeliveredAsSent` says
the same of the result of one call.

### Codec

The generated functions call one another along the type of a message. `Layout` is
what that comes to, computed as the generators do, type by type: the sequence of
the leaves of a message, each with its offset, its size and the messages that
enclose it. `mem[p]` is the object of a program, one value per leaf, and `wire` the
buffer packed last. A byte is a name that says where it comes from, so that bytes
that end up in the wrong place, or in the wrong order, are seen. `TypeOK` compares the
sum of the leaves with the packed size `stuff_sack.py` computes, `WholeBufferWritten` sees
leaves that overlap or leave gaps.

The libraries differ in three ways, and each is modelled. An enum is an `int` in C and
in ctypes and has its packed size elsewhere (`InMemory`, `Raw`). `SsPackX` fills in the
header of every message that it packs, `X::Pack` of C++ only its own (`FillsIn`). `SsUnpackX`
checks the header of each message inside and drops the status, the C++ functions skip
it, the dynamic types read it like any field (`SetsC`, `SetsCc`, `Unpacked`). A field of
type `SsHeader` is skipped by the first two. `MayKeep` lists what an unpack that
reports success may leave as it was, and `DeliveredOrKept` says that there is nothing
else. `HeadersPopulated` says which messages go out with their own UID and length: all of
them, but those inside a message that C++ packs. The object in memory of C and C++ may be uninitialised (`Unset`), and
`Targets` gives the object an unpack is made into.

### Bitfields

A number is the set of the positions of its ones, so that masks and shifts are set
operations. The integral promotions of C++ decide what `1 << bit_size` and
`mask << bit_offset` mean: `Promoted`, `Convert` and `ShiftLeft` model them, and a shift
that is undefined gives any number. `StoreMember` is the assignment to a member of
the struct the generators declare, laid out by the compilers of the supported hosts
from the least significant bit; `StoreWithPackBitfield` is `PackBitfield`, with any type the
`static_assert` admits. `ReadDynamic` is `DynamicStruct::UnpackBitfield`.

A specification lays its fields end to end in the smallest word (`OfSpecification`); a
caller of `PackBitfield` chooses the word and the offsets, and may leave gaps.
`Narrow` is the condition under which nothing is shifted too far: no field is as wide as a
word of four or eight bytes, and `PackBitfield` is used on words of at most four.

### Crc32

Two texts are summed side by side, with the table (`c`, `crc`) and without (`ref`).
`NextByte` is one round of `GetCrc32` up to the entry of the table that it selects, `TableStep`
one round of the loop that computed this entry, `Lookup` the use of it. The texts differ only within
as many bits as the sum has: `BurstDetected` is what a CRC promises of such texts. `MCCrc32`
also evaluates the real constants on the texts of `test/test_crc32.cc`.

### Dispatcher

`active` is the stack of calls of `MessageDispatcher::Unpack`; a loop holds the two
iterators that a range-based `for` takes at the start. While a callback runs it may
unpack another message, add callbacks or throw. `AddCallback` to a full vector moves it,
and then the iterators of loops over it, and the function that is running, are
dead (`Killed`). What follows a use of them is not modelled (`undefined`). `list` and `calls` are
history for the properties.

### LogScan

`Read` delivers a chunk, `ScanByte` is one round of the `for` loop, `ChunkDone` the
test after it. `faulty` records that a read delivered less than it could: a reader
that returns short counts makes the search give up early, and the properties about
absence are stated for reads that are not faulty. `DelimAssumption` says that the
first byte of the delimiter does not occur again in it: `SsLogFileDelimiter` has one
capital S. Without it the scan, which restarts with the
current byte only, could miss a delimiter.

### Logger

`stream[h]` is a `FILE`: its buffer, its offset and whether it is allocated. The
`Logger` holds a handle `file_p`, which may be that of a freed `FILE`: then the next
call is undefined behaviour (`proc = "undefined"`). `Flush` is stdio writing out
part of any open stream's buffer, also that of a stream nobody holds any more;
`Exit` ends the process, killed or not. `setting` says which faults happen and what the
client does: only the calls of `with` blocks, or any sequence of `open`, `log` and `close`. `logged`, `faults` and
`closed` are history for the properties. Two things are easy to miss: `open` keeps the
stream although the header could not be written and `OSError` is raised, and drops an older
stream without closing it. The fault `"header"` stands for the first, `"reopen"` for a
file opened while another stream is still open.

### SpecTypes, SpecParser, GeneratedFiles, Generators, Descriptors

A specification is a sequence of entries. `SpecParser` has one step per round of
the loops of `parse_yaml`; `dicts` is the heap of registries, so that a live view
that was returned can be compared with `Meaning`, the meaning of its specification
defined without any order of parsing. An exception leaves the registry as it is.
`ExtraEnums` is what a documentation generator does with the registry afterwards.
UIDs are built with the constant `Hash`, of which the runs use an injective one
and one with a collision. What is hashed is kept as a record of a name, a number and
hashes, which tells apart what the hashed text may not.

`GeneratedFiles` says what a generated file consists of. A file of C or C++ is a sequence of
items; an item states facts (an identifier with its kind, its type and its numbers), uses
identifiers, and is `ok` unless the compiler objects to it alone. `Compiles` asks that everything
is declared before it is used and means one thing. A document and the Python module are sets of facts.
Names are strings, because the generators build identifiers from them: `Camel` and `Snake` are the two
functions of `utils.py` on the names of an instance. `Generators` has the programs, as lists of outputs made in one
process: the C and the C++ generator parse once and write two files, the documentation generator
parses its file three times with an alias tag each, and a Python program loads two libraries and goes on
when one fails. `TooDeep` is the exception of `array_pack` with the header written already.

What is left out of the names: those of a specification are identifiers, none of them a keyword of C, C++ or Python, a name of a
standard header, a local variable, parameter or template parameter of a generated function, or a member of the dispatcher, and no member is named as a macro is. In C++ an identifier may hide
another one of an enclosing scope, which is no error by itself: `ok` says where what is hidden is used. `ChangesMeaning`
is the rule of the C++ standard that a name used in a class keeps its meaning in all of it. Two names that `Camel` and `Snake`
map to one are among the names of the instance.

`Descriptors` has one step per round of the loops of `DescriptorBuilder`.
`types` is `type_map_`, in which an existing key is never replaced (`emplace`); arrays
are entered under their name and shared. `LogHeader` sorts the entries by name and adds
`SsMessageUidMap`, as `yaml.dump` does in the generated log header. Specifications
are those that a generator accepts (`SpecFileAssumption`).

## The runs

| Run | Configuration | Bounds | Result |
|---|---|---|---|
| `link` | a C++, a Python and a dynamic peer; two versions of a specification whose messages are all of size 8, so that only UIDs tell them apart; the second has changed a message, which has come by the UID of another one of the first | 2 values, 1 datagram in flight, cut to 3 bytes | passes |
| `codec` | all pairs of libraries that can pack and unpack; ten messages with enums, bitfields, arrays of arrays, arrays of structs, messages two deep, `SsHeader` fields | 2 values per leaf | passes |
| `bitfields` | specifications of up to three fields of 2 to 9 bits, and up to two fields of a caller at any of three offsets, signed or not; bytes of 2 bits, so that words have 2 to 16 bits and an `int` 8 | 5 numbers per field | passes |
| `bitfield_full_width` | one field as wide as a word of four bytes | | violates `ReadBack` |
| `crc32` | sums of 5 bits, bytes of 2, CRC-5 | none: every pair of texts | passes |
| `dispatcher` | 2 types, 3 functions | 5 callbacks added, 2 calls inside one another | passes |
| `log_scan` | every file of up to 7 bytes over 3 byte values, delimiter of 3 | chunk of 2 | passes |
| `logger` | `with` blocks, and any calls, with writes that fail as a whole and an `fclose` that fails; any calls with short writes and a failing `fclose` | 2 opens, 2 records each | passes |
| `logger_short` | `with` blocks, short writes, no other failure | 1 open, 2 records | violates `ClosedLogIsComplete` |
| `generators` | four programs over specifications of at most two entries from a list, each good or bad in its own way, and of an entry and a message, or up to three types, that collide in names, sizes or order | 3 parses in a process | passes |
| `descriptors` | every accepted specification of up to three types of a list; bitfields of 8, 9 and 64 bits, enums of 127 and 128 values, types without members, nested and shared arrays | | passes |
| `log_header` | the same | | violates `LogHeaderLoads` |

Why the bounds are enough. An unpack call looks at one datagram, and all it keeps
between calls is the caller's struct; one datagram in flight with repetition
already shows a struct filled, refilled and sent on. A size of 3 is below the UID and the
header, and 8 is that of the messages. Three definitions are a message that is told apart from both others, and two
of different versions that are not, whichever end has which version. A C peer makes a subset of the calls of a
C++ one, with the same checks. Cuts that
leave the header whole, and messages of different sizes, are left to the proofs. A chunk shorter than the delimiter puts it
across two and three chunks, and 7 bytes hold a partial match followed by a
delimiter, and two delimiters. Two opens let a stream forgotten by the first be
flushed over the file of the second. Three calls of `parse_yaml` show
what the first leaves behind, and make the three documents. The list has specifications
for the disjuncts of `CRefuses` and `CcRefuses`, and every entry follows every good one.
The sum and byte of `crc32` keep the ratio of a sum that is longer than a byte and no multiple of one. In `codec` a byte names its leaf, so that two values suffice
to tell a new object from an old one; the layouts put arrays, structs, messages, enums and
bitfields inside messages, arrays inside one another, and arrays of structs and of messages. Bytes of two bits keep the ratio of the
widths of words and `int`, which is all that promotions and shifts depend on. Five callbacks
fill vectors of capacity one, two and four, and leave one too many. The proofs remove
the bounds for all that the passing runs check but the termination of `log_scan`.

Where `CHECK_DEADLOCK FALSE` stands, the system stops: the search returns, the process
exits, the builder is built, a callback has used a destroyed function, and the
programs end.

Fairness is assumed in one place: `WF_vars(Next)` in `LogScan`, because a C function
that is called runs until it returns. Nothing is assumed of the peers, the
transport, the client of the logger or the reads of the scan.

### What the violations show

* `logger_short` -- `Logger.open` accepts any positive count of `SsWriteLogHeader`, which itself gives up on negative
  counts only. In the trace `fwrite` writes the first half of the specification and then nothing of the delimiter, `open` and `close`
  raise nothing, and the file is half a specification. `Logger.log` tests the count of `SsLogX` in the same way, so that a
  record may be cut inside the log. `WithBlockLogIsComplete` shows the guarantee that remains when failing
  writes report an error.
* `bitfield_full_width` -- `(U{1} << bit_size) - 1` for a field of 32 bits in a word of 32,
  or 64 in 64, shifts by the full width. `bitfields` shows that fields of 8 bits
  in longer words, and those as wide as words of one and two bytes, are read right (`Narrow`).
* `log_header` -- the specification in a log header is sorted by name, so a type may
  stand after its use, which the README forbids and `DescriptorBuilder` refuses.
  `OnlyForwardUseThrows` shows that nothing else is refused.

More divergences are part of what passing runs state.

* A message inside a message is sent by C++ with the header the application left in it, although
  `README.md` says that headers are populated automatically (`HeadersPopulated`). `SsUnpackX` of C then reports success and leaves out that
  message (`DeliveredOrKept`, `RelayIsExact`).
* `CRefuses` and `CcRefuses` list the specifications that `parse_yaml` accepts and whose
  libraries do not compile: without a message; with an alias of an integer; with a message of 64 KiB; with a double quote in a
  description (C); with a struct that contains a message, unless as an alias, whose copy is not `const` (C); with an enum of four bytes,
  for which the assertion about its values overflows an `int` (C); with a bitfield without fields (C); with names that
  meet after their case is changed or after they are joined; with names that the library uses itself. An array nested
  more than 18 deep leaves a header without a source.
* An unpack leaves out fields of type `SsHeader` and the headers of messages inside. Where the result is copied, for an alias or by `UnpackNew`,
  what is copied was never set. `CopiesUnset` lists these specifications; whether the compiler notices, and by
  `-Werror` refuses the library, depends on its optimiser, and `BuildsUnless` says nothing of them.
* `DocsAgree`: the C document calls `kForceSigned` what the library calls `k<Enum>ForceSigned`.
  The Python document lists `SsMsgType` and `SsStatus`, which the module does not have, gives enums another base
  class, and lists enum values and methods that attributes of the same name hide.
* A type without members has UID 0 in `DescriptorBuilder` and the hash of its
  name in `parse_yaml`, and a bitfield without fields has no bytes in `DescriptorBuilder` and one in `parse_yaml`.
  `AgreesWithGenerators` says that UIDs and sizes differ for these types and
  those that contain them, and for no others; such messages are not found.
* For a word of eight bytes and a field of at most four, `PackBitfield` computes `~(mask << bit_offset)` in a narrower
  type and clears the upper half. Only tests call `PackBitfield`, on words of four bytes.
* Calls outside a `with` block, after a `close` that raised, hand a freed `FILE` to stdio
  (`DeadHandleAfterFailedClose`). A callback that is added while its own type is dispatched may leave the
  dispatcher with a dead iterator (`UndefinedOnlyByGrowth`).

## The proofs

The proofs assume what the modules assume of their constants, and nothing else unless a theorem says so.

### Receivers

`ReceiverProofs` proves of `MessageLink`, for any peers, languages, definitions, sizes, message
lists and number of datagrams:

* `TypeCorrect`: `[]TypeOK`.
* `ReceiversAgree`: `[]AcceptExactlyIntact`.
* `Delivery`: `[]DeliveredAsSent`, whether or not definitions of different versions share UIDs.
* `LinkImplementsDelivery`: `Spec => AbstractSpec`, likewise.

The inductive invariant is `TypeOK /\ NetUids /\ UidAgreement /\ DecodedRight`. `NetUids` is
what the properties lack: a datagram in flight carries either the UID of the
definition that laid out its body or one of no definition, since the transport may
spoil a UID only into another that is nobody's. `UidAgreement` says that a message is returned under a definition of the UID that was
packed, and `DecodedRight` relates the value a
successful unpack returned to the body on the wire. One lemma per unpack function
says what it returns for a datagram with `NetUids`; the step proof cites them.

The assumptions are those of the module: sizes fit a `uint16`, which the build
enforces; one specification has no two messages of one UID, which `parse_yaml`
enforces (`VerdictRight`); no definition has the UID into
which the transport spoils. Nothing is assumed of UIDs of different specifications.

Of `Dispatcher` it proves `DispTypeCorrect`, `CallbacksCalledInOrder` and `GrowthIsNeeded` (`[]UndefinedOnlyByGrowth`), for
any types, callbacks and depth. `LoopInv`: the list that a loop walks is a prefix of its vector, also after
callbacks were added; what it has called is a prefix of that list; an undefined use has a dead loop on the stack; and a
loop is dead only if its vector was moved since it began, which takes a number of callbacks that was a power of two.

### Logs

`LogProofs` proves of `LogScan`, for any set of files, chunk size and delimiter whose first byte
does not recur: `ScanTypeCorrect`, `FirstDelimiterFound`, `AbsenceReported`, `LogFileSplit`.
The inductive invariant says that the bytes scanned so far hold no delimiter, and
that `delim_index` is the length of the longest prefix of the delimiter with which
they end. It is kept when a mismatch restarts the match, because a longer prefix
that ends there would have to begin with a byte that does not recur.

Of `Logger` it proves all of the properties of the run `logger`, for any records and any number of opens. Type
correctness is inductive together with the state of the owned stream. For `TornOnlyAtEnd` and
`SoundUnlessFaulty` (`GoodInv`): no other stream is open, the file is a prefix of the log, and the owned stream carries
exactly what follows. For `with` blocks (`WithInv`) other streams may be open, but they carry at most a part of the header:
flushed at any time, they write over the file what it begins with anyway.

### Sums and bits

`ReceiverProofs` proves of `Crc32` `CrcTypeCorrect`, `TableIsRight` and `BurstsDetected` for any width, size of a byte and polynomial
with a constant term. `TableInv` relates the sums inside the loop of the table: the remainder of the division is the
entry so far, plus the rest of the sum and of the byte that the division has not shifted out. Then `BurstInv`: once the texts
have differed, `since` bits ago, their remainders differ in one of the highest `since` places, because a step moves a
difference by one place, and one that leaves at the bottom comes in again at the top.

`BodyProofs` proves of `Bitfields` `FieldsTypeCorrect` without a condition, and `FieldsReadBack` and `OneFieldChangesAtATime` for setups that
are all `Narrow`, for any size of a byte and any fields that do not overlap. `WordInv` says that the bits of the
word within each field are the number it holds, shifted. Then every mask is exact, a shift loses
nothing that belongs to the field, and what a promotion to `int` adds is cut off again.

### Bodies

`BodyProofs` proves all of the properties of the run `codec`, for any specifications that the generators accept, any
libraries at the two ends and any values: `BodiesTypeCorrect`, `BuffersWritten`, `BodiesDelivered`,
`BodiesHeadersPopulated` and `BodiesRelayed`.

What carries the proof is that the leaves of a layout lie end to end and fill their range: `Tiles(layout, 0, total)`.
Each way in which the generators put leaves together keeps it: one sequence after another (`FlattenSeq`), the
elements of an array, array in array, the fields of a struct with the offset of each the sum of the sizes before it, and the
types of a specification, each from those before it. The last is an induction along
`Meaning(spec, "", 1)`, which needs to know that every type there is finished and refers back only, with lengths and sizes
that are numbers; that follows from `Acceptable`. So a layout has exactly the packed size of `stuff_sack.py`, which is computed
by another recursion, and every byte of the buffer belongs to one leaf (`TilesCover`, `TilesOrder`).

`IInv` (`BodiesInvariant`) is the inductive invariant: the layout is laid out (`LaidOut`), each leaf in the frame of the outer
message; objects have the shape of the layout; and `WireOK`, the buffer holds for each leaf of some object its packed bytes in the
right place, that object with the headers filled in which its library fills in. `PackedIs` says that the writes, made one
after another, come to that, and `ReadIs` and `DynReadIs` that a library reads of it what was written, the dynamic types although they
sum up offsets as they go. `InMemoryIs` says that what a library keeps of an enum packs to the same bytes again. `SetsUnlessKept` is why
`DeliveredOrKept` has no more exceptions than it names: the checks of the messages inside pass where the sender filled in their headers. `BodiesRelayed`
is a property of steps, and needs the invariant on both sides of an unpack.

### Folds and numbers

The models write most loops as folds. `FoldTheorems` has a constant `Op`, and an instance of it speaks of the fold of
that operator: `FoldIs` says that a fold is the last of the values that begin with the base and make one step each,
`FoldOneMore` what a longer sequence adds, `FoldSame` that equal steps give equal folds. They follow from the
definition of `FoldLeft` by induction on the length (`Induction`, which is the theorem about the least element of a set of numbers).
`PowersOfTwo` gets the recurrence of `2 ^ n` from the number of subsets, for the solvers know nothing of powers that are not literals;
it stands in `SpecTypesProofs` and `ReceiverProofs`, which need it.

`SpecTypesProofs` says with these what `Bits`, `ArraySize`, `ArrayUid` and `Uids` do when something is added, that they are the
same for types that differ only in the dict they refer to, and which object `Meaning` has for each entry of a specification: where its
name is found, and that each type that an accepted specification uses was found before it. The proofs about descriptors and about bodies share this.

### The parser and the generators

`SpecParserProofs` proves `TypeCorrect`, `ViewsAreMeanings`, `TypesReferBack`, `ReturnedMeaning` and `VerdictIsRight` for any files, alias tags, primitive types
and hash. `Holds` is the strengthening: while a parse runs, the registry is the
built-in types and then, for each entry read so far, the object that `Meaning` gives it, the last of them with the items read so
far; names are distinct, so a name that has been found keeps its index as the registry grows. `ViewsBelow` says
that a view is of a dict before the registry, which no later step touches. For the verdict, `Accepted` says that the entries and items
passed so far make a well-formed specification: each check of the loops compares a name, type, length or sum of bits with the registry as it
stands, and together they come to `WellFormed`, which speaks of the whole. The assumptions are those of
the modules: primitive types have distinct names, among them the two of the header's fields, and files are sequences.

The module also proves that the programs of `Generators` implement the parser's specification (`ImplementsParser`), so that its theorems
hold for them, type correctness (`GenTypeCorrect`), and that a file is written of the meaning of its own specification and alias tag (`FilesAreOfMeanings`).

### The generated files

`FilesAreRight` is where the rest begins: every file that was written is the text its generator makes of the meaning of its specification, whatever
the parser was used for before and after. For the documents this says what `get_extra_enums` finds (`RegistryInv`): the extra enums of this
document and no others, in a registry of their own, while the view the document is made of stays as it was. After that the
properties of `Generators` are properties of the texts, for any specification that `parse_yaml` accepts.

Names are joined strings, and the provers know nothing of strings but that they are equal or not. The proofs therefore keep `"k" \o e \o v` as
it stands, and treat an identifier as the record of what it is of and which name it has (`CIdentifiers`). Where the spelling matters, an assumption
says it, of a few fixed words: `SpellingAssumption`, that functions to pack, to unpack and to log are called apart and that enums and
messages find the functions they call; `TypeNameAssumption`, that no enum is called so that its `k<Enum>ForceSigned` is `kForceSigned`;
`IntegerAssumption` and `AttributeAssumption`, what C calls its integers, and which attributes `EnumMixin` has. They
hold of every spelling that `utils.py` produces, and TLC evaluates them in `MCGenerators`.

* `LibrariesNumberAlike`: `[]LibrariesAgree`. If a library compiles, an identifier has one fact (`Compiles`), so that the set of numbers that
  a name has is that of the one fact the generator stated for it; this is computed for messages, values and sizes in each of the three texts. Without the
  premise it is false: two enums may spell one constant.
* `DocumentsAreTrue`: `[]DocsAgree`. Each group of a document's facts is found in the library. That the constant `kForceSigned` of the C document is missing there,
  and that of Python is wrong in exactly the cases of `PyWrong`, takes the reverse: what can state a given name at all.
* `LibrariesCompileUnless`: `[]BuildsUnless`, in `LibraryProofs`, with the exception of `CopiesUnset` that the property makes. `Compiles` has three parts, and each is shown to hold exactly when some of the disjuncts of `CRefuses`
  are false. Every item is `ok` (`CFine`). Everything used is declared at the same place or before (`CKnows`): types and their
  packing functions stand in the order of the specification, in which a type refers to earlier ones. And every identifier means one thing and is
  declared once (`CNamedApart`, `CApartNamed`): each identifier of `CIdentifiers` is stated by one fact, at one place unless it is a function (`CUnique`), and one
  fact at one place states one identifier, so that what is stated twice, or in two ways, is a clash of names. `CcFine`, `CcKnows`,
  `CcNamedApart` and `CcApartNamed` do the same for C++, where a fact's place follows from what its name is in the scope of (`CcHeads`).

### The descriptors

`DescriptorsProofs` proves all of the properties of the run `descriptors`, for any specifications that the generators accept, any primitive
types and any order of names: `TypeCorrect`, `FieldsLie`, `OnlyForwardUse` and `Agreement`.

`DescInv` is the inductive invariant. `SpecInv` and `PlaceInv` say where the loops are and that the descriptor under construction is that of
the entry cut off at the current item (`Filled`). `MapInv`: the map is laid out (`MapOK`: every array refers to its element type, every struct's fields
refer to keys of the map, end to end), and it extends the map of the built-in types. `NamesInv`: a name is in the map only
after its entry. `SettledInv`: every entry that was passed has its finished descriptor there. `LookupInv`: the UIDs that can be looked up are those of
the messages passed. What keeps it inductive is that the map only grows and no descriptor in it changes, so that what a field copied stays true.

Sizes are computed twice, by formulas that have nothing in common. `BytesForBits`, which `stuff_sack.py` computes by a division, is the table of
`type_descriptors.h` for every number of bits up to 64; and `EnumBytes`, which counts the bits of a number, is the comparison with `int8_t` and
`int16_t` there, for every number of values that an `int` holds.

`HoldsAll` then says that a finished map holds a descriptor for each object of `Meaning`, by induction along the specification, in
the order of the file although the builder may have read a sorted one. `BuilderMatches` is what follows whatever the hash: sizes never
larger than those of the generators, equal exactly for the types that contain no bitfield without fields; equal UIDs for the types that contain no
type without members; messages are found, and nothing else. The rest of `AgreesWithGenerators` -- that UIDs differ where they may, and that no message
hides another one in the lookup -- depends on the hash. `Agreement` has the hypothesis `HashesApart`: the hash tells
apart, and is zero for none of, the descriptions that `parse_yaml` and the builder hash for the types, fields and arrays of the
one specification that was read. These are finitely many, a few for each type and field: a specification with a hundred of them has about one chance in a million
that a 32-bit sum fails it. Nothing is asked of the hash on other descriptions.

`SpecFileAssumption`, and `CodecAssumption` of `Codec`, say of a specification that it is `Acceptable`: `parse_yaml` accepted it, and an enum has at most as many values as an `int` counts. `RankAssumption`
says that names have an order, and that no type is called `SsMessageUidMap`.

### Only model-checked

`Terminates` of `LogScan`: the scan returns. It is the one liveness property here, and liveness under fairness is out of the prover's reach. The
`ASSUME`s with which `MCCrc32` compares the real constants with the texts of the tests are evaluated by TLC only, and the three
violations are counterexamples, for which an instance is enough.

## Not modelled

* Aliases in `Codec`: a field with an alias is copied byte for byte through a variable of its own type, of equal size. For a field of
  type `SsHeader`, and for the headers of messages inside, that copy takes over what was never set, where
  `Codec`, which has no aliases, has the object keep what it held. The copies of `DynamicStruct` and its accessors.
* A body changed on the way: no library notices it, as there is no checksum.
* Memory allocation that fails, and callbacks of `MessageDispatcher` on several threads.
* A Python library loaded with a specification that is not that of its C library.
* Specifications read by `DescriptorBuilder` that no generator accepted.
* A program that reads a log while another writes it: the code has none. `LogScan` and `Logger` are checked
  apart, and meet in the log's form: header, delimiter, records.
* The text and layout of generated code and documents, descriptions, and the build rules.

## Plan

All modules of the plan are written, and all but `TypedDelivery`, which is abstract, have proofs. Every invariant and every action property
that a run checks is stated by a theorem. What would be next is not in the prover's reach or not in this code: termination of the parser's and
the builder's loops as liveness, and what CRC-32 does to longer differences than `BurstDetected` speaks of.

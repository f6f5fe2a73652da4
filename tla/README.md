# TLA+ models of ipmap

`ipmap` is an embedded map from IP addresses to fixed-width values. A `Builder` takes
(address, value) pairs, `Build` compiles them into an immutable `Map`, `WriteTo` serialises the
Map as one file, `Open` maps the file into memory and verifies it, and any number of goroutines
call `Lookup`. This directory holds TLA+ models of that code, TLC runs over small instances, and
TLAPS proofs for all instances.

## The system

| Part | State it keeps | Operations | What can go wrong |
|---|---|---|---|
| `Builder` (builder.go) | entry lists `v4`, `v6`; values or table + ids; `n`; `built` | `Add`, `Build` | last-wins lost in sort, dedupe or interning; the array compacted while it is read; wrap at 2^32; counts that miss an entry |
| value layouts (values.go) | direct bytes, or table + packed ids | `get`, `id`, `putID`, `idWidth` | width one value too narrow; encoder and decoder that disagree |
| stores (store.go) | dense /24 index; prefix table; suffixes | `lookup`, `Lookup` | two spellings of one host; a group bound off by one |
| artifact (format.go) | the file | `WriteTo`, `openBytes`, `validate` | writer and reader that disagree on a section; a byte no check covers; an accepted file that answers wrongly; a damaged one that crashes `Open` |
| mapping (format.go, file_unix.go) | the mmap, `closeOnce` | `Open`, `Close` | unmapped twice, or never; a caller that returns too early |
| publication (app/ipmap/main.go) | `<out>.tmp`, `<out>` | create, write, close, rename | crash or failure between two steps; two builds at once; a file changed under a mapping |
| reload (example/lookup/main.go) | the atomic pointer, two Maps, channels | swap, drain, close | use after unmap; readers or main that wait for ever |
| spec parser (app/ipmap/main.go) | line number, the Builder | `parseSpec` | a spec that is cut short and published; an error at the wrong line; a width `NewBuilder` does not take |
| addresses (addr.go) | none | `less`, `next`, bytes to words and back, `parseAddr4`, `parseAddr6` | carry and wrap; a text accepted that is no address, or read as another |
| bit layouts (pkg/bits) | `used`; the caller's word | `Field`, `Reserve`, `Get`, `Put` | fields that overlap; a Put that reaches its neighbour |

They meet as follows. The CLI's `build` feeds the lines of a text to a Builder, compiles it and
publishes what `WriteTo` wrote; readers in other processes meet it only through the file system, by the name `<out>`. In one
process, readers meet a reload only through an atomic pointer, two channels and a wait group, and
a Map's memory goes away when somebody calls `Close`. A Builder and `Build` are sequential: one
goroutine, no locks. The concurrency is in the file system, in the reload and in `Close`.

## Modules

| Module | Models |
|---|---|
| `Store` | the shape of a Map, `Lookup` and both families' lookups, id packing (pure) |
| `Validate` | `Map.validate`: group offsets, prefix order, ids; each check ends ok, corrupt or in a panic (pure) |
| `Builder` | `Add` and `Build` as a state machine; extends `Validate` |
| `AddrMap` | abstract: a last-wins dictionary with a capacity, frozen once sealed |
| `OpenCheck` | `Open` from the section views on, over any section contents |
| `Publish` | build processes, the two names, inodes, and processes that open the result |
| `AtomicFile` | abstract: a name that moves from one whole artifact to the next in one step |
| `Reload` | the readers and the main goroutine of the reload |
| `CloseOnce` | one mapping from `Open` to its last `Close` |
| `ParseSpec` | `parseSpec` line by line, with reads that fail; extends `Builder` |
| `Artifact` | `WriteTo` and `openBytes` on a file of cells, and what may happen to the file; extends `Builder` |
| `BuildCommand` | text to answers: composes `ParseSpec`, `Builder` and `Artifact` |
| `Bits` | `pkg/bits`: layouts, fields and the word they share |
| `Addr6` | the order, the successor and the byte form of an address |
| `AddrParse` | the address parsers, and the spellings of addresses they are compared with |
| `StoreProofs`, `BuilderProofs`, `BuildCommandProofs`, `OpenCheckProofs` | what is proved of the functions of `Store` and `Validate`, of a Builder, of the whole build command, of `Open` on any sections |
| `PublishProofs`, `ReloadProofs`, `CloseOnceProofs`, `WordsProofs` | what is proved of publication, reload and mapping, and of `Bits`, `Addr6` and `AddrParse` |
| `MC*` | the instances TLC checks |

`OpenCheck` asks the accepted Map through `Lookup`, for every 32-bit address and for 128-bit ones
over the words of the file and of the 4-in-6 range; what a file says is defined by its rows.

`Builder` implements `AddrMap`, and `Publish` implements `AtomicFile`, through the refinement
mappings at the end of each module. Definitions named `...Late`, `...Ignored` and so on, marked
"Mutant", are deliberately wrong variants of the definition that follows; no action uses them.

### Builder, Store, Validate

One step is one call of `Add`, or one turn of a loop of `Build` (`Sort4`, `Dedupe4`, ...,
`Release`, in the order of the code; `pc` says where `Build` is). `v4` and `v6` are the code's
slices; `kept` is the length of the slice `kept := b.v4[:0]`, which shares their array, so a
dedupe turn writes `v4[kept + 1]` as the code does. Sorting is any arrangement with nothing
before its predecessor. `tab` is shared by both stores. `log` is a history of the accepted Adds
and `ret` what the last call returned; neither is read by an action.

Widths are constants: `MaxU32` (2^32 - 1), `Octets` (256), `Groups4` (2^24), `ByteSize` (256). A
32-bit address is its /24 and its last octet, a 128-bit one its two words, and the words
`MapBase ..` of high word 0 are the 4-in-6 mapped ones. Conversions to uint32 are `% (MaxU32+1)`;
an index out of range in the code is the step `Panic`, or the answer `Fault` of a lookup. A value
of the wrong width is one model value. Left out: the bytes of values and addresses, the epoch,
error texts, and `NewBuilder`'s panics on bad options.

`Validate` keeps the order of the code's checks, because the order decides between an error and a
panic: `checkGroup` stops at the first position that is out of range or out of order, and says
which. `j` and `j - 1` are uint32 there.

### Publish

An artifact is a sequence of `Pieces` writes, each labelled with its run. A builder's steps are
the system calls of `build`: every one of them can fail, a failing write may leave a torn piece,
the removal in the error path may fail too, and the process may be killed before any step. A name
is bound to an inode; an open descriptor or mapping keeps its inode when the name moves. `Create`
truncates the file that is there, also when another process has it open. A reader opens `<out>`
and maps it as long as it is at that moment: what is shorter than an artifact, or empty and so not
mapped, is refused whatever becomes of the file later. Otherwise the verdict is on what the pages
hold when they are verified (`openBytes` is "whole, or refused": checksums are taken to be sound),
and the reader serves and closes. An open, stat or mmap that fails leaves nothing behind and is no
step. The verdict is one step: the verification does not see one file first and another later.

### Reload and CloseOnce

`Reload` has one action per statement that other goroutines can see. Reading a mapping that is
not open moves the reader to `faulted`. `log.Fatal` and the return of `main` end all goroutines.
`CloseOnce` models `sync.Once` as documented: one caller runs the function, later ones wait for
its end. `Open`'s failure path, which calls the closer without a Map, is part of it. So are two
ways in which the code keeps a mapping: munmap may fail, and both callers of the closer drop its
error (`leaked`), and `openBytes` may panic, which unwinds `Open` with nothing deferred
(`VerifyPanics`; that it can happen is the first finding below).

### ParseSpec, Artifact, BuildCommand

A line of a spec is what the parser can tell about it: the number of its fields, an address (or
one that does not parse), and a value as a width and a payload (or one that is not hex). `Scan` is
the part every line shares; `Skip`, `Refuse`, `PanicAt` and `EntryLine` are what becomes of it,
and `EntryLine` is a step of the Builder's `Add`. The reader is `bufio.Scanner`: a read that fails
in the middle of a line still delivers what it has of that line (`src = "torn"`), and only then
ends, so a shortened line that is legal reaches the Builder before `sc.Err()` is asked.

A file is a sequence of cells. A header field, a byte and a uint32 are one cell, a uint64 of a
section is two, low half first, and `Align` stands for the 8 of `pad8`. The eight slots, their
offsets, lengths and checksums, the padding and the reserved words are as in the code; a checksum
is the cells it is taken of, so that two contents never share one. `WriteTo` makes one step per
Write it completes (`piece`), and a failing Write may have written any part of its bytes.
`openBytes` gives its verdict in the order of its checks: `header`, then `section` for each slot
(geometry, checksum, padding), the end of the file, and `validate`. A slice out of range is the
verdict "panic".

`harm` says what happened to the file: nothing (it may still be unfinished), one cell flipped,
zeros appended, one header cell changed and the header checksummed anew (`Reseal`), or a file of
another writer (`Forge`): headers out of `Forgeries`, sections of the lengths they call for with
anything in them that their cells can hold (`CellsOf`: any uint32 for an offset or half of a word,
any byte for the rest), every checksum right. An empty file, which `mapFile` does not map, may be
opened too once the writer has created it.

In `BuildCommand` a behaviour is a spec being read, then compiled, written, and opened by anybody
at any time. A spec of another width than `ValLen` is parsed and goes no further, because values
in a file have one width per instance. How the file gets its name, and what readers see while it
does, is `Publish`; that module's "whole, or refused" is what `TornIsRefused` shows here.

### Bits, Addr6, AddrParse

A word is the set of its one bits, so the masks and shifts are set operations and hold for every
width. Widths and their sums are `uint` and wrap at `UintTop`. A program is any interleaving of
declarations and of Puts to the fields declared so far; `asked` (the widths granted, added up
without wrapping), `start` and `want` are history. The properties of a layout hold as long as
`asked` is a `uint` (`Unwrapped`): past that the check of `Field` and `Reserve` has been evaded and
fields overlap (see Findings).

`Addr6` keeps the two words of an address and walks the space by `next`. `AddrParse` has one step
per turn of the loop of `parseAddr6`, with `groups`, `n` and `gap` as in the code, and
`parseAddr4` as a function, four times its `turn`: fewer or more octets are refused by where the
fourth turn ends. The reference is written the other way round: `Spellings4` and
`Spellings6` enumerate the texts an address may be written as (all groups, or one "::" for one or
more of them, with or without a quad at the end, no leading zeros in an octet) together with the
number each stands for. The radices, the digits per group and octet, and the number of groups are
constants.

## Runs

| Run | Instance | Shows |
|---|---|---|
| `builder_spellings` | 10 addresses: two hosts in both spellings, the neighbours of the mapped range, two 128-bit groups, zoned and invalid ones; 3 values; cap 3; both layouts | `AnswersLastWins`, refinement of `AddrMap`, `BuildReturns` |
| `builder_duplicates` | 4 hosts, two per family in different groups; 3 values; cap 4 | `StatsAccount`, `BuiltStoreValid`, `Bookkeeping`, `NeverPanics` |
| `open_check` | every content of up to 2 rows in one family, tables of up to 3 rows, any offsets up to 3 | `AcceptedAnswers` |
| `open_check_panic` | the same | violated: `ValidateNeverPanics` |
| `publish_one` | 1 builder, 2 readers, 3 pieces, 4 runs | `NameImpliesServes`, `SuccessIsPublished`, `ServedNeverChanges`, refinement of `AtomicFile` |
| `publish_race` | 2 builders, 1 reader, 2 pieces, 3 runs | `Settles` |
| `publish_two` | 2 builders, 1 reader, 2 pieces, 2 runs | violated: `NameImpliesServes` |
| `reload` | 3 readers, channel of 2 | `NoUseAfterClose`, `ReadersNeverBlock`, `NoReaderGoesBack`, `ReloadCompletes` |
| `build_command` | every spec of up to 4 of 13 lines, cap 3, values of 3 two-valued bytes, padding to 2 cells; every cut of the file, every cell changed to each of up to 3 others, 9 forged headers with every content | `ErrorsNameFirstBadLine`, `SuccessIsWhole`, `SpecIsServed`, `TornIsRefused`, `DamageIsRefused`, `AcceptedIsCanonical` |
| `parse_spec_panic` | every spec of up to 4 lines, widths up to one over the limit | violated: `ParseNeverPanics` |
| `words` | words of 4 bits in a uint with 16 values, widths 0 to 5 and 15, no declaration once 16 bits are granted; 16 addresses; 4 groups, octets up to 2: every text of up to 6 characters, every spelling of every address, and the texts one edit away from the plainest ones and from every quad | `DeclaredFits`, `ReadsBack`, `GapsUntouched`, `NextIsSuccessor`, `BytesAgree`, `QuadsAgree`, `AddressesAgree` |
| `close_once` | 3 goroutines, 2 calls each | `UnmapsAtMostOnce`, `ReturnMeansUnmapped`, `EveryCloseReturns` |

Why the bounds suffice. The cap of 3 or 4 is itself the boundary the code has at 2^32 - 1, so
every behaviour at a full builder occurs. Runs of three duplicates are the shortest in which "the
survivor" and "the next one" differ; a run of four in one family, and runs in both, occur as well.
With two-valued bytes, one and two distinct values need one byte and three need two, so the step
of `idWidth` is crossed. Two groups of two addresses give a first, a last, an empty and a full
group. In `open_check` two rows are enough for two rows of one key, an empty group, and offsets
that overshoot and come back. In `publish_one` four runs allow a stale temporary file of one run
to be reused by a later one while a reader still maps a third. In `reload` three readers overfill
a channel of two, as eight overfill one of eight when all report at once. In `build_command` an
odd value width and an alignment of two give sections that need padding and sections that do not;
three distinct values need ids of two bytes; the four lines reach the cap and a superseded value;
the spellings of one host are two of the inputs; a forged file of two rows that share a table
entry is among the others. In `words` the width 15 wraps after any field of one to five bits, and
`MaxAsked`, which only ends a program that declares for ever, lets one wrap through; six characters hold every pair of
mistakes around one "::", quads are longer and are covered by the spellings and their neighbours,
and `Longer` puts a group too many in front. `words` runs its three parts one at a time: they
share nothing. Readers (`publish_one`)
and values (`builder_duplicates`, `open_check`) are interchangeable, and those runs, which check
no liveness, use symmetry.

Deadlock is checked in the Builder runs, where a finished Builder still answers misuse with a
panic. The others may stop: no run is left to start, everyone has closed, the file has its
verdict, `main` has returned, a layout has panicked, a text is parsed.

### Fairness

`Build` is a loop in one goroutine, so weak fairness of its step is the goroutine being
scheduled. In `Publish` each build process gets weak fairness of its own next system call, and
each reader of its verdict and its close, as a process that opens, answers and exits has; `Start`
and `Crash` get none, nor does a reader's wish to open. In `Reload` and `CloseOnce` each goroutine
gets weak fairness: Go schedules every runnable goroutine. Strong fairness is nowhere needed:
`Await` is never disabled once a token is there, because only `main` receives.

## Findings

* **`Open` can panic on a damaged file.** `checkGroups` (format.go:394) compares the suffixes of a
  group before it has seen that the group's end is within the store: only the first and the last
  offset are tested against the count. With offsets 0, 2, 1 over one suffix it reads
  `suffix[1]`. The checksums have to be right, which is the case the comment on `validate` is
  about ("a well-checksummed file ... still cannot produce an out-of-bounds access"), and the user
  guide says that damaged artifacts "are refused, not fatal". Run `open_check_panic`.
* **Two builds of one name can publish a half-artifact.** Both use `<out>.tmp` and `os.Create`
  truncates it; the rename of one then publishes what the other has just cut. The comment in
  `build` and the user guide promise that a name that exists serves. `Open` refuses such a file,
  so no wrong answer follows. Run `publish_two`; with one build at a time the promise is a
  theorem.
* **`ipmap build` can panic on its input.** The first entry of a spec sets the value width, and
  `parseSpec` (app/ipmap/main.go:184) refuses an empty value but hands any other length to
  `NewBuilder`, which panics above 4096 bytes. The fuzz test says "parseSpec never panics"
  (app/ipmap/main_test.go:245), and the user guide reserves panics for programmer error. Run
  `parse_spec_panic`.
* **A layout can be declared over 64 bits.** `Field` and `Reserve` test `l.used+width > 64`
  (pkg/bits/bits.go:49, 61), and the sum is a `uint`: after `Field(1)`, `Field(1<<64 - 1)` passes,
  `used` is 0 again, and later fields overlap. The package comment (bits.go:21-23) says that a
  total past 64 bits panics. No program writes such a width; `DeclaredFits` shows, and
  `LayoutsFit` proves, that a wrapping sum is the only way past the check.
* **An accepted file may hold rows nothing reaches.** `validate` takes a 128-bit row under a
  4-in-6 address, and `Map.Lookup` (store.go:59) unmaps the address and looks among the 32-bit rows.
  No build writes such a row, and no answer is wrong by it: `AcceptedAnswers` shows that this is
  the only unreachable kind.

## Proofs

All theorems are about the specifications with arbitrary constants under the ASSUMEs of the
modules, which are true of the code's sizes:

* widths are positive (`ByteSize` at least 2); `Miss`, `Fault` and `WrongWidth` are no values;
  32-bit inputs lie in the 32-bit space; `Pieces` and `SawCap` are positive;
* `IdAssumption`: a uint32 fits in four bytes, so an id of `idWidth` bytes never loses a digit;
* `SizeAssumption`: the header is as long as its own padding (280 bytes, a multiple of 8), an int
  holds a uint32, and a uint32 a byte; `ForgeryAssumption`: the scalar fields of a header of
  another writer are twelve unsigned numbers, of any size and value;
* `WordBytesAssumption`: a word has as many values as its bytes together;
* `ParseAssumption`: the number of groups is even, and hex digits have values below their radix;
  `GroupAssumption`: a group of the code, a uint16, holds what its digits spell; `TextAssumption`:
  ":", "." and the end of the text are no digits, and texts are sequences over one alphabet.

Where a theorem needs more, it says so as its hypothesis. Each safety theorem rests on an
inductive invariant, a lemma that the initial states have it, one lemma per action that the
action keeps it, and PTL. Facts about recursive functions and about all prefixes of a sequence
are inductions; the library's induction rules take an operator, which the provers here cannot
instantiate, so they are put as "no least counterexample" (`LeastNat`), and a recursive function
is unfolded once it is shown that one that satisfies its equation exists (`SearchFinds`,
`UnpackIs`, `PowersExist`, `ReadBack`).

* **StoreProofs**: pure lemmas. `Search` (sort.Search, a bisection) returns the first index at
  which a climbing predicate holds; an id that is packed into `idWidth` bytes unpacks to itself;
  in a store that passes `validate`, `lookup4` and `lookup6` find the one row of their key, and
  miss when there is none. The other theorems about answers rest on these.
* **BuilderProofs**: `TypeCorrect`, `BookkeepingHolds`, `BuildNeverPanics`. `NeverPanics` is not
  inductive: a fill panics when an id does not fit its slot, so the proof needs that the width was
  derived from the whole table and that every id is a row of it; a sequence number must be below
  `n`, and `n` at most `MaxU32`; and the compaction must stay behind its cursor, so that an entry
  it reads is one `Add` stored. That is `Bookkeeping`.
  `LastWins` (`AnswersLastWins`) and `BuiltIsValid` (`BuiltStoreValid`) rest on the functional
  invariant `FInv`: in every phase of `Build` each accepted Add of the history is owned by exactly
  one entry or superseded by a later one of the same host; once sorted, the last of a run of equal
  keys is the youngest; the kept entries are strictly ascending; and what is filled so far of a
  store stands for the kept entries before the cursor. `Implements` is the refinement of
  `AddrMap`: the abstract dictionary is the meaning of the entries (`Meaning`), which no step of
  `Build` changes. `Accounts` (`StatsAccount`) rests on `SInv`: what a dedupe has dropped is
  what it has counted. `BuiltIsValid` has the hypothesis `(Groups4 - 1) * Octets < MaxU32`: the
  checks of `validate` work in uint32 and would stop at an offset of 2^32 - 1. In the code 2^24
  groups of 256 hosts, without the last group, stay below that.
* **OpenCheckProofs**: `AcceptedAnswer`: whatever the sections of a file hold, a `Lookup` in a Map
  that `Open` returns answers with the one row of the unmapped address, and a row is reached by
  some address unless it is a 128-bit row under a 4-in-6 one. Here `validate` is a hypothesis on
  arbitrary contents, where in `BuilderProofs` it is a conclusion.
* **BuildCommandProofs**: the composed specification, on top of the Builder's invariants; every
  step of the command is a step of the Builder or leaves it alone.
  * `ParserTyped`, `ErrorsAreExact` (`ErrorsNameFirstBadLine`) and `BuilderIsWhole`
    (`SuccessIsWhole`). The invariant `ParserInv`: while the parser runs, every line behind it was
    good, the history has one Add for each entry line in their order, and the width is that of the
    first entry; `Judgement` is the lemma that the parser's verdict on a line is what the
    specification says of it, the Builder's cap included.
  * `UnfinishedRefused` (`TornIsRefused`) and `DamageRefused` (`DamageIsRefused`). What is on disk
    is always a part of the sealed file, from its first cell; if the header is complete, each
    offset and length in it is the true one, so no section is read past the end (`geometry` tests
    the end of the padding), and if all eight pass, their end is that of the whole file, which is
    not the end of the part. Zeros after the end fail that last test too. A changed cell lies in
    the header (then the checksum, or the zero after it, disagrees) or, as the sections and their
    padding leave no gap (`Covered`), in one section, whose checksum or padding test then fails
    (`SectionBroken`). All of this takes checksums that do not collide.
  * `SpecServed` (`SpecIsServed`), from the text of a spec to the answers. `LInv` gives the lengths
    and layouts of the finished Map; with it `OpensWhole` shows that `openBytes` inverts `WriteTo`:
    the counts pass, each section has the length the counts call for, and blocks, words and values
    are cut as they were laid. `ServedAnswers` carries `LastWins` over to the Map that was read,
    and `LastLineIsLastPut` numbers the entry lines of the text to find that the last Add of a host
    is the last line that names it. Same hypothesis as `BuiltIsValid`.
  * `AcceptedCanonical` (`AcceptedIsCanonical`), the converse: `CanonicalWhen` shows that `WriteTo`
    inverts `openBytes`. What the checks establish of an accepted file (`Accepted`) is that its
    fields, table and sections are those of the Map it views (`SectionsForth`), and that there is
    nothing else in it (`HeaderIsOnly`, `SealedIsOnly`): every cell is in the header, a section or
    a padding. It needs that cells hold unsigned numbers and that the words of the 128-bit sections
    have low halves below 2^32; `KInv` says that this is so of every resealed file that is not
    refused, and of every forged one, whose offsets and halves of words may be any uint32.
  * `CompileNeverPanics`.
* **PublishProofs**, under the premise `OneBuilder` (any two builders are the same one):
  `TypeCorrect`, `NameServes`, `SuccessPublishes`, `ServedIsStable`, and `PublishRefines`, the
  refinement of `AtomicFile`. The invariant: the two names are never the same inode; no reader has
  the temporary one open; a builder between create and rename has exactly its own pieces in that
  inode; what a reader has open is whole. Writes, truncations and failures are stutters of the
  abstract file, the rename is its `Publish`, and a reader's verdict is a stutter. `publish_two`
  shows that the premise is needed.
* **ReloadProofs**: `TypeCorrect`, `ReadersAreSafe` and `CutoverIsMonotone` for any number of
  readers. The invariant says which mappings are open at each step of `main`, that all readers
  have left once `main` is past the wait group, and that a reader holds the new Map only if the
  pointer does.
* **CloseOnceProofs**: `TypeCorrect`, `UnmapsOnce` and `CloseReleases` for any number of callers
  and calls. The invariant is the mutual exclusion of the Once and the link between `mapped`,
  `closer`, `unmaps` and `leaked`: a mapping outlives its munmap only if that failed.
* **WordsProofs**: `LayoutTyped`, `LayoutsFit`, `FieldsReadBack`, `GapsKeep` for every word width
  and all widths of a `uint`. The invariant is conditional: as long as the widths granted add up to
  a `uint`, `used` is their sum, and the fields are stacked below it in the order
  they were declared; once the sum has passed the top, it stays past it. `Successor`: for every
  word size, `next` has no address between its argument and its result in the order of `less`, and
  wraps only at the top. `SameBytes`
  (`BytesAgree`): an address is read back from its bytes, and the bytes order as the words do,
  for every number of bytes in a word; by the fronts of a word, the numbers its first k bytes
  stand for (`FrontIs`).
  * `QuadsAreRead` (`QuadsAgree`): `Scan` says that a run in the middle of a text is found where
    it is. A turn that goes on has read an octet and what was in front of it (`TurnReads`), and a
    turn over an octet goes on (`TurnGoes`); four of each, from the front, are the two directions.
  * `AddressesAreRead` (`AddressesAgree`) and `AcceptedMeansOne`, which adds that an accepted text
    spells no other address. The reference says which whole texts spell an address; the loop sees
    what is left of one. `Completes(t, m, h, x, gp)` is the reference for the rest of a text: with
    m groups read and a gap after h of them (or none yet), t adds the numbers x, and the gap of the
    address comes after gp groups. `ParseInv`: the addresses that the text spells are those that
    its rest completes, with the groups read so far in front (`Remains`). It starts from `PlainStart`,
    `GapStart` and `BadStart`. Each turn then either moves on (`QuadAdvances`, `LastAdvances`,
    `ColonAdvances`, `GapAdvances`: what completes the rest is the group and what completes the
    rest after it) or refuses a text that nothing completes (`RunTooLong`, `NoSeparator`,
    `LoneColon`, `SecondGap`, `NoRoom`). Under these lies that a text has one way to start with a
    group (`HexRun`), and that no quad does so with its separator (`QuadNoGroup`), which is why the
    code may try the quad first. At the end an empty rest completes one address or none
    (`Finished`), and `ShiftedIs` says that moving the groups past the gap builds it.

Model-checked only:

* `ReadersNeverBlock`, which is about ENABLED, and everything about progress: `BuildReturns`,
  `Settles`, `ReloadCompletes`, `EveryCloseReturns`. ENABLED and liveness under fairness are
  beyond this prover.

## Not modelled

The order of the bytes within a uint32 and the unsafe views over the file (they reinterpret
memory and keep no state of their own), checksums that collide, the order in which a kernel writes
back after a power loss (there is no fsync before the rename; docs/audits/audit-correctness.md, C2,
weighs that and leaves it, because durability is never promised and `Open` refuses what is cut
short, which is `TornIsRefused`), `file_other.go` (it reads the file and has nothing to
unmap), the printing commands of the CLI (`lookup`, `verify`, `stats` call `Open` and `Lookup` and
format what they return), and the other examples.

## Plan

`AtomicFile` as the abstract specification of `BuildCommand` and `Publish` together, with the
verdict of `Artifact` in place of `Publish`'s "whole, or refused".

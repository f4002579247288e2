# A verification of muter

muter encodes, decodes and hashes: `muter -c -base64:uri` reads base64 and
writes URI-encoded text. This directory holds TLA+ models of the program, the
TLC configurations that check them on small instances, and proofs for every
instance that TLAPS checks. Paths below are relative to the repository's root
directory.

## 1. The system

| Component | Source | State | Operations |
| --- | --- | --- | --- |
| `CodecReader` | `src/lib/codec/mod.rs:223-325` | the window `buf[..off]`, the upstream reader, the codec | `read`, `memmove` |
| `Transform` | `mod.rs:327-353` | a `BufReader` around a `CodecReader` | `read`, `fill_buf`, `consume` |
| `Codec` | `mod.rs:111-222` | each codec's own | `transform`, `chunk_size`, `buffer_size` |
| Codec helpers | `src/lib/codec/helpers/codecs.rs` | the padding, the prefix, whether the end was written | `PaddedEncoder`, `PaddedDecoder`, `ChunkedDecoder`, `AffixEncoder`, `FilteredDecoder`, `StatelessEncoder` |
| Codecs | `src/lib/codec/codecs/*.rs` | nothing, a held-back byte, a column, a checksum, a flag | `transform`, the factories |
| `Chain` | `src/lib/chain/mod.rs` | the list of parsed units | `parse`, `build`, `transform` |
| Registry and settings | `src/lib/codec/registry.rs`, `mod.rs:139-198`, the factories in `codecs/*.rs` | names and factories, options | `create`, `bool_arg`, `int_arg`, `length_arg` |
| Command line | `src/main.rs` | where `main` is, the open files, the codecs made, the `LineWriter` of stdout | `source`, `create_chain`, `process`, the exit status, help |

`main` reads the options, opens every file, lets `Chain::build` parse the text
behind `-c` and make one codec after the other, each around the one before, and
copies from the last of them to the standard output. Nothing in muter runs
concurrently. What makes it hard is that a codec never
sees its input as a whole. The call that does everything is

    io::copy -> Transform k -> CodecReader k -> Transform k-1 -> ... -> source

Each `CodecReader::read` pulls bytes from the `BufReader` below behind those
its codec left unconsumed, shows the codec all of them with a slice to write
to and a flag (`FlushState`) that says whether the source has ended, and acts
on the `Status` the codec answers: ask for more, hand the output up, or fail.
So the pieces a codec sees depend on five sizes (the reads of the source,
`--buffer-size`, the buffer of `io::copy`, what is left in the window, what is
left in the `BufReader` below), and a source's `Interrupted` leaves all the
stages in the middle of a call. The tests of the repository run chains at a
handful of buffer sizes over a source that delivers everything it is asked for.

What makes each component correct:

* `CodecReader`: the codec is shown the source in order, each byte once, until
  it is consumed; it is told `Finish` only at the end, and then for good;
  `Ok(0)` means that everything was consumed; the loop ends. All of this for
  codecs that keep a contract, which the trait never states (`Contract` in
  module `Codec`).
* Each codec: it keeps that contract, and what it writes does not depend on how
  its input and its output are cut. What it consumed, what it wrote and what
  it remembers agree at every return.
* Decoders: they undo their encoder, and what is not a well-formed input is an
  error and never a good end.
* `Chain`: composition, and a failure anywhere is a failure of the whole; the
  two spellings of a unit are one step; `--reverse` is the chain with every sign
  changed and the units the other way round, errors included.
* Registry: what a factory refuses does not depend on the other steps, and the
  decoder it makes by default undoes the encoder it makes.
* Command line: no byte of output before everything was checked, a status that
  tells whose fault it was, and an end.
* Digests: one result, after all of the input, once.

`PROJECT.json` lists the hazards at their lines.

## 2. The modules

| Module | Models |
| --- | --- |
| `Codec` | the answers of `transform`, and the contract a reader needs of them |
| `CodecReader` | one `CodecReader` with any codec that keeps the contract, any source and any caller |
| `ByteStream` | the abstract promise: bytes are taken in order and once, closed at the end, complete when all were taken |
| `CodecReaderProofs` | the theorems about `CodecReader` |
| `Pipeline` | a chain of `Transform`s around real codecs, pulled by `io::copy` |
| `NewlineCodecs` | `identity`, `lf`, `crlf`, `wrap`, both directions |
| `BlockCodecs` | `hex`, `base16`, `modhex`, `base32`, `base32hex`, `base64`, `url64`, `swab`, with the helpers they share |
| `EscapeCodecs` | `uri`, `form`, `quotedprintable`, `xml`, `vis`, both directions |
| `FramedCodecs` | `ascii85` with `AffixEncoder`, `uuencode`, `bubblebabble`, both directions |
| `DigestCodecs` | `hash` and `checksum` as codecs; Adler and Fletcher as arithmetic |
| `Registry` | the registry, the lookups of `CodecSettings`, what each factory refuses and makes |
| `Chain` | the parser: `Chain::parse`, `parse_unit`, `parse_arg` |
| `Delivery` | what a chain at work promises to its reader: pieces of the meaning in order, then the end or one error |
| `Muter` | one invocation: `main`, `create_chain`, `Chain::build`, `process` |
| `Invocation` | what an invocation promises to its caller: it checks, works and exits |
| `PipelineProofs`, `ChainProofs`, `MuterProofs` | the theorems about `Pipeline`, `Chain` and `Muter` |
| `StreamingProofs` | that the chains of `Pipeline` work if each codec does, by itself |
| `NewlineProofs` | that the codecs of `NewlineCodecs` do |
| `CodecProofs` | that those of `BlockCodecs` and `DigestCodecs` do, and that encoders and strict decoders undo each other |
| `Inductions` | the induction these proofs use, and what `FlattenSeq` is by it |
| `MCCodecReader`, `MCNewline`, `MCCodecs`, `MCFramed`, `MCMuter` | the constants of the runs; `MCCodecs` takes the block and the escape codecs, `MCFramed` the framed ones and the digests, `MCMuter` all of them |

Modules are composed in two ways. `Pipeline` and `Muter` take the codecs as
constant operators, to which the MC modules give the modules of the codecs. And
the abstract modules lie between the detailed ones: `Pipeline` implements
`Delivery` (`ImplementsDelivery`), `Muter` uses of the chain only the actions of
`Delivery`, and implements `Invocation` in turn; `CodecReader` implements
`ByteStream`.

### CodecReader

The reader's variables are those of the struct and of the call: `buf`, `off`,
`got` (`read` in the code), `dst` (the length of the caller's slice) and where
in the loop the call is (`pc`). A byte is its position in the source, which is
what the window's properties need: `buf[i] = eaten + i + 1` says that nothing
was lost, doubled or moved. `pos`, `eaten`, `made`, `told` and `ended` are
histories. One action stands for each exit of the code: `Call` and
`CallTooSmall` for the check of `dst.len()`, `Fill` and `FillFail` for
`obj.read`, then one action per arm of the `match` behind `transform`
(`Continue`, `Refuse`, `Truncate`, `Deliver`, `CodecFail`), each of which
includes the `memmove` and the change of `off` (`Settle`). The codec is
nondeterministic: any answer within `Contract`. The caller is `io::copy` or a
`BufReader`, which come back after data and after `Interrupted` only.

`Contract` is what `read` relies on: an answer within the slices; at least one
byte consumed once `Need` bytes are visible before the end; at the end, an
answer with no output is `Ok` with everything consumed, or `SeqError` with
nothing; and `BufError` carries an amount of the set `Refusals`. With
`Refusals = {<<0, 0>>}` a refusal is empty. A refusal with output would keep
`off` although the codec consumed something, and the window would lag behind
the codec (hazard at `mod.rs:316`).

### Pipeline

`Pipeline` has no free codec: `Start`, `BufferSize` and `Transform` are
constant operators that a run instantiates with the modules of the codecs, and
`Transform(codec, input, room, finish)` is a codec's `transform` as a function
from its state and its slices to an answer (`Ans`). The stages run one at a
time, `active` says which; `Ask` descends, `Return` ascends, and a round of the
loop of `read` is one step (`Round`), because between `obj.read` and the return
no other code runs. `spare[k]` is what a `BufReader` holds: its reads ask for
its capacity, `bufsize`, except that `io::copy` is served directly when its own
buffer is as large (`Room`). The source delivers pieces of any size
(`Read(n)`), is interrupted or fails (`ReadFail`). `Meaning(codec, input)` is what a codec
in a given state makes of all the rest of its input; `meaning`, what the chain
ought to write, is that of fresh codecs, one after the other, of the whole
input. For the newline codecs, the block encoders, ascii85, the lines of
uuencode and the checksums, `Meaning` is a definition of its own that knows
nothing of pieces (the checksums in closed form). For the escape codecs, the
other decoders and bubblebabble it is what `transform` answers when it sees the
whole rest with more than enough room: there the runs show that the pieces make
no difference and that decoding undoes encoding, and the known answers of the
repository's tests (`KnownAnswers` in `MCFramed`) tie the values down.

`Due` says what is due of each stage in a state: the meaning, for its codec, of
its window, of what the `BufReader` below holds and of what is due of the stage
below; `Owed` is `Due` of the present state. Two properties are about codecs and
one about the code between them:

* `KeepsContract`: each answer keeps the `Contract` of module `Codec`;
* `Streams`: a codec that is told of the end only when nothing comes any more
  makes what is due, its answer first and then what it makes of the rest;
* `Balance`: what was written and what is due are the meaning, no stage is told
  of an end before it has everything, and a window is full at the end only.

### Registry and Chain

A text is a sequence of characters in which a word (a name, a key, a number) is
one member, since nothing looks inside of a word; only the characters that the
parser looks for are members of their own, and `Wide` are those of more than one
byte, at which `&unit[0..1]` and `&s[s.len() - 1..]` panic. `Usize` gives the
number that `parse` finds in a text, if there is one. `Split` is `str::split`:
pieces between the ordered places of the separator, without recursion.
`UnitError` holds the checks of `parse_unit` in their order, `ParseUnit` the
step, `Collect` the map in which a later key replaces an earlier one.
`ParseError` is the first error in the order in which the units are looked at,
the order of the steps: `iter.rev()` is lazy, so with `--reverse` the last
unit's error comes first.

`Refusal` lists what the factory of each codec refuses, in which direction, and
`Settings` the record, one of the codecs' modules, that it makes. A parameter
that a factory does not look at is ignored, as in the code.

### Muter

`pc` says where `main` is: the options, the files, the making of the codecs, the
copy, over. An action is a step of `create_chain` (`ReadOptions`, `Open`,
`OpenFail`, `ParseChain`), of the fold in `Chain::build` (`Create`,
`CreateFail`), or of `io::copy` (`Write`, `WriteFail`, `Retry`, `Succeed`,
`CodecFail`, `ReadFail`). Every way out goes through `Exit`: the rest of the
output that the `LineWriter` holds is flushed when the process ends, and nobody
looks whether that worked (`lost`); the message goes to stderr, and `eprintln!`
panics when stderr does not take it (`mute`). `shown` is what has left the
program: at least everything up to the last newline. The system may fail at each
open, read and write; a closed pipe is status 141. `faults` and `reply` are
histories.

`parsed` and `meaning` are functions of the command line. They are variables that
`Init` sets, so that TLC computes them once and not at every state; an action
that looks at them looks at what the code computes at that point, and `Wrong` and
`AllOrNothing` rest on the order in which it does. Nothing is promised of the
output when a codec rejects the input (`Malformed`), when the chain is not made,
or when `--buffer-size` is below `Roomy`, which is more than any codec of the
runs needs: the man page leaves such sizes to the user.

### The codecs

A codec's loop over its window is a recursive function over the input, or a
fold when it is uniform; the tables of the code are sets and short functions of
the byte (`Unreserved`, `QpPlain`, `VisTable`), with the alphabets of the
block codecs reduced to digits of a number of bits. All block encoders are one
function of the group's bits, `Regroup`, with the paddings and limits of
`PaddedEncoder` around it, as in the code. An index out of a slice, a panic in
the code, is the answer `Panic`. A cell of the output that is handed out but
was never written holds `Unwritten`, which is no byte. ascii85 computes with 32
bits as two halves of 16; the length of a line of uuencode is a constant,
`UuLine`, 45 in the code and 6 in the runs, because nothing but the window
depends on it. A hash function is a constant operator, `HashByte`: the runs
take one that tells all their inputs apart.

### Mutants

Definitions with a comment that begins "A slip" are not part of the model: each
changes one definition the way a plausible mistake in the code would. They show
that the properties notice.

## 3. What is checked

| Run | Instance | What it shows |
| --- | --- | --- |
| `reader` | window 3, source of 5, slices of 1 to 3 with `buffer_size` 2, `Need` 2, 3 bytes of output | the properties of section 1, the inductive invariant, the refinement of `ByteStream`, and that the loop ends |
| `reader_toolow` | window 2, `Need` 3 | **violation**: a buffer too low ends with success, not with an error |
| `newline` | all newline codecs, and chains of two and three, every input of up to 5 bytes of CR, LF and a letter, `--buffer-size` 4, `io::copy` 8 | any way the input arrives, the output is what it should be, every byte is accounted for at every step, it comes as one stream (`Delivery`), and the chain ends |
| `newline_crlf` | `crlf` alone, slice no longer than its input | **violation**: bytes are written twice |
| `codecs` | all block and escape codecs there and back through two stages, `--buffer-size` 8 and 9; decoders on texts with foreign characters, folded lines, cut and meaningless escapes | round trips, the output does not depend on the pieces, each answer makes what is due, no false alarm, malformed texts are rejected |
| `codecs_badchar` | one foreign character in a chunk of strict base64 | **violation**: accepted |
| `framed` | ascii85 (also bare), uuencode and bubblebabble there and back, lenient with blanks, strict on texts cut at every place or changed at one; the digests; `--buffer-size` 12 and 13 | as `codecs`, and that what marks the begin and the end, the checksum and the digest come once |
| `framed_suffix` | ascii85 of 16 bytes with `--buffer-size` 16 | **violation**: fails with `ExtraData` |
| `framed_zeros` | ascii85 of up to 24 zero bytes, there and back | **violation**: zeros are lost |
| `codecs_variant` | `base64(nopad)` and `url64(pad)` with the decoder that has the default | **violation**: the last block comes out whole |
| `framed_hashlength` | BLAKE3's way of reading with chunks of 2 and lengths 3 and 5 | **violation**: a byte that was never written is handed out |
| `muter` | every chain of up to four symbols; every codec with up to two parameters, known, unknown, with and without values; chains of two of 20 units and one of three; `--strict`, buffer sizes, no file and two, three; with and without `--reverse`; failing opens, reads, writes, flushes and messages | nothing is written before everything is checked, the status says what happened, only the last line can be lost, `--reverse` mirrors a chain and undoes it, both spellings are the same step, `Invocation` is implemented, and the program ends |

The bounds are small because the hazards are about boundaries: the window of
`reader` is filled, emptied and moved several times by a source that is longer
than it, and its codec needs two bytes, so that both an incomplete and a
complete sequence can be left in it. In the pipelines the window and the slices
are a few bytes more than the longest unit of the codec (an escape, a block),
so that units fall across every boundary there is, and the inputs are longer
than the window. The bytes are those the code tells apart. `BufSizes`,
`CopySize`, `SourceLimit`, `OutLimit` and `UuLine` are all bounds there are; in
`MCCodecs` the texts of escapes have up to `SourceLimit \div 3` pieces, or
`SourceLimit \div 4` where the alphabet has more than three, in `MCFramed`
the lenient texts stand for `SourceLimit \div 2` bytes, and the round trips of
zeros stop there too, below the length of `framed_zeros`. The sizes 12 and 13 of
`framed` are also sizes at which the suffix is not written too early:
`framed_suffix` shows one at which it is.

`muter` has 373,000 states, nearly all of them from its command lines: behind
`Init` an invocation has few steps. `TextLimit = 4` is the shortest length at
which a unit can have a sign, a name and both parentheses, or a comma with a key
behind it, or two units with an error each; longer units come from the chains of
real codecs. `Cuts = {1, 2}` bounds the places at which a read or a write may
stop short, which is enough to cut in front of, behind and between newlines.
The flate2 codecs are `Inflate`, something that can be undone and that can
reject its input.

`Meaning` follows the code where a run is not about the disagreement, for
example `wrap` drops blank lines. Once `lf` or a digest has ended, any input
more has no meaning: it is `Malformed`.

`CHECK_DEADLOCK FALSE` is set because the program ends: after a reply other than
data and `Interrupted` nobody reads again.

Fairness, where a run has a liveness property (`Drains`): weak fairness of the
code that simply runs (a caller that keeps reading, a codec that answers), and
strong fairness of the source's read, since an interruption between two reads
disables it again and again, but an operating system that always interrupts is
not assumed. A failed read ends the run and so is no obstacle. For `Exits` of
`Muter`: weak fairness of `Progress`, all that `main` does by itself. Failures of
the system and interruptions are not in it, they need not happen; and as an
interruption does not disable `Progress`, weak fairness is enough.

### Disagreements

Seven runs show the code doing other than a doc or comment says;
`PROJECT.json` quotes each. In short:

* `mod.rs:283`: a window that is too small ends well rather than fails;
* `crlf.rs:51`: `crlf` iterates over all of its input instead of the `n` bytes
  it has room for;
* `helpers/codecs.rs:281`: a strict decoder sums a `-1` it ought to look for;
* `helpers/codecs.rs:401`: `AffixEncoder` writes its suffix before the encoder
  is done;
* `ascii85.rs:211`: text in front of `~>` for which there is no room is dropped;
* `hash.rs:285`: the last chunk of BLAKE3 is handed out whole;
* `helpers/codecs.rs:218`: a decoder that expects padding does not accept a text
  without.

Smaller ones, met on the way and not run: `-hex` drops an odd digit at the end
and `swab` a partial chunk, with success; `-crlf` indexes past the byte it hands
out when the input ends with a CR (`crlf.rs:115`, `muter.adoc:116`); `wrap` with
length 2 leaves itself no room, writes nothing and succeeds (`wrap.rs:98`,
`muter.adoc:188`), with length 3 loses the end of an input if what it takes of
the last window is blank lines only (it answers Ok with no output, which the
reader takes for the end), and drops blank lines (`wrap.rs:109`); the escaping encoders
stop one byte above the `buffer_size` they announce, and so an inner stage of
exactly that size is another case of `mod.rs:283`; `xml.rs:154` wraps around for
outputs below 4; the last line of uuencode needs 64 bytes of output where
`buffer_size` says 62; a short line of uuencode that is not the last one in its
window shifts what is behind it; `-ascii85` accepts a text that begins with `<~`
and never ends; whether `ascii85` writes `z` or `!!!!!` depends on how its input
is cut; `-bubblebabble` accepts an `x` among the consonants; a parameter unknown
to `hash` or `checksum` is an error where `muter.adoc:23` says that such are
ignored; `base16` ignores `lower`, `uri` and `form` ignore a parameter that is
not theirs without a word.

## 4. What is proved

### CodecReader

The theorems of `CodecReaderProofs` hold for all values of the constants that
satisfy `ReaderAssumption`, that is for all sizes of window, source, slices and
output, and every codec of the contract.

* `TypeCorrect`, `WindowHolds`, `SourceShownInOrder` need `RefusalsAreEmpty`.
* `ReaderInvariant`, `FinishNeverEarly`, `FinishStaysFinished`, `EndIsTheEnd`,
  `ReaderImplementsStream` need `BufferHoldsNeed` as well: `Need <= BufSize`.
  `reader_toolow` shows why.

`ShownInOrder` speaks of the moment at which `transform` is called and is not
inductive. The invariant is `Inductive` (`ReaderInvariant`), a conjunction of
four parts:

* `TypeOK`;
* `Window`: at every moment `eaten + off + got = pos` and the visible part of
  `buf` holds the bytes `eaten + 1` on. `Fill` extends it, `Settle` moves it:
  these two are the proof's substance, about the array and the shift of it;
* `RoomToRead`: before `Finish`, obj.read is given a slice that is not empty.
  A codec that is shown a full window takes something, because
  `Need <= BufSize`; so a read of 0 bytes is the end of the source;
* `Calling`: `dst > 0` while a call runs, because `buffer_size` is not 0.

Each part has a lemma for each group of actions. From it follow the safety
properties, and, with `EndMeansEnd`, that every step of the reader is a step
of `ByteStream` or leaves it alone.

### Pipeline

The theorems of `PipelineProofs` are about all chains, buffer sizes and inputs,
and every way the source delivers or fails; `PipelineAssumption` leaves out
chains without a codec and buffers of 0 bytes, in which every codec sees the end
at once (`reader_toolow`). The codecs are constants, and the theorems have the
form `Spec /\ []KeepsContract /\ []Streams => ...`, `TypeCorrect` without
`Streams`: they assume of the answers given while the chain runs what the runs
check of the real codecs. The next section replaces that by a statement about
each codec.

The invariant is `TypeOK /\ Balance`. `Paid`, that what was written and what is
due of the last stage are the meaning, is what the properties follow from, but
no step keeps it by itself:

* `Streams` speaks of a codec that is told the truth about the end. A codec is
  told of it when `obj.read` returns 0 (`AtEof`), which happens when the stage
  below has ended, and also when the slice is empty because the window is full.
  `Told` covers the first case, `Open` the second; `NothingLater` puts them
  together.
* `Open` holds because a codec consumes something of a full window
  (`KeepsContract`), and because a stage whose input has ended is owed nothing
  by the one below (`WindowAfter`).
* A round changes the codec and the window of one stage, and moves bytes past
  it. `RoundOwes` shows that what is due of the stages below stays and that of
  the stage is due what `Streams` says. From there up nothing changes
  (`OwedAgrees`): an answer that is passed on is no longer due of the stage, but
  in the `BufReader` of the next one (`PassBalance`), which was empty (`Quiet`).

`NothingIsLost` is `[]Balance`, `WholeMeaning` and `OnlyMalformed` follow at
once, and `Refinement` says that each step is one of `Delivery` or invisible to
the reader. That the recursion of `Due` has a solution (`DueExists`) and that two
states with the same upper stages owe the same are inductions over the stages,
done by the least stage for which it fails (`HasLeast`).

### Codecs in a chain

`KeepsContract` and `Streams` speak of a chain that runs: of the answers in the
states it reaches. `StreamingProofs` derives them from `AllReliable`, which has
no variable in it. A codec streams alone (`StreamsAlone`) for a window and a
slice when there is a set of codecs with their windows that

* contains it as its factory makes it,
* answers well for each member, whatever comes fresh and whatever comes later:
  what is due of all of it is what is made and what is due of the rest, within
  the contract, and with nothing made at the end nothing is due (`Tells`),
* and is never left by such an answer (`Stays`).

This holds only of a codec that is told the truth about the end, and only for an
input that means something. For a chain that may be given a malformed input
`AllReliable` asks of its codecs as well that their answers to anything stay
within the slices (`ContainedAlone`).

The invariant is `Sound`: `TypeOK`, `Balance`, `MeansSomething` (the meaning is
bytes, or `Malformed`), and `StagesReliable`: the codec of every stage is still
in such a set, of the second kind if the input is malformed, when a stage may be
shown what has no meaning for it. `KeepsContract` and `Streams` do not follow by
themselves: that a codec is told the truth about the end is a consequence of
`Balance`, and the proof of `Balance` needs `Streams` of the step before. So the
step is proved for all of them together: in a state of `Sound` the answers are
as they should be (`ReliableKeeps`, `ReliableStreams`), so the next state has
`TypeOK` and `Balance` by the lemmas of `PipelineProofs`, and `StagesReliable` by
`Stays`.

`ContractKept` and `AlwaysStreams` are `Spec => []KeepsContract` and
`Spec => []Streams` of chains of reliable codecs, and `ReliableChains` is
`WritesTheMeaning`, `NoFalseAlarm` and `ImplementsDelivery` of them, with no
hypothesis about how the chain behaves.

### Newline codecs

`NewlineProofs` shows that the codecs of `NewlineCodecs` are reliable, for every
input, every way it is cut, and every buffer that suits them. The theorems
(`NewlinesKeepContract`, `NewlinesWriteTheMeaning`) are about chains of any
length of these codecs (`OfNewlines`, which asks of the constants only that a
codec with one of these names is the one of `NewlineCodecs`; `AllSuit`). `Suits` says which window
`size` and which slice of `room` bytes each needs:

| Codec | Needs | Otherwise |
| --- | --- | --- |
| `identity`, `-wrap` | nothing | |
| `lf` | `2 <= room` | `BufError`, `SmallBuffer` |
| `crlf` | `2 * size <= room`, `3 <= room` | bytes are written twice (`newline_crlf`) |
| `-crlf` | `2 <= size`, `size + 2 <= room` | its limit lies in the window, where it takes a CR for the last byte |
| `wrap` | `2 <= room`, something it may fill (`WrapRoom`), and at most twice that in the window | it takes nothing, or loses what is left at the end |

With the sizes muter has by default, 65536 for `size` and for the `room` of an
inner stage, `identity`, `-wrap`, `lf`, and `wrap` with lines of 4 bytes and more
suit. `crlf` and `-crlf` do not, because they are wrong there (section 3): the
table is what the disagreements leave. Not that every window outside of it goes
wrong, though; `-crlf` for one is right when no CR comes to lie at its limit.

The codecs without a state that take all they are shown (`identity`, `-wrap`,
`crlf`) stream as soon as their meaning is a homomorphism (`TakerStreams`),
and that is what `FlattenJoin` and `PiecesJoin` show of anything `FlattenSeq`
makes of bytes one by one. The others need the set of what they may be:

* `lf` (`LfCodecs`): with a byte held back, or none and an empty window. What it
  means looks at the last byte only (`EndedBehind`), so the held byte can be
  written once another one is there.
* `-crlf` (`UncrlfCodecs`): its window is empty or one CR. `ScanFinds` is an
  induction from the end of the window backwards: the scan's answer and the
  meaning of what it left are the meaning of all of it, for any `later`.
* `wrap` (`WrapCodecs`): at some column of a line, with a window that is empty or
  so full that `WrapRoom` more bytes would not fit. `LinesStep` bounds what it
  adds: a newline stands behind as many bytes as a line has, counted from the
  column where it began, so that `L * (made - taken) <= taken + from - to`;
  `WrapFits` concludes that its reserve is enough, the byte that `process_chunk`
  slices and does not use included. `LinesMean` shows that the codec, which only
  remembers a column, and `WrapMeaning`, which looks for the last newline and
  divides, agree (`ColumnNext`, `ModNext`).

Inductions over the bytes of an input are done as for stages: by the least
length at which a claim fails, or, as `AllGrow` states it, by a set of sequences
that has the empty one and with each all that are one longer. The recursive
functions of `NewlineCodecs` and the `FlattenSeq` of the community modules are
`CHOOSE`s, so there are lemmas that a function with the recursion exists
(`FlatExists`, `ScanExists`, `LinesExist`).

### Block codecs and digests

`CodecProofs` does the same for `hex`, `base16`, `modhex`, `base32`,
`base32hex`, `base64` and `url64`, as encoders and as strict decoders, for
`swab`, and for `hash` and the checksums. Its theorems are about chains of any
length of these codecs and of the newline codecs, one after the other as they
come (`OfCodecs`). They need

* `AllFit`: each stage can be shown a block and has room for what becomes of
  one, whichever direction; a checksum has room for its result, a hash for a
  chunk of it. The default sizes are enough for all of them. What `size` and
  `room` a newline codec needs is in the table above.
* `AllMean`: what a stage is given means something to it. `OneWayMeans` shows it
  of chains without decoders and `swab`. It is needed because a rest of a pair
  or of a block at the end of the input is answered by `Ok` with nothing taken
  or made (`hex.rs:172`), which the contract does not allow; only for an input
  that is well-formed does the contract hold.
* `HashesBytes`: the bytes of a hash are numbers. Nothing else is known of the
  hash functions.

`CodecsKeepContract` and `CodecsWriteTheMeaning` follow by `StreamingProofs`
once each codec is shown to stream alone (`FitStreams`):

* A codec without a state needs no set but itself (`Steady`). What it takes ends
  with a whole block, and what is behind whole blocks is encoded
  (`EncodeBehind`), decoded (`DecodeBehind`) or turned around (`BackwardsJoin`)
  for itself. Under the bases all of this is one fact about digits and bits:
  digits that fill whole digits of the other width can be cut off
  (`RegroupJoin`).
* The last block of an encoder is padded, and the telling characters of it are
  the first ones of its block (`FillBehind`, `LastBlockEnds`). A strict decoder
  finds the padding in the block in which the input ends, and nowhere else
  (`DecodeFill`); what `bytes_to_trim` takes away are the bytes that the zeros
  of the padding stood for (`TrimIs`).
* `ChunkedDecoder` computes each chunk with sums and carries, from its last digit
  to its first one. `ChunkSums` shows that for digits nothing is carried and the
  chunk is its digits, regrouped; `ChunksCome` that this goes on from chunk to
  chunk.
* The checksums reduce both sums at each step, or each call; the meaning reduces
  once. `Same`, the numbers a modulus does not tell apart, is kept by sums
  (`SameSum`), so where the input is cut does not matter (`ChecksumGoesOn`), as
  long as `fletcher32` takes whole words (`WholeWords`).
* `hash` answers a chunk of the result at a time, of which those before are the
  part that is no longer due (`DueIsCut`).

`ThereAndBack` is `RoundTrips`, for an encoder and its strict decoder with the
same padding, and any letters it accepts; for `swab` twice on whole blocks; for
`wrap` and its decoder on inputs without newlines; and for `identity`. A chain
writes what it means, so this is a statement about meanings (`AllUndone`,
`UndoneMeans`). For the bases it is `EncodingReadsBack`, for bytes of every
length: bits written as digits and cut into digits again are the bits
(`RegroupCuts`), each digit has a character of its own that reads as it
(`DigitIs`), and what pads the last digit is less than a digit (`TellingIs`), as
strict decoders demand. The recursive functions, `Binary`, `Sums` and the
carries, are again handled by lemmas about every function with the recursion.

### Chain

The theorems of `ChainProofs` are about texts of every length. They need
`WideAssumption`: the characters that the parser looks for have one byte each.

* `CommaOrParentheses`: a unit with a comma, and the unit with parentheses in
  its place, are the same step. The substance is `RewrittenIs` and `SameParts`:
  where name and parameters begin and end in both, character by character.
* `ReverseFlips`: under `--reverse` a list of units has the errors and the steps
  of the list with the other signs.
* `EveryTextMirrors`: so `--reverse` does with a text what it would do, without
  it, with the text written the other way round: every unit with the other sign,
  and the units turned around. That text is put together by `Join`, and the
  parser takes it apart again: the substance is `SplitJoin`, that `Split` undoes
  `Join` for pieces without the separator. `AllLaid` says where every piece lies
  in the joined text, `CutsAreEnds` that the separators are at their ends and
  nowhere else, and `NthIs` that the places of a set in order are the only
  rising enumeration of it. The pieces are clean because `Split` made them of a
  text (`SplitIsClean`) and a sign is no separator (`FlipIsClean`).
* `SplitIsSequence`: `Split` returns texts, one more than there are separators,
  which is what `Muter` builds on.

`Split` orders the places of the separator by their rank, the number of places
in front of them. That each rank below the cardinality belongs to a place
(`RankExists`) is an induction; as the provers cannot use the induction
theorems, it is by the least rank that nobody has (`HasLeast`, from the
well-foundedness of `<`), which contradicts `RankStep`.

### Muter

The theorems of `MuterProofs` hold for every set of command lines whose chains
and files are sequences (`LinesAssumption`), every `Usize` and `Cuts`, and every
`Meaning`. `TypeCorrect`, `OnlyTheLastLine` and `Refinement` say
`Spec /\ meaning \in Seq(Int) => ...`: what the codecs make of the input is
bytes. That is a statement about `Meaning`, a constant of which nothing else is
assumed; as `meaning` does not change it speaks of the first state only.

The invariant is `Orderly`: for every place where `main` can be, what it has
done on the way. The codecs made so far are those of the first steps and none of
those was refused (`FirstSteps`); while it copies, and once there is output, the
files are open, the chain was right and all of it was made (`Ready`).
`AllOrNothing` alone is not inductive: `Write` keeps it only because of what
`ReadOptions`, `ParseChain` and each `Create` before it had checked, which
`Orderly` carries along.

* `NothingBeforeAll`: from `Orderly` at once.
* `StatusIsTruthful`: nothing happens after the end, so it is enough to look at
  each step that ends the program: a lemma for each kind (a refusal, the good
  end, errors of the codecs, of the system), above what `Exit` does to any status
  (`ExitFacts`).
* `TypeCorrect`, `OnlyTheLastLine`: `Typed` adds the ranges, and that no newline
  is behind `shown`, which is the last newline's place at least
  (`LinesEndIsLast`, `NoneBehind`).
* `EverySyntaxTheSame`: from `CommaOrParentheses` and `SplitIsSequence`.
* `EveryChainMirrors`: from `EveryTextMirrors`; the chain of a command line never
  changes (`LineStays`).
* `ReverseUndoesAll`: for a chain of every length, if each of its codecs is undone
  on what it made (`EachUndone`), then with `--reverse` the chain is. The
  hypothesis is about one codec and one text at a time; that the steps are those
  of the chain, in the other order and each the other way (`StepsTurned`), that
  each of them can be made with the same parameters (`MadeBothWays`), and that
  they undo the chain from its end (`BackAgain`) is proved. For the codecs of
  `BlockCodecs` the hypothesis is `EncodingReadsBack`; for `crlf` and `lf` it
  depends on the input, which is why it speaks of the inputs at hand. TLC
  finds it true of every command line of the run `muter`.
* `Refinement`: each step of `Muter` is a step of `Invocation` or leaves it
  alone; the output only grows (`Delivery`), and status 0 is given only behind
  `Finish`.

### Only model-checked

* That the loop, the chains and the program end (`Drains`, `Exits`): liveness is
  out of the prover's reach.
* That the escape and framed codecs, and decoders that are not strict, are
  reliable: `KeepsContract` checks that they keep the contract and `Streams` that
  they make what is due, on the windows the runs reach. Each of the first needs
  an induction over its input like those for the newline codecs. A decoder that
  is not strict is reliable only for inputs that do not fill a window with
  characters to ignore (`helpers/codecs.rs:471`), which is a condition on where
  each read stops.
* `RejectsMalformed`, which is about what a decoder does with an input that means
  nothing. It does not hold of all of them (`codecs_badchar`), and `hex` and
  `swab` end quietly on a rest of a block.
* `RoundTrips` of the escape and framed codecs, and `EachUndone` of them.

## 5. Not modelled

* clap's parsing of the command line, `--help`, `--version` and the list of
  codecs with its formatting (`main.rs:84-133`), and the wording of errors. A
  command line is what clap makes of it.
* The hash functions and flate2, which are external. `HashByte` and `Inflate`
  stand for them; the adapters for flate2 keep no state of their own. That
  gzip's decoder reads the header when it is made, at build, is in the library's
  hands.
* A closed standard output: the standard library takes the error `EBADF` for
  success, so that muter then exits with 0.
* Numbers are words: how `parse` reads their digits is the library's.
* The helpers of the tests (`src/lib/codec/tests.rs`).

## 6. Plan

1. Done: `Codec`, `CodecReader`, `ByteStream` and the proofs.
2. Done: `Pipeline` with `NewlineCodecs`.
3. Done: `BlockCodecs` and `EscapeCodecs`.
4. Done: `FramedCodecs` and `DigestCodecs`.
5. Done: `Registry`, `Chain`, `Delivery`, `Muter`, `Invocation`, and the proofs
   about `Chain` and `Muter`.
6. Done: `Streams`, `Balance` and the proofs about `Pipeline`.
7. Done, proofs: what a codec must do by itself for a chain to work
   (`StreamingProofs`), that the newline codecs do (`NewlineProofs`), the
   reader's invariant, and `--reverse` for every chain.
8. Done, proofs: the block codecs and the digests in a chain, round trips, and
   what `--reverse` undoes (`CodecProofs`, `MuterProofs`).
9. Left, proofs: the same for the escape and framed codecs, and that a stage of
   `Pipeline` is a `CodecReader`.

# Codrop: TLA+ models and proofs

Codrop compresses data into `.cdp` containers. This directory models the part
of it that decides whether data survive: the streaming encoder and decoder,
the wire between them, the choice of a codec, the checksums, the codecs RLE,
LZF, LZH and LZA, the prefilters, the bytes of a container, and the programs in
front of the library: the command line and the callers of the C ABI. TLC
checks the models on small instances. For every instance TLAPS proves 31 of the
33 safety properties that TLC finds to hold, all but the optimality of Huffman trees and
what the CRCs detect: the encoder's accounting of its input and the container that
`finish` leaves, the decoder's limit on its output, that the two ends with a wire
between them implement a lossless stream, the bounds of the match finders and of
the decoders of LZF, of RLE blocks, of descriptors, of the symbols of LZH and LZA
and of the prefilters, that each of these and both entropy coders decode what
their encoders wrote, what they make of a truncated payload, that the reader of a container accepts
nothing but a whole one, that no command loses data, and that callers of the C
ABI free what they are given, save for Node's if its copy fails. Six more runs
each end in a violation of what a document of the repository says.
`PROJECT.json` lists runs, mutants, theorems, hazards and, for every definition
that models code, the lines it models.

Check a model with `tlc -config StreamEncoder.cfg MCStreamEncoder`, a proof
with `tlapm StreamEncoderProofs.tla`.

## Inventory of the system

Paths are relative to `src/libcodrop/src` unless they begin with `src/`.

| Component | State | Operations | Talks to | Correct when |
|---|---|---|---|---|
| Encoder (`streaming/encoder.rs`) | buffer, hasher, header_written, finished | `new`, `write_chunk`, `finish`, internal `flush_block` | a `Write`; the codecs; CRC-32C; StreamHash64 | the wire is a container of what was digested, however the input was cut; no block expands; calls return |
| Decoder (`streaming/decoder.rs`) | header, hasher, total_decompressed, stream_finished | `new`, `decode_next_block`, `decompress_to` | a `Read`; the codecs | only verified bytes, below the limit; clean end only at a verified end; terminates on any input |
| Container (`format/*.rs`) | none (byte layouts) | write and read of stream header, block header, sentinel | encoder, decoder, CLI `inspect` | reading inverts writing; every malformed header is refused |
| Codecs (`codec/raw, rle, lzf, lzh, lza`) | per call: positions, match tables, output | `encode`, `decode(expected_len)` | called per block | decode inverts encode; decode never exceeds `expected_len` nor reads behind its input |
| Entropy coders (`entropy/*.rs`) | code lengths, ANS state, bit buffers | table building, symbol coding | LZH, LZA | prefix codes satisfy Kraft; tables of the two directions are inverse |
| Prefilters (`prefilter/*.rs`) | dictionary of tokens | analyse, extract, substitute, invert, delta | encoder (try), decoder (invert) | inversion restores the block; only pays when smaller |
| Checksums (`checksum/*.rs`) | StreamHash64: state, total_len, buf, buf_len | `update`, `finalize`, `compute` | both ends | digest independent of how the data were cut |
| Library and C ABI (`lib.rs`, `ffi.rs`) | caller-owned buffers | `compress`, `decompress_with_limit`, `codrop_*` | bindings | each buffer freed once, with its own length; a limit of zero means the default |
| CLI (`src/codrop-cli`) | none | compress, decompress, inspect, image | encoder, decoder through files and pipes | no call loses the data it was given; exit codes tell what was wrong |
| Bindings (wasm, Dart, Python, Node) | output buffers | compress, decompress | C ABI | levels mean what they say; results copied and freed |
| Image codec (`image_codec.rs`) | none | re-encode an image | image crate | refuses nothing but what is no picture |

The library is single-threaded. What is hard in it is not threads but: an
encoder and a decoder that run at the two ends of a pipe in any interleaving;
writes that fail half way and leave the encoder usable; wires that end early or
are damaged; callers that cut the input anywhere or call again after an error;
and byte-level codes with boundaries at 15, 18, 255 and 2^16 that ordinary data
seldom reach. The hazards are listed one by one in `PROJECT.json`.

## Modules

| Module | Models |
|---|---|
| `Container` | the cells of a wire: stream header, block header, payload, sentinel, checksum, and what a failed write leaves of one |
| `BlockChoice` | the three cascades of `flush_block` that choose a codec, over the candidates' sizes |
| `StreamEncoder` | `Encoder<W>`: one action per piece of work between two writes |
| `StreamDecoder` | `Decoder<R>`: one action per read of a cell, over a wire that the environment owns |
| `LosslessStream` | abstract: what compressing into a channel and decompressing from it promises |
| `CodropPipe` | composes encoder and decoder over a wire that can be cut and damaged |
| `LzfCodec` | the LZF encoder and decoder, one turn of a loop or one field of a token per action |
| `LzSymbols` | what LZH and LZA share: the tokenizer with lazy matching, the symbols for lengths and distances, the decoding loop |
| `BitStrings` | operators: powers of two, numbers as bits |
| `Huffman`, `Ans` | operators: tree, limit, canonical codes, table; normalisation, table, step of the ANS coder |
| `EntropyCoding` | a block of symbols through either entropy coder, one turn of a loop per action, and its bits |
| `RunCodes` | the layouts that shorten runs: RLE blocks, the code lengths of LZH, the frequencies of LZA, byte by byte |
| `PrefilterTokens` | operators: what is JSON and what is text, the tokens of either, the choice of a dictionary and of an escape byte |
| `Prefilter` | `try_encode_prefilter` and `decode_prefiltered_payload`: one action per attempt and per turn of the loops that substitute, read a table and invert |
| `ContainerBytes` | the bytes of stream header, RAW block, sentinel and checksum, CRC-8 and CRC-32C, and a reader with one action per `read_exact`, as the decoder and as `inspect` use it |
| `FrontEnds` | the command line and the Python, Dart and Node callers of the C ABI: files, standard streams, levels, limits, exit and return codes, ownership of buffers; extends `ContainerBytes` |
| `StreamHash` | `StreamHash64`: the leftover buffer across calls of `update` |
| `MC*` | inputs and bounds for TLC; `MCDecoding`, `MCLzLayers` and `MCByteFormats` put components that share no state side by side in one run |
| `StreamEncoderProofs`, `StreamDecoderProofs`, `CodropPipeProofs`, `RunCodesProofs`, `PrefilterProofs` | theorems about the module of that name |
| `ComponentProofs` | theorems about `LzSymbols`, `StreamHash` and `FrontEnds`, which share nothing but lemmas |
| `CodecProofs` | theorems about `LzfCodec` and `EntropyCoding`, with the lemmas on sums, powers of two and bits that the latter needs |
| `SliceLemmas` | lemmas on slices and prefixes of sequences, on quotients and remainders, on copies that run into themselves, on the least number with a property, and on recursion and induction over intervals |

How state maps to code: variables carry the names of the fields and locals
they stand for (`buffer`, `headerWritten`, `streamFinished`, `ip`, `anchor`,
`cursor`); `pc` says where in the running call the program is, so that one call
of `write_chunk` is a sequence of steps with a write of W between two of them.

Abstractions. A payload carries the bytes it decodes to; a checksum is the data
it was computed over, so it matches only those data; a codec is the size it
reaches on a block, chosen freely for every block; the 64-bit hash state is the
sequence of words mixed into it. A damaged cell, or one read at the wrong
place, parses as anything the parser can accept: another block header with or
without a checksum, a sentinel, or an error; its payload decodes to garbage of
the declared length, or fails. A stream header is covered by a CRC-8 and is
refused when damaged. `ContainerBytes` takes the opposite side: there the
bytes and both CRCs are the real ones, damage is a flipped bit or a cut at a
byte, and only the 64-bit stream digest stays a function of the data.

Of the bytes of a block, `Prefilter` tells apart what the tokenizers do: sixteen
values with blanks, ends of lines, quotes, brackets, a control character, and
one that is not UTF-8. The entropy-coded part of a payload is the transformed
data themselves, of any size the backend may reach; they are delivered if their
length is the declared one. UTF-8 is reduced to that one byte.

In `FrontEnds` all files of a directory have one stem and are named by their
extensions. A file records, for the properties alone, which data it holds and
in which form. Data are so short that every block is RAW, as it is in the code;
a flipped bit may turn a block into one of another codec, whose payload then
decodes to anything of the declared length or is refused.

LZH and LZA are modelled in three layers. `RunCodes` has the descriptors at the
head of a payload, with whatever follows them. `LzSymbols` takes the entropy coder as
a carrier of symbols; of the coder it keeps what reading behind the end gives: a
Huffman code is looked up in bits padded with zeros and an ANS symbol may take
no bits at all, so that the loop may see the same symbol for ever.
`EntropyCoding` takes every symbol for one byte and carries it bit by bit. The
extra bits of lengths and distances are a field of a symbol in `LzSymbols`: that
they stand between the bits of the states is in no layer. A
node of the Huffman tree keeps the symbols below it, whose depth grows by one
when it is joined, in place of the arena that the code walks afterwards; the
levels of the decoder's table are the sets of symbols an index leads to.

## Runs

| Run | Question | Bounds and why they are enough |
|---|---|---|
| `encoder` | Is every byte in one place, is the result a container, does nothing expand, do calls return? | 5 bytes in blocks of 2: slices straddle blocks, end on boundaries, and the last block is short; every level; candidates smaller than, equal to and larger than a block; one failing write, torn or not |
| `encoder_retry` | What if the caller goes on after a failed write? (violation expected) | one failure |
| `decoding`, decoder | Limit, clean end, termination on wires no encoder wrote | up to 2 blocks of up to 2 bytes, limit 3: each block fits, their sum need not; every disagreement of size, payload and checksum; missing, torn, wrong and trailing ends; callers that stop and callers that do not |
| `decoding`, prefilters | Is what the encoder returns decoded to the block? Does the output stay below the limit? | sixteen byte values, tokens of up to 12 bytes in the tokenizer and 8 in the table (48 and 32 in the code), two tokens per dictionary: blocks with keys, strings, words, repeated, nested in one another and too long, with and without a free escape byte, binary ramps; every order of the candidates' sizes; heads with every kind of metadata, complete, torn or contradictory, with limits below and above the output |
| `pipe` | Does a clean end mean the whole input? Does a finished stream arrive? Does the pipe implement `LosslessStream`? | 5 bytes, 3 blocks, a write error, a cut anywhere, 2 damaged cells of any kind; block and stream checksums written and verified |
| `lzf` | Round trip, and the decoder on arbitrary payloads | all binary data up to 10 bytes, quadruples repeated at distances of 12 to 17 and all payloads up to 6 bytes, with nibbles of two values: every length form, including two extension bytes and an exact multiple, distances at and beyond the largest offset (15), self-overlapping matches, hash collisions |
| `lz_layers`, LZ layer | Round trip through lazy matching and the symbol classes, and the decoding loop on arbitrary symbols and behind their end | the tables of the code; all binary data up to 9 bytes; runs and periods around the longest match (262), the last class (258) and the farthest offset (40); matches of 30 to 34 bytes one byte ahead of a longer one, around the lazy limit; all payloads up to 3 symbols of 11, with 8 ways to go on behind the end |
| `lz_layers`, entropy coders | Prefix codes, optimal trees, tables that fit, round trip, truncation, termination | 5 symbols, codes of 3 bits with 2 in the first level, tables of 16 slots, bytes of 4 bits: all messages up to 3 symbols; runs whose trees are a level too deep, whose shares exceed or fall short of the table, or that are rounded to nothing; every truncation to whole bytes; all code lengths up to 2 |
| `byte_formats`, runs | Round trip of RLE blocks and descriptors, with a payload behind them; truncation; the decoders on arbitrary bytes | bytes of 8 values, tables of 9 lengths and 2 distances and of 10 frequencies with 8 slots: runs of up to 18 (three bytes of a run length), runs of 8 to 11 lengths (two tokens, and across the tables), a table whose size needs the header's second byte, frequencies of one and two bytes; all payloads up to 3 bytes and longer ones of chosen bytes, with sizes 0 to 20; a usize of 32, in which run lengths and sums wrap, and one of 128, in which they do not |
| `byte_formats`, front ends | Is only a whole container decoded? What does a cut look like from outside? Are data lost, buffers freed? | data of up to 2 bytes, so that RAW is chosen; `Escape` 20 in place of 0xFFFF, as the flipped sizes lie on both sides of it; four kinds of stream header with every optional field; sizes from 2^28 are alike, longer than any input; two calls, or one and then one on the damaged file; every cut, every single bit, and every pair of bits in the header of one datum; the data do not begin as a container does (`FilesAssumption`), and no picture is its own output; every length a failing write can leave; limits of 0, 1 and more than the data |
| `byte_formats`, stream hash | Is the digest independent of slicing? | 8 bytes, words of 3, any slices: a leftover filled by one or by several slices, whole words and a new leftover in one slice |
| `run_codes_wasm` | Can no run length overflow the remaining size? (violation expected) | the runs of `byte_formats`, with the usize of 32 alone |
| `prefilter_reversible` | Is every block that is encoded decoded again? (violation expected) | the prefilters of `decoding` |
| `limit_code`, `eof_code`, `profiles` | Do the exit codes for the limit and for an end of file, and the level numbers, agree with the documents? (violations expected) | the front ends of `byte_formats` |

Three runs check several components that share no state. Each behaviour of such
a run has one component at work, and the others at rest in a state of their own
(not yet begun, or at their end), so that its states are the sum and not the
product of theirs; the modules of the components know nothing of each other.

`ImplementsLossless` is about the steps of `pipe` before a block header or a
sentinel is damaged (`FramesSpared`): no block checksum covers them, and a
header whose checksum flag is lost delivers garbage that only the stream
checksum refuses, at the end. `EndMeansComplete` of the same run shows that it
does. That the lossless stream is implemented without a stream checksum too is
only in the proof.

`lz_layers` shows a difference between the two coders. Of a payload that lacks
bytes at its end the ANS decoder delivers only symbols that were encoded and
never ends well without all of them. The Huffman decoder reads zeros there, and
may deliver other symbols and even end with the declared number of them; the
checksums of block and stream have to notice.

All sums of run lengths are taken modulo `usize`, which is the build's: of a
usize `UsizeAssumption` asks only that it holds the size of a block and is a
multiple of the weights, as any power of two of its size is. 64 bits are
`Roomy`: more than the longest run that five bytes can count plus the size of a
block. 32 bits, as in the WASM binding, are not: in a release build `out.len() +
run_len` (`codec/rle.rs:77`) can wrap, pass the check, and `resize` then cuts
what was decoded before. `byte_formats` checks both: `RunsOnlyAdd` says that
nothing is cut in a roomy build, nor in a narrow one when an encoder wrote the
bytes, and all other properties hold in either. `run_codes_wasm` shows the cut
on bytes that no encoder wrote. The mutant `WrapNarrow` counts in 16 bits, where
a block's own runs wrap.

The models are those of a release build. In a debug build a sum that wraps
panics, and so does `1 << exp` (`format/header.rs:55`) for an exponent of 32 or
more, which in a release build is shifted by the exponent modulo 32.

A comment in `limit_code_lengths` (`entropy/huffman.rs:162-163`) says that the
symbol with the smallest code length is lengthened; the code takes the longest
below the limit, and so does `Lengthened`.

Where the code does something else than the documents say, the front ends have
properties that hold of either: a limit is refused with some code of failure, a
cut in a header with that of malformed or of failing input. What the documents
say is stated beside them, and runs of their own violate it: see below.

`FlippedBitsAreNoticed` has an exception. Of two flipped bits in a stream header
CRC-8 detects every pair as long as the header keeps its length. One of them may
be a flag that adds or removes a field, so that another byte is compared: with
some pairs (the size flag and a bit of the dictionary's number) `inspect` accepts
the header by coincidence, where CODROP_SPEC.md:230 says that the CRC prevents
misread sizes and flags. The property therefore allows it there, and only with
a header whose length has changed; `decompress` refuses these containers at
their blocks. It is a property of its own beside `OnlyWholeContainersDecode`,
which is about containers that are whole, cut, torn or longer and does not rest
on which flips a CRC detects.

`EndIsVerified` is about callers that stop at an error, as `decompress_to` does.
One that calls `decode_next_block` again after a wrong or missing stream
checksum gets `Ok(None)`, since `stream_finished` is set before the checksum is
read; its doc comment calls that a clean end. No run shows this: the exception
is a precondition of the property.

`DataSurvive` has three exceptions, which are the code's: a call that is told to
write to its own input, `compress x.cdp` and `decompress x.decompressed`, whose
default output is their input. Then a write that fails leaves neither.

`BuffersAreFreedOnce` excepts Node: its package frees the result only if the
copy succeeded, Python and Dart in `finally`.

`Prefilter` and `FrontEnds` are checked for safety only.

### Disagreements with the documentation

Each is what one run finds violated, and a finding in `PROJECT.json` with the
line that it quotes. No passing run requires behaviour that a document
contradicts, so that all of them still pass when the code is corrected.

* `encoder_retry`: `finish` can answer Ok over bytes that are not a container
  after a failed `write_chunk` (CODROP_SPEC.md 11.1).
* `prefilter_reversible`: a JSON block whose best candidate has a token of 33 to
  48 bytes is encoded, and refused by its own decoder (`prefilter/json.rs:124`
  against `prefilter/text.rs:157`): the data are lost, where README.md:26 says
  that all inputs are reversible (`EveryBlockReturns`). `RoundTrip` says what
  holds beside that: no block is decoded to other bytes, and every one whose
  table is not too wide returns.
* `run_codes_wasm`: with a narrow usize a run length can cut what was decoded,
  where CODROP_SPEC.md:326 says that nothing overflows (`NoRunCuts`).
* `eof_code`: an end of file inside a header is `Io` and exit code 1, not
  `UnexpectedEof` and 2 (CODROP_SPEC.md:233, README.md:70;
  `CutsAreUnexpectedEof`).
* `limit_code`: the limit is exit code 2, not 4 (README.md:72;
  `LimitHasItsCode`).
* `profiles`: the level numbers of `include/codrop.h` and of all packages are
  not those of `ffi.rs`, so that every named profile runs as another one
  (`ProfilesAgree`). `include/codrop.h` also lacks the codes -5 and -6, which
  `ffi.rs` returns.

### Fairness

A call that has begun runs to its end (`WF(CallSteps)` in the encoder, weak
fairness of the decoder's next step, of the codec's next step): the code is
sequential and nothing suspends it but a read or a write. Whether the caller
makes another call, whether a write fails and whether the wire is cut or
damaged is never fair.

## Proofs

The proofs assume what the modules' ASSUMEs say of the constants and what the
theorem itself names, and nothing else.

`StreamEncoderProofs`, in four parts:

* `ChoiceIsBest`, for every level, block length and sizes. Each comparison
  keeps the smaller of two (`BetterKeepsSmaller`); the cascades chain up to six
  of them.
* `EncoderTypes` and `EncoderNeverExpands`, for every input, block size above
  zero, set of levels and of candidate sizes, and with or without retries. The
  invariants are not inductive: that the cell `WriteBlockHeader` writes is a
  block header, and a small enough one, was decided one step earlier. `IInv`
  adds what is true in between: a block to be flushed is not empty, and the
  pending header is a safe one by `ChoiceIsBest`.
* `EncoderAccountsInput` and, for callers that give the encoder up after an
  error, `EncoderFinishesContainer`. The invariant `AInv` has three phases.
  Before the header everything is empty (`Unwritten`). While blocks are written
  (`Filling`) the wire holds the full blocks of `hashed`, and buffer and `data`
  together are the rest of it; this survives `Fill` by associativity, and
  `WritePayload` because the front of that rest is the next block
  (`SplitSuffix`). Behind the last block (`Completing`) the wire is a prefix of
  the container; the number of blocks is the rounded-up quotient by `Quotient`,
  because only the block that `finish` flushes is short. The assumption on the
  caller is needed: `encoder_retry` shows what happens without it.
* What the other end needs of the wire: `CInv`, that a checksum behind a
  sentinel is that of everything digested, whatever errors there were, and
  `WInv`, that the wire alternates between headers and payloads of the blocks
  of `hashed` in order, the last cell perhaps torn. Both say more than the
  encoder's own properties do, as these speak of a finished stream only and a
  reader may overtake it. `HashedGrows` and `WireGrows` say that neither is
  ever taken back.

`StreamDecoderProofs`: `DecoderTypes`, `DecoderBombGuard`,
`DecoderEndIsVerified` and `DecoderNothingAfterEnd`, over any source. The
decoder module leaves the wire to its environment; `Environment` asks of it
only that it consists of cells and that what has been read does not change, so
that the theorems hold in the pipe, on damaged wires and on wires that no
encoder wrote. `IInv` relates the hasher to what was delivered, and the answer
of the last call to `streamFinished`.

`CodropPipeProofs` instantiates the two modules above and adds the channel
(`ChannelInv`): the encoder behind it is a source as `Environment` describes
it, since the wire only grows and only cells that were not read yet are cut or
damaged.

* `PipeEndMeansComplete`: with a stream checksum that is written and verified,
  Ok at the end of `decompress_to` means that exactly the digested input was
  delivered and the encoder finished, whatever was damaged or cut, after any
  errors of the writer. By `CInv` a sound checksum on the wire is that of
  everything digested; the decoder's `IInv` says that it equals what was
  delivered. The hypotheses are needed: a caller that calls again gets
  `Ok(None)` after a mismatch, and without the stream checksum nothing covers
  sentinel and block headers.
* `PipeImplementsLossless`: with blocks that carry verified checksums and with
  callers that stop at errors at both ends, and as long as damage has spared
  block headers and sentinels (`FramesSpared`; if it does after a step, it did
  before: `SparedBefore`), every step of the pipe is a step of `LosslessStream`
  or none. The encoder's half (`EncoderImplements`) is that `hashed` only grows
  and only before `finish`; the decoder's (`DecoderImplements`) that the block
  it delivers is the next one of `hashed`: it has read `2n + 1` cells when it
  has delivered n blocks (`HasRead`), `WInv` says what the next two are, and a
  payload whose checksum is sound is the one that was written (`InsideBlock`).
  `RetryAfterError` is excluded because a caller that goes on after a failed
  write has digested data that are on no wire.

`CodecProofs`, the LZF codec: `LzfTypes`, `LzfSearchLooksBack` and
`LzfDecoderStaysInBounds`, for every radix, both offset modes, every hash
function and table, all data and all payloads; `IInv` adds that nothing is read
before the encoder is done and that only a finished call has a result. Then
`LzfRoundTrip`. Its invariant `RInv` says that there is a sequence of tokens
that the payload spells (`Tokens`): each has a place in the payload and one in
the data, its bytes are those of its fields, and its match, if it has one,
repeats data that lie an offset before it (`Fits`). The encoder appends to that
sequence; the decoder is somewhere inside one token of it (`Reading`), with a
length partly read (`Extending`) or a match partly copied. That the fields read
are the fields written is arithmetic in the radix (`Nibbles`, `ExtensionBytes`,
`OffsetOfBytes`); that a copy that overlaps its own output restores the data is
`Repeats`.

`ComponentProofs`, the LZ layer: `LzSearchLooksBack` and `LzDecoderStaysInBounds`, the latter
on any symbols and any way to go on behind their end, and `LzRoundTrip`, for
all data, hash functions, windows and limits that the class tables reach. That
a length or distance falls into exactly one class and is restored from base and
extra bits is proved from the tables of the code (`LengthExact`,
`DistanceExact`). The round trip keeps for every symbol the position in the
data at which it stands (`Parse`, `Covers`); the encoder extends that function,
and the decoder has produced the data up to the position of the symbol that it
reads next (`InStep`).

`RunCodesProofs`: `RunTypes` and `RunDecoderStaysInBounds`, for bytes of any
number of values, any sizes of tables, any usize that satisfies
`UsizeAssumption`, 32 bits included, all inputs and all payloads. `IInv` adds
that a run length is below the weight of its next byte: a byte that is added
keeps it below the next weight (`WeightBound`), and where it wraps it only gets
smaller (`RunLengthBounds`). It also keeps that between the two bytes of a
frequency there is still room for it, which the code checks only before the
first.

Then `RunRoundTrip` and `RunTruncationIsNoticed`. What an encoder wrote is a
chain of runs (`Chain`): a set of marks, pairs of a place in the bytes and one
in the values, each of which is the end of both or has a next one (`Link`), with
the run between the two spelled in one of four ways (`Spelled`). The encoder
adds links at the end; between the bytes of a run length `Counting` says what
is left of it before each byte. The decoder stands at a mark or inside a link
(`Place`), in bytes that agree with those written as far as they go (`Sent`),
which are all of them or fewer: with all it arrives at the last mark, where it
is complete and sound, and with fewer it never does. Two assumptions are
about the encoder's inputs: a block is shorter than the longest run that the
bytes of a run length can count (`WeightsAssumption`: five bytes count 2^35, a
block header has 32 bits for the size), and the frequencies of a table share
all of its slots (`NormsAssumption`), as `normalize_frequencies` returns them;
the decoder refuses others. `SameSum` shows that the decoded frequencies have the sum of
those written although the zeros behind them are not.

`RunsNeverCut` has two halves. In a roomy build a run length and its sum with
the decoded length are below usize (`RunLengthBounds`). In any build, what the
decoder has of a run that an encoder wrote is at most what is left of the block,
and a block fits usize (`ReadRunLengthRound`), so that nothing wraps.

`ComponentProofs`, the stream hash: `HashTypes` and `HashIsChunkInvariant`, for every word
size. The invariant says that the words mixed, the bytes in the buffer and the
rest of the running update are the input, in this order, and that the buffer is
empty whenever whole words are taken from an update.

`CodecProofs`, the entropy coders: for every alphabet and message, every limit on
code lengths that leaves room for the alphabet (`NumSymbols <= 2^MaxBits`), every
table of at least 16 slots and at least one per symbol, a state written in more
bits than the table's log, and for decoders of any code lengths, frequencies and
bits. These bounds are the ones of the code (286 symbols and 15 bits, 318 symbols
and 2^10 slots); without them `limit_code_lengths` and `normalize_frequencies`
would leave their loops by `break` with the tree oversubscribed or the table
exceeded.

* Numbers. `SumFunctionOnSet` of the community modules is a fold that CHOOSE
  defines by recursion over subsets; `AddsUpExists` and `AddsUpOnce` prove that
  there is exactly one such function, and `SumWithout` that the order does not
  matter. On these rest powers of two, `BitsOfValue` and `ValueOfBits` (writing
  and reading of bits are inverse), the Kraft sum and the totals of frequencies.
* `EntropyInvariant`, from which `EntropyTypesHold`, `TablesFit`,
  `StatesStayHere` and `CodesDiffer` follow. `TableGrows`: normalisation gives
  slots exactly to the symbols that occur (`RichestIs`: a symbol that must give
  one back has two, because a table with a slot for each symbol is exceeded),
  and while the table is filled each symbol has got as many slots as it had turns
  (`Taken`, `TakenNext`), whichever free slot the step finds. `StepBack` is the
  core of ANS: in a filled table the decoder's entry for the encoder's new state
  names the symbol, the number of bits and the old state. `LengthsAre`: where
  codes are written or read they are within the limit and not oversubscribed.
  `FirstCodeKraft` places the canonical codes of a length behind all shorter ones
  in units of the longest code, so that two codes are disjoint intervals
  (`CanonicalOrder`), and no reversed code begins another (`NoCodeBegins`).
* `EntropyTripInvariant`, from which `SymbolsDoSurvive` and `TruncationIsSeen`
  follow. For ANS (`AnsTrip`) there is a path: the states of the encoder and how
  many bits were written for each; the encoder extends it (`PathGrows`), and the
  decoder, which has delivered d symbols, is in the state the encoder had d
  symbols before its end (`AnsReader`). For Huffman codes (`TreeGrows`,
  `HuffmanTrip`) every symbol of the message has a code, the codes stand one
  behind the other (`Coded`), and the decoder reads where the next one begins, or
  is behind bits that are missing (`HuffmanReader`, `RightSymbol`). Whole and
  truncated payloads are one case: a payload agrees with what was written as far
  as it goes.

`PrefilterProofs`, for every alphabet of bytes, static dictionary, limit of a
token's length and choice of the backends' sizes:

* `OutputIsBounded`. `BoundInv` has types (`StatesTyped`, `OutputTyped`) and what
  the decoder knows of the head while it reads on in it (`HeadRead`). The types
  are the hard part: the tokens of a dictionary come from a CHOOSE by rank, and
  that something has each rank needs that the ranks are a strict total order of
  a finite set (`StrictOrder`), here the order of byte slices.
* `PrefilterRoundTrip`. `Walk` says that transformed data stand for a block: a
  set of marks, pairs of a place in either, from each of which one turn of the
  decoder's loop leads to another. The encoder adds marks at the end
  (`EncodeInv`); what it returns is one of three kinds (`Candidate`): differences,
  a walk with the static dictionary, or a walk with a table that is laid out in
  the head entry by entry (`LaidOut`, `EntryAt`). The decoder reads that table
  back and then stands at a mark (`DecodeInv`). The exception `TooWide` is the
  finding above: such a table is refused, and never decoded to other bytes.

The functions of the tokenizers are recursive; what they are is proved by giving
a function that satisfies the recursion (`BackwardRecursion`).

`ComponentProofs`, the front ends, for all data shorter than 65536 bytes that do
not begin with the magic number, all stream headers, directories, commands and
numbers of calls. The proof has three layers:

* Bytes. `Lies` says where a part of a container is in it; `ContainerLies` gives
  the place of every field of stream header and block. Of the CRCs only what
  they range over is used, and that a CRC matches itself.
* The reader. `ReaderAt` says for every step how many bytes have been read and
  what is known of them, for an input that agrees with a container as far as
  both go (`Agree`), so that one invariant covers whole, cut and longer ones;
  `ReaderGoesOn` has one lemma for each `read_exact`.
* Files and calls. `FileSound` says what a file of each form is; it survives
  every write, whole or torn, and every damage (`DamagedSound`). `Kept` relates
  the files to those at the beginning of the call, `ComputedIs` what the library
  returned to what it was given, `EndsWell` the code to the reader's outcome,
  and `HeapSound` the allocations to the step of the caller.

From `FrontInv`, which is all of this, follow `WholeContainersDecode` (a whole
container decodes to its data or is refused for the limit; one that is cut, torn
or none is refused), `CutsAreSeen`, `NoDataIsLost` and `HeapIsSound`.

No induction theorem of the library can be used, as they take an operator as a
parameter. Invariants of the steps do most of the inductions. Where a number is
left to induct over (a sum, a periodic sequence), `SmallestNat` takes its place:
a set of naturals that is not empty has a least member, so that the least
counterexample has a predecessor that is none; `SetInduction` does the same for
the subsets of a finite set. `BackwardInduction`,
`BackwardRecursion` and `ForwardRecursion` state what follows with a set or a
function in the place of the operator.

Checked by TLC only:

* liveness, which is out of the provers' reach;
* `TreeIsOptimal` of `EntropyCoding`: that no prefix code is shorter than the
  tree's is Huffman's exchange argument, an induction over alphabets that compares
  trees of different sizes and not a property of one behaviour's steps;
* `FlippedBitsAreNoticed` of `FrontEnds`, which rests on which flips the CRCs
  detect: an enumeration of registers and not an argument.

`DecoderTypes`, `LzfTypes`, `HashTypes`, `RunTypes` and `EntropyTypesHold` prove
type invariants that no run lists: the runs of these modules check what the types do not say.

## Not modelled, and the plan

Next, in this order:

1. the layers of LZH and LZA composed into one model, with the extra bits
   between the bits of the symbols and the proofs of the layers as its parts;
2. a proof of `TreeIsOptimal`.

Not modelled, with the reason:

* the image crate: `compress_image` is its outcome only;
* parsing of arguments, messages and statistics, which keep no state;
* how a package finds its library, and where the Node package puts input and
  results in the WASM memory (fixed offsets 1024 and 2048), since what lies
  there is the linker's choice;
* `block_size` 0 and sizes beyond 4 GiB, which no caller passes;
* build, packaging and benchmarks.

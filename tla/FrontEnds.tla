------------------------------ MODULE FrontEnds ------------------------------
(***************************************************************************)
(* The programs in front of the library: the codrop command (codrop-cli)   *)
(* and the callers of the C ABI (libcodrop/src/ffi.rs) that the Python,    *)
(* Dart and Node packages are. They share the files of a directory, called *)
(* by their extensions since all have one stem, and run one after the      *)
(* other; between two calls a container may be damaged once.               *)
(*                                                                         *)
(* A file also says what it holds, which nothing but the properties looks  *)
(* at: the data, in which form, and how long the stream header is.         *)
(***************************************************************************)
EXTENDS ContainerBytes

CONSTANTS
  Plain,         \* data so short that compress leaves them RAW
  Picture,       \* what the image crate makes of a picture
  DefaultLimit,  \* 1 GB
  Headers,       \* the stream headers of the containers there are in the beginning
  Directories,   \* the files there are in the beginning
  Commands,      \* the calls there may be
  MaxCalls,      \* bound: how many in a row; after a damage, one on that file
  TwoFlips       \* bound: the data of which two bits of the header may flip

Bindings == {"python", "dart", "node"}
Levels == {"auto", "fast", "balanced", "compact"}
Names == {"txt", "cdp", "out", "decompressed", "webp"}

(* The name of an image is changed beside its extension: "webp" is none of *)
(* those that image is given.                                              *)
ASSUME FrontEndsAssumption ==
  /\ Plain \subseteq Seq(Octet) /\ TwoFlips \subseteq Plain /\ Picture \in Seq(Octet)
  /\ DefaultLimit \in Nat \ {0} /\ MaxCalls \in Nat
  /\ \A d \in Directories : DOMAIN d \subseteq Names
  /\ \A c \in Commands :
       /\ c.verb = "image" => c.input # "webp"
       /\ c.who \in Bindings \cup {"cli"} /\ c.verb \in {"compress", "decompress", "inspect", "image"}
       /\ c.input \in Names /\ c.limit \in Nat /\ c.level \in Levels
       /\ c.from \in {"path", "stdin"} /\ c.output \in {"default", "stdout"} \cup Names

VARIABLES
  files,         \* the files there are
  before,        \* those there were when the call began
  damaged,       \* the one that has been damaged, or "none"
  calls,         \* how many calls there have been
  cmd,           \* the running or last one
  fpc,           \* what it does next, "idle" or "done"
  profile,       \* the CompressionLevel that compress ran with
  computed,      \* what the library computed
  code,          \* the exit code, the return code, or Raised
  heap,          \* the allocations that callers of the C ABI own
  wild           \* whether something else has been freed

frontVars == <<files, before, damaged, calls, cmd, fpc, profile, computed, code, heap, wild>>
cmdVars == <<before, damaged, calls, cmd>>
heapVars == <<heap, wild>>

allVars == <<readerVars, frontVars>>

NoCommand ==
  [who |-> "cli", verb |-> "inspect", input |-> "txt", from |-> "path", output |-> "default",
   limit |-> 0, level |-> "auto"]

PlainFile(s) == [bytes |-> s, data |-> s, form |-> "plain", head |-> 0]

ContainerFile(h, s) ==
  [bytes |-> ContainerOf(h, s), data |-> s, form |-> "container", head |-> Len(StreamHeader(h))]

BeginsWithMagic(s) == Len(s) >= 4 /\ SubSeq(s, 1, 4) = Magic

(* What is encoded is no container and, a bound, shorter than 65536 bytes; *)
(* the files of the beginning are such data and containers of them.        *)
ASSUME FilesAssumption ==
  /\ \A s \in Plain : Len(s) < 65536 /\ Digest(s) \in [1 .. 8 -> Octet]
  /\ \A s \in Plain \cup {Picture} : ~BeginsWithMagic(s)
  /\ Headers \subseteq StreamHeaders
  /\ \A d \in Directories : \A n \in DOMAIN d :
       \/ \E s \in Plain : d[n] = PlainFile(s)
       \/ \E s \in Plain : \E h \in Headers \cup {KnownSize(s)} : d[n] = ContainerFile(h, s)

FrontInit ==
  /\ InitReader
  /\ files \in Directories /\ before = files
  /\ damaged = "none" /\ calls = 0 /\ cmd = NoCommand /\ fpc = "idle" /\ profile = "none"
  /\ computed = <<>> /\ code = 0 /\ heap = {} /\ wild = FALSE

-----------------------------------------------------------------------------
(* A container is cut, lengthened, or bits of it flip.                     *)
Flipped(s, bits) ==
  [i \in 1 .. Len(s) |->
     LET b == BitsOf(s[i])
     IN ByteOf([k \in 1 .. 8 |-> IF 8 * (i - 1) + k \in bits THEN 1 - b[k] ELSE b[k]])]

Cuts(f) ==
  {[f EXCEPT !.bytes = SubSeq(@, 1, n), !.form = "cut"] : n \in 0 .. Len(f.bytes) - 1}

Longer(f) == {[f EXCEPT !.bytes = @ \o <<n>>] : n \in {0, 23}}

FlippedOnce(f) ==
  {[f EXCEPT !.bytes = Flipped(@, {i}), !.form = IF i <= 8 * f.head THEN "header" ELSE "body"] :
     i \in 1 .. 8 * Len(f.bytes)}

FlippedTwice(f) ==
  LET Pairs == {{i, j} : i, j \in 1 .. 8 * f.head}
  IN {[f EXCEPT !.bytes = Flipped(@, bits), !.form = "twice"] : bits \in Pairs}

Damages(f) ==
  Cuts(f) \cup Longer(f) \cup FlippedOnce(f)
    \cup (IF calls = 0 /\ f.data \in TwoFlips THEN FlippedTwice(f) ELSE {})

Damage ==
  /\ fpc \in {"idle", "done"} /\ damaged = "none" /\ calls < MaxCalls
  /\ \E n \in DOMAIN files :
       /\ files[n].form = "container"
       /\ \E f \in Damages(files[n]) : files' = [files EXCEPT ![n] = f]
       /\ damaged' = n
  /\ before' = files' /\ Forget
  /\ cmd' = NoCommand /\ fpc' = "idle" /\ profile' = "none" /\ computed' = <<>> /\ code' = 0
  /\ UNCHANGED <<calls, heap, wild>>

-----------------------------------------------------------------------------
(* A command line, or a call of a binding's function with data it has.     *)
(* Bound: compress is given Plain data.                                    *)
Invoke ==
  /\ fpc \in {"idle", "done"} /\ calls < MaxCalls
  /\ \E c \in Commands :
       /\ (c.who # "cli" \/ c.from = "stdin") => c.input \in DOMAIN files
       /\ damaged # "none" => c.input = damaged
       /\ (c.verb = "compress" /\ c.input \in DOMAIN files) => files[c.input].bytes \in Plain
       /\ cmd' = c
  /\ before' = files
  /\ calls' = IF damaged # "none" THEN MaxCalls ELSE calls + 1
  /\ fpc' = "load" /\ profile' = "none" /\ computed' = <<>> /\ code' = 0 /\ Forget
  /\ UNCHANGED <<files, damaged, heap, wild>>

Finish(n) == fpc' = "done" /\ code' = n

(* inspect opens what it is given, a file named "-" too.                   *)
CanOpen == cmd.input \in DOMAIN files /\ (cmd.verb = "inspect" => cmd.from = "path")

Data == files[cmd.input].bytes

CannotRead ==
  /\ fpc = "load" /\ ~CanOpen
  /\ Finish(1)
  /\ UNCHANGED <<readerVars, cmdVars, heapVars, files, profile, computed>>

(* The numbers of the bindings, as codrop_compress understands them.       *)
LevelNumber == [auto |-> 0, fast |-> 1, balanced |-> 2, compact |-> 3]

Profile(number) ==
  IF number = 0 THEN "fast" ELSE IF number = 1 THEN "balanced"
  ELSE IF number = 2 THEN "compact" ELSE "auto"

Compress ==
  /\ fpc = "load" /\ cmd.verb = "compress" /\ CanOpen
  /\ profile' = IF cmd.who = "cli" THEN cmd.level ELSE Profile(LevelNumber[cmd.level])
  /\ computed' = ContainerOf(KnownSize(Data), Data)
  /\ fpc' = "deliver"
  /\ UNCHANGED <<readerVars, cmdVars, heapVars, files, code>>

(* The C ABI takes a limit of zero for the default.                        *)
Limit == IF cmd.who # "cli" /\ cmd.limit = 0 THEN DefaultLimit ELSE cmd.limit

Decompress ==
  /\ fpc = "load" /\ cmd.verb = "decompress" /\ CanOpen
  /\ Start(Data, "decode", Limit)
  /\ fpc' = "read"
  /\ UNCHANGED <<cmdVars, heapVars, files, profile, computed, code>>

Inspect ==
  /\ fpc = "load" /\ cmd.verb = "inspect" /\ CanOpen
  /\ Start(Data, "inspect", 0)
  /\ fpc' = "read"
  /\ UNCHANGED <<cmdVars, heapVars, files, profile, computed, code>>

ReadOn ==
  /\ fpc = "read" /\ ReadStep
  /\ UNCHANGED frontVars

-----------------------------------------------------------------------------
Unsupported == {"UnsupportedVersion", "UnsupportedBlockType", "UnsupportedPrefilter", "UnknownDictionary"}
Mismatches == {"HeaderChecksumMismatch", "BlockChecksumMismatch", "StreamChecksumMismatch"}

(* error_to_exit_code, and what codrop_decompress returns.                 *)
ExitCode(e) ==
  IF e \in Unsupported THEN 3 ELSE IF e \in {"Io", "ImageError"} THEN 1 ELSE 2

ReturnCode(e) ==
  IF e \in Mismatches THEN -5
  ELSE IF e \in {"DecompressionBombDetected", "InvalidWindowSize"} THEN -4
  ELSE IF e \in Unsupported THEN -3 ELSE -2

EncodeFailed == -6

ReadEnds ==
  /\ fpc = "read" /\ rpc = "idle"
  /\ IF outcome # "ok"
       THEN Finish(IF cmd.who = "cli" THEN ExitCode(outcome) ELSE ReturnCode(outcome)) /\ UNCHANGED computed
     ELSE IF cmd.verb = "inspect" THEN Finish(0) /\ UNCHANGED computed
     ELSE computed' = out /\ fpc' = "deliver" /\ UNCHANGED code
  /\ UNCHANGED <<readerVars, cmdVars, heapVars, files, profile>>

(* Nothing is no picture; of anything else the image crate decides.        *)
CompressImage ==
  /\ fpc = "load" /\ cmd.verb = "image" /\ CanOpen
  /\ \/ Finish(IF cmd.who = "cli" THEN ExitCode("ImageError") ELSE EncodeFailed) /\ UNCHANGED computed
     \/ Data # <<>> /\ computed' = Picture /\ fpc' = "deliver" /\ UNCHANGED code
  /\ UNCHANGED <<readerVars, cmdVars, heapVars, files, profile>>

-----------------------------------------------------------------------------
(* Mutant of DefaultName: decompress undoes the renaming of compress.      *)
OriginalName ==
  IF cmd.verb = "compress" THEN "cdp" ELSE IF cmd.verb = "image" THEN "webp"
  ELSE IF cmd.input = "cdp" THEN "cdp" ELSE "decompressed"

(* set_extension on the input; image also changes the stem.                *)
DefaultName ==
  IF cmd.verb = "compress" THEN "cdp" ELSE IF cmd.verb = "image" THEN "webp"
  ELSE IF cmd.input = "cdp" THEN "out" ELSE "decompressed"

ToStdout == cmd.output = "stdout" \/ (cmd.from = "stdin" /\ cmd.output = "default")

Target == IF cmd.output = "default" THEN DefaultName ELSE cmd.output

Store(f) == files' = [n \in DOMAIN files \cup {Target} |-> IF n = Target THEN f ELSE files[n]]

Delivered ==
  IF cmd.verb = "compress" THEN ContainerFile(KnownSize(Data), Data) ELSE PlainFile(computed)

(* What a write leaves that fails half-way.                                *)
Torn(n) ==
  [Delivered EXCEPT !.bytes = SubSeq(@, 1, n), !.form = IF @ = "container" THEN "cut" ELSE "torn"]

WriteStdout ==
  /\ fpc = "deliver" /\ cmd.who = "cli" /\ ToStdout
  /\ \E ok \in BOOLEAN : Finish(IF ok THEN 0 ELSE 1)
  /\ UNCHANGED <<readerVars, cmdVars, heapVars, files, profile, computed>>

(* fs::write truncates, then writes: it may fail before, between or not.   *)
WriteFile ==
  /\ fpc = "deliver" /\ cmd.who = "cli" /\ ~ToStdout
  /\ \/ Store(Delivered) /\ Finish(0)
     \/ \E n \in 0 .. Len(computed) - 1 : Store(Torn(n)) /\ Finish(1)
     \/ UNCHANGED files /\ Finish(1)
  /\ UNCHANGED <<readerVars, cmdVars, heapVars, profile, computed>>

-----------------------------------------------------------------------------
Raised == 100

(* The boxed slice: no allocation if it is empty.                          *)
Buffer == [at |-> calls, size |-> Len(computed)]

HandOut ==
  /\ fpc = "deliver" /\ cmd.who # "cli"
  /\ heap' = IF computed = <<>> THEN heap ELSE heap \cup {Buffer}
  /\ fpc' = "copy"
  /\ UNCHANGED <<readerVars, cmdVars, files, profile, computed, code, wild>>

(* Mutant of Free: the check of the length is missing.                     *)
FreeAnything(buffer) == heap' = heap \ {buffer} /\ wild' = (wild \/ buffer \notin heap)

(* codrop_free.                                                            *)
Free(buffer) ==
  IF buffer.size = 0 THEN UNCHANGED heapVars
  ELSE heap' = heap \ {buffer} /\ wild' = (wild \/ buffer \notin heap)

(* string_at, Uint8List.fromList or Buffer.from, which may run out of      *)
(* memory; only Python and Dart free the buffer then, in "finally".        *)
Copy ==
  /\ fpc = "copy"
  /\ \/ fpc' = "free" /\ UNCHANGED code
     \/ code' = Raised /\ fpc' = IF cmd.who = "node" THEN "done" ELSE "free"
  /\ UNCHANGED <<readerVars, cmdVars, heapVars, files, profile, computed>>

(* The result goes to the caller, who may keep it in a file.               *)
Release ==
  /\ fpc = "free"
  /\ Free(Buffer)
  /\ fpc' = "done" /\ UNCHANGED code
  /\ IF code = 0 /\ cmd.output \in Names THEN Store(Delivered) ELSE UNCHANGED files
  /\ UNCHANGED <<readerVars, cmdVars, profile, computed>>

Rest == calls = MaxCalls /\ fpc = "done" /\ UNCHANGED allVars

FrontNext ==
  \/ Damage \/ Invoke \/ CannotRead \/ Compress \/ Decompress \/ Inspect \/ ReadOn \/ ReadEnds
  \/ CompressImage \/ WriteStdout \/ WriteFile \/ HandOut \/ Copy \/ Release \/ Rest

FrontSpec == FrontInit /\ [][FrontNext]_allVars

-----------------------------------------------------------------------------
Given == before[cmd.input]

HasRead == fpc = "done" /\ outcome # "none"

(* Whatever its header announces, a whole container decodes to its data,   *)
(* also with bytes behind its end, or is refused for the limit alone, by   *)
(* the C ABI with CODROP_ERROR_LIMIT_EXCEEDED. What is cut is refused, and *)
(* what is no container also by inspect.                                   *)
OnlyWholeContainersDecode ==
  HasRead =>
    /\ Given.form \in {"plain", "torn"} => outcome # "ok"
    /\ cmd.verb = "decompress" =>
         /\ Given.form = "cut" => outcome # "ok"
         /\ Given.form = "container" =>
              IF Len(Given.data) <= limit THEN outcome = "ok" /\ out = Given.data
              ELSE /\ outcome = "DecompressionBombDetected"
                   /\ IF cmd.who = "cli" THEN code # 0 ELSE code = -4

(* README.md: the command line exits with 4 if the output would exceed the *)
(* limit. It does not hold: error_to_exit_code has 2, as for what is       *)
(* malformed.                                                              *)
LimitHasItsCode ==
  HasRead /\ cmd.who = "cli" /\ outcome = "DecompressionBombDetected" => code = 4

(* One flipped bit in the stream header is refused, by inspect too, and so *)
(* are two: save that inspect may pass two that change the length of the   *)
(* header, where another byte is taken for its CRC-8. A flipped bit behind *)
(* the header is refused or harmless.                                      *)
FlippedBitsAreNoticed ==
  HasRead =>
    /\ Given.form = "header" => outcome # "ok"
    /\ Given.form = "twice" /\ outcome = "ok" =>
         cmd.verb = "inspect" /\ Len(covered) + 5 # Given.head
    /\ Given.form = "body" /\ cmd.verb = "decompress" /\ outcome = "ok" =>
         out = Given.data /\ Len(out) <= limit

(* The given container ends inside its stream header or a block header.    *)
CutInHeader ==
  LET n == Len(Given.bytes) - Given.head
      h == Len(RawBlock(Given.data, TRUE)) - Len(Given.data)
  IN n < 0 \/ (Given.data # <<>> /\ n \in 1 .. h - 1)

(* Wherever a container was cut, decompress exits with the code of what is *)
(* malformed, save inside a header, where it may be that of failing input; *)
(* and a cut there is noticed by inspect, which reads nothing else.        *)
CutsAreReported ==
  HasRead /\ Given.form = "cut" /\ cmd.who = "cli" =>
    /\ cmd.verb = "decompress" => code = 2 \/ (CutInHeader /\ code = 1)
    /\ CutInHeader => code # 0

(* CODROP_SPEC.md and README.md: an end before the terminator is an        *)
(* UnexpectedEof, and no failure of input. It does not hold inside a       *)
(* header, where it is Io.                                                 *)
CutsAreUnexpectedEof ==
  HasRead /\ Given.form = "cut" /\ cmd.verb = "decompress" =>
    /\ outcome \in {"UnexpectedEof", "DecompressionBombDetected"}
    /\ cmd.who = "cli" => code # 1

(* No call loses the data it was given, plain or encoded, unless it writes *)
(* to its own input: because it is told to, or, untold, where compress is  *)
(* given an x.cdp or decompress an x.decompressed. Then image replaces the *)
(* data, and a write that fails leaves neither the old nor the new. Beside *)
(* that, a call that fails changes no file, and others just their target.  *)
DataSurvive ==
  fpc = "done" /\ cmd.input \in DOMAIN before =>
    /\ \/ Given.form \notin {"plain", "container"}
       \/ \E n \in DOMAIN files :
             files[n].data = Given.data /\ files[n].form \in {"plain", "container"}
       \/ /\ \/ cmd.output = cmd.input
             \/ <<cmd.verb, cmd.input>> \in {<<"compress", "cdp">>, <<"decompress", "decompressed">>}
          /\ cmd.verb = "image" \/ code # 0
    /\ \A n \in DOMAIN before \ {Target} : n \in DOMAIN files /\ files[n] = before[n]
    /\ files # before => code = 0 \/ files[Target].form \in {"cut", "torn"}

(* Each buffer of the library is freed once, with the length that it has,  *)
(* and nothing else is; the one that is left over is that of a Node caller *)
(* whose copy has failed.                                                  *)
BuffersAreFreedOnce ==
  /\ ~wild
  /\ fpc = "done" /\ cmd.who # "node" => Buffer \notin heap
  /\ fpc = "done" /\ code = 0 => Buffer \notin heap

(* include/codrop.h: the library runs with the profile that its caller     *)
(* names, by the numbers that the header and all bindings have. It does    *)
(* not hold for any binding and profile, as codrop_compress has others.    *)
ProfilesAgree == profile # "none" => profile = cmd.level
=============================================================================

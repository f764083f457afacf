----------------------------- MODULE MCFrontEnds -----------------------------
(* FrontEnds for TLC: data of at most two bytes, containers with all kinds *)
(* of stream headers, and commands with every way to name their files.     *)
EXTENDS FrontEnds

MCDigest(s) == <<1, 0, 1, 5, Len(s), 7, 9 + Len(s), 11>>

MCDecoded == {<<>>, <<5>>, <<1, 2>>, <<2, 1>>}

MCPlain == {<<>>, <<5>>, <<1, 2>>}
MCTwoFlips == {<<1, 2>>}
MCPicture == <<82, 73>>

HeaderWith(size, checksum, dictionary, window, length) ==
  [flags |-> [size |-> size, checksum |-> checksum, dictionary |-> dictionary,
              independent |-> dictionary, window |-> window],
   size |-> length, exponent |-> 22, dictionary |-> 513]

MCHeaders ==
  {HeaderWith(TRUE, TRUE, FALSE, 1, 300), HeaderWith(FALSE, FALSE, FALSE, 0, 0),
   HeaderWith(FALSE, TRUE, TRUE, 3, 0), HeaderWith(TRUE, FALSE, FALSE, 3, 2)}

MCDirectories ==
  {[txt |-> PlainFile(s)] : s \in MCPlain}
    \cup {[cdp |-> PlainFile(<<1, 2>>), out |-> PlainFile(<<5>>)]}
    \cup {[cdp |-> ContainerFile(h, s)] : h \in MCHeaders, s \in MCPlain}
    \cup {[decompressed |-> ContainerFile(KnownSize(s), s)] : s \in MCPlain}

Command(who, verb, file, from, to, max, level) ==
  [who |-> who, verb |-> verb, input |-> file, from |-> from, output |-> to,
   limit |-> max, level |-> level]

Sources == {"txt", "cdp", "out", "decompressed"}

MCCommands ==
  {Command("cli", "compress", n, "path", o, 0, "fast") : n \in Sources, o \in {"default", "stdout"}}
    \cup {Command("cli", "compress", "txt", "stdin", o, 0, l) : o \in {"default", "cdp"}, l \in Levels}
    \cup {Command("cli", "decompress", n, "path", "default", 1000, "auto") : n \in Sources}
    \cup {Command("cli", "decompress", "cdp", "stdin", "cdp", 1, "auto"),
          Command("cli", "decompress", "cdp", "path", "stdout", 0, "auto")}
    \cup {Command("cli", "inspect", "cdp", f, "default", 0, "auto") : f \in {"path", "stdin"}}
    \cup {Command("cli", "image", "txt", "path", o, 0, "auto") : o \in {"default", "txt"}}
    \cup {Command(w, "compress", n, "path", "cdp", 0, l) : w \in Bindings, n \in {"txt", "out"}, l \in Levels}
    \cup {Command(w, "decompress", "cdp", "path", "out", IF w = "dart" THEN 1 ELSE 0, "auto") :
            w \in Bindings}
    \cup {Command(w, "image", "txt", "path", "webp", 0, "auto") : w \in {"python", "dart"}}

(* The check values of both CRCs, as the tests of the sources have them.   *)
Digits == <<49, 50, 51, 52, 53, 54, 55, 56, 57>>
ASSUME Crc8(Digits) = 244
ASSUME Crc32c(Digits) = <<131, 146, 6, 227>>
=============================================================================

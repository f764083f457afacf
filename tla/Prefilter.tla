------------------------------ MODULE Prefilter ------------------------------
(***************************************************************************)
(* The prefilters (prefilter/mod.rs with dict.rs, json.rs, text.rs and     *)
(* delta.rs): try_encode_prefilter on a block and the decoding of the      *)
(* payload that it returns, as decoder.rs does it; or                      *)
(* decode_prefiltered_payload alone on a payload that need not come from   *)
(* an encoder. One action per attempt, per turn of the loops that          *)
(* substitute tokens, read a stored table and invert the substitution.     *)
(*                                                                         *)
(* A payload is its head, the numbers in front of the entropy-coded bytes, *)
(* and what LZH or LZA make of those: the transformed data, which they     *)
(* deliver if their length is the one declared. How small they get is      *)
(* anything.                                                               *)
(***************************************************************************)
EXTENDS PrefilterTokens

CONSTANTS
  MinSource,       \* blocks below this size are left alone (32)
  MaxMeta,         \* u16::MAX
  MaxDeltaStride,  \* MAX_DELTA_STRIDE
  JsonDict, WebDict,  \* JSON_DICT_V1 and WEB_DICT_V1
  Sources,         \* the blocks there may be
  CompSizes,       \* bound: the sizes a backend may reach
  Heads, Contents, \* the payloads a decoder may be given,
  Expected, Limits \* its uncompressed_len and max_output_size

Delta == 1
StaticDictionary == 2
Json == 3
Text == 4

DictVersion == 1
DictIdJson == 1
DictIdWeb == 2

ASSUME EncoderAssumption ==
  /\ MinSource \in Nat /\ MaxMeta \in Nat /\ MaxDeltaStride \in 4 .. LiteralTag
  /\ \A dict \in {JsonDict, WebDict} :
       dict \in Seq(Seq(Octet) \ {<<>>}) /\ Len(dict) \in 1 .. MaxDictTokens
  /\ Sources \subseteq Seq(Octet) /\ CompSizes \subseteq Nat
ASSUME PayloadsAssumption ==
  /\ Heads \subseteq Seq(Nat) /\ Contents \subseteq Seq(Octet)
  /\ Expected \subseteq Nat /\ Limits \subseteq Nat

VARIABLES
  pc,            \* what the running call does next
  src,           \* the block of the encoder, or <<>>
  attempts,      \* the transformations still to be tried
  tokens, esc,   \* the dictionary in use and its escape byte
  transformed,   \* the data as far as they are transformed
  pos,           \* how much of its input the running loop has done
  best,          \* best_candidate, as a sequence of at most one
  payload,       \* what is decoded,
  expected, limit,  \* uncompressed_len and max_output_size
  cursor,        \* how much of the head has been read
  out,           \* the decoded bytes
  result         \* "none", or what the call returned

encodeVars == <<src, attempts, best>>
dictVars == <<tokens, esc>>
callVars == <<payload, expected, limit>>
prefilterVars == <<pc, encodeVars, dictVars, transformed, pos, callVars, cursor, out, result>>

NoPayload == [head |-> <<>>, data |-> <<>>, size |-> 0]

InitEncoder ==
  /\ pc = "detect" /\ src \in Sources
  /\ payload = NoPayload /\ expected = 0 /\ limit = 0

InitDecoder ==
  /\ pc = "header" /\ src = <<>>
  /\ payload \in [head : Heads, data : Contents, size : {0}]
  /\ expected \in Expected /\ limit \in Limits

PrefilterInit ==
  /\ InitEncoder \/ InitDecoder
  /\ attempts = <<>> /\ best = <<>>
  /\ tokens = <<>> /\ esc = 0
  /\ transformed = <<>> /\ pos = 0
  /\ cursor = 0
  /\ out = <<>>
  /\ result = "none"

Return(r) == pc' = "done" /\ result' = r

-----------------------------------------------------------------------------
Attempt(type, arg) == [type |-> type, arg |-> arg]

(* What is tried on a block, in this order.                                *)
Attempts(s) ==
  IF IsJson(s) THEN <<Attempt(StaticDictionary, DictIdJson), Attempt(Json, 0)>>
  ELSE IF IsText(s) THEN <<Attempt(StaticDictionary, DictIdWeb), Attempt(Text, 0)>>
  ELSE <<Attempt(Delta, 1), Attempt(Delta, 2), Attempt(Delta, 4)>>

Detect ==
  /\ pc = "detect"
  /\ IF Len(src) < MinSource THEN Return("declined") /\ UNCHANGED attempts
     ELSE pc' = "begin" /\ attempts' = Attempts(src) /\ UNCHANGED result
  /\ UNCHANGED <<src, best, dictVars, transformed, pos, callVars, cursor, out>>

StaticDict(id) == IF id = DictIdJson THEN JsonDict ELSE WebDict

DictionaryFor(a) ==
  IF a.type = StaticDictionary THEN StaticDict(a.arg)
  ELSE IF a.type = Json THEN JsonDictionary(src) ELSE TextDictionary(src)

(* A dictionary of the block's own may have nothing in it.                 *)
BeginDictionary ==
  LET a == attempts[1] IN
  /\ pc = "begin" /\ attempts # <<>> /\ a.type # Delta
  /\ tokens' = DictionaryFor(a)
  /\ IF tokens' = <<>>
       THEN attempts' = Tail(attempts) /\ UNCHANGED <<pc, esc>>
       ELSE /\ \E b \in Octet : IsLeastFrequent(b, src) /\ esc' = b
            /\ pc' = "substitute"
            /\ UNCHANGED attempts
  /\ transformed' = <<>> /\ pos' = 0
  /\ UNCHANGED <<src, best, callVars, cursor, out, result>>

Minus(b, c) == (b - c) % (LiteralTag + 1)

Differences(s, stride) ==
  [i \in 1 .. Len(s) |-> IF i <= stride THEN s[i] ELSE Minus(s[i], s[i - stride])]

BeginDelta ==
  /\ pc = "begin" /\ attempts # <<>> /\ attempts[1].type = Delta
  /\ transformed' = Differences(src, attempts[1].arg)
  /\ pc' = "weigh"
  /\ UNCHANGED <<encodeVars, dictVars, pos, callVars, cursor, out, result>>

-----------------------------------------------------------------------------
(* Tokens beyond MAX_DICT_TOKENS are not looked at.                        *)
Referable(k) == k <= Len(tokens) /\ k <= MaxDictTokens

(* Token k is what comes next in the block.                                *)
Matches(k) ==
  /\ Referable(k)
  /\ pos + Len(tokens[k]) <= Len(src)
  /\ SubSeq(src, pos + 1, pos + Len(tokens[k])) = tokens[k]

(* The longest of these, and of equal ones the first.                      *)
IsBest(k) ==
  /\ Matches(k)
  /\ \A m \in 1 .. Len(tokens) :
       Matches(m) => Len(tokens[m]) <= Len(tokens[k]) /\ (m < k => tokens[m] # tokens[k])

Worthwhile(k) == IsBest(k) /\ Len(tokens[k]) >= 3

(* Mutant of Literal: an escape byte of the block is not escaped.          *)
LiteralUnescaped(b) == <<b>>

Literal(b) == IF b = esc THEN <<esc, LiteralTag>> ELSE <<b>>

SubstituteToken ==
  /\ pc = "substitute" /\ pos < Len(src)
  /\ \E k \in 1 .. Len(tokens) :
       /\ Worthwhile(k)
       /\ transformed' = transformed \o <<esc, k - 1>>
       /\ pos' = pos + Len(tokens[k])
  /\ UNCHANGED <<pc, encodeVars, dictVars, callVars, cursor, out, result>>

CopyByte ==
  /\ pc = "substitute" /\ pos < Len(src)
  /\ ~ \E k \in 1 .. Len(tokens) : Worthwhile(k)
  /\ transformed' = transformed \o Literal(src[pos + 1])
  /\ pos' = pos + 1
  /\ UNCHANGED <<pc, encodeVars, dictVars, callVars, cursor, out, result>>

SubstituteEnds ==
  /\ pc = "substitute" /\ pos = Len(src)
  /\ pc' = "weigh"
  /\ UNCHANGED <<encodeVars, dictVars, transformed, pos, callVars, cursor, out, result>>

-----------------------------------------------------------------------------
(* What stands between the length of the transformed data and these.       *)
Meta(a) ==
  IF a.type = Delta THEN <<a.arg>>
  ELSE IF a.type = StaticDictionary THEN <<a.arg, DictVersion, esc>>
  ELSE <<1 + Len(Table(tokens)), esc>> \o Table(tokens)

(* Dictionary and length have two bytes, the transformed length four.      *)
HeadBytes(a) == 6 + Len(Meta(a)) + (IF a.type = Delta THEN 0 ELSE 1)

Profitable(a) ==
  /\ a.type = StaticDictionary =>
       Len(transformed) + (IF a.arg = DictIdWeb THEN 16 ELSE 0) < Len(src)
  /\ a.type \in {Json, Text} =>
       /\ Len(transformed) + 1 + Len(Table(tokens)) < Len(src)
       /\ 1 + Len(Table(tokens)) <= MaxMeta

(* An empty output of the backend is no candidate.                         *)
Weigh ==
  LET a == attempts[1] IN
  /\ pc = "weigh"
  /\ \E comp \in CompSizes :
       IF /\ Profitable(a) /\ comp > 0
          /\ best # <<>> => HeadBytes(a) + comp < best[1].size
         THEN \E backend \in {0, 1} :
                best' = <<[head |-> <<backend, a.type, Len(transformed)>> \o Meta(a),
                           data |-> transformed, size |-> HeadBytes(a) + comp]>>
         ELSE UNCHANGED best
  /\ attempts' = Tail(attempts)
  /\ pc' = "begin"
  /\ UNCHANGED <<src, dictVars, transformed, pos, callVars, cursor, out, result>>

(* decoder.rs gives the declared size of the block for both lengths.       *)
Deliver ==
  /\ pc = "begin" /\ attempts = <<>>
  /\ IF best = <<>> THEN Return("declined") /\ UNCHANGED callVars
     ELSE /\ pc' = "header"
          /\ payload' = best[1]
          /\ expected' = Len(src) /\ limit' = Len(src)
          /\ UNCHANGED result
  /\ tokens' = <<>> /\ esc' = 0 /\ transformed' = <<>> /\ pos' = 0
  /\ UNCHANGED <<encodeVars, cursor, out>>

-----------------------------------------------------------------------------
ReadHeader ==
  LET h == payload.head IN
  /\ pc = "header"
  /\ \/ Len(h) < 3 /\ Return("CorruptedPrefilterData")
     \/ Len(h) >= 3 /\ h[1] \notin {0, 1} /\ Return("CorruptedPrefilterData")
     \/ Len(h) >= 3 /\ h[1] \in {0, 1} /\ h[2] \notin 1 .. 4 /\ Return("UnsupportedPrefilter")
     \/ /\ Len(h) >= 3 /\ h[1] \in {0, 1} /\ h[2] \in 1 .. 4
        /\ IF h[3] > limit THEN Return("DecompressionBombDetected")
           ELSE pc' = "meta" /\ UNCHANGED result
  /\ cursor' = 3
  /\ UNCHANGED <<encodeVars, dictVars, transformed, pos, callVars, out>>

(* How much metadata there must be, and whether there is.                  *)
MetaSize == IF payload.head[2] = StaticDictionary THEN 3 ELSE 1

MetaComplete ==
  LET h == payload.head IN
  /\ cursor + MetaSize <= Len(h)
  /\ h[2] \in {Json, Text} => cursor + 1 + h[cursor + 1] <= Len(h)

BackendDelivers == Len(payload.data) = payload.head[3]

KnownDict(id, version) == id \in {DictIdJson, DictIdWeb} /\ version = DictVersion

(* Every branch refuses what is missing, then what the backend refuses; a  *)
(* static dictionary is looked up before that.                             *)
RefuseMeta ==
  LET h == payload.head IN
  /\ pc = "meta"
  /\ \/ ~MetaComplete /\ Return("CorruptedPrefilterData")
     \/ /\ MetaComplete /\ h[2] = StaticDictionary /\ ~KnownDict(h[4], h[5])
        /\ Return("UnknownDictionary")
     \/ /\ MetaComplete /\ (h[2] = StaticDictionary => KnownDict(h[4], h[5]))
        /\ ~BackendDelivers
        /\ Return("Codec")
  /\ UNCHANGED <<encodeVars, dictVars, transformed, pos, callVars, cursor, out>>

MetaAccepted(type) ==
  /\ pc = "meta" /\ payload.head[2] = type
  /\ MetaComplete /\ BackendDelivers

Sums(s, stride) ==
  LET sum[i \in 1 .. Len(s)] ==
        IF i <= stride THEN s[i] ELSE (sum[i - stride] + s[i]) % (LiteralTag + 1)
  IN [i \in 1 .. Len(s) |-> sum[i]]

DecodeDelta ==
  LET stride == payload.head[4] IN
  /\ MetaAccepted(Delta)
  /\ IF stride = 0 \/ stride > MaxDeltaStride
       THEN Return("CorruptedPrefilterData") /\ UNCHANGED out
       ELSE IF Len(payload.data) > limit
         THEN Return("DecompressionBombDetected") /\ UNCHANGED out
         ELSE out' = Sums(payload.data, stride) /\ pc' = "check" /\ UNCHANGED result
  /\ UNCHANGED <<encodeVars, dictVars, transformed, pos, callVars, cursor>>

UseStatic ==
  LET h == payload.head IN
  /\ MetaAccepted(StaticDictionary) /\ KnownDict(h[4], h[5])
  /\ tokens' = StaticDict(h[4]) /\ esc' = h[6]
  /\ transformed' = payload.data /\ pos' = 0
  /\ pc' = "invert"
  /\ UNCHANGED <<encodeVars, callVars, cursor, out, result>>

(* The metadata are an escape byte, the number of tokens and these; pos    *)
(* counts the entries that have been read.                                 *)
BeginTable ==
  LET h == payload.head IN
  /\ MetaAccepted(Json) \/ MetaAccepted(Text)
  /\ IF h[4] < 2 THEN Return("CorruptedPrefilterData") /\ UNCHANGED <<cursor, esc>>
     ELSE /\ esc' = h[5] /\ cursor' = 6
          /\ pc' = "table"
          /\ UNCHANGED result
  /\ transformed' = payload.data /\ pos' = 0
  /\ UNCHANGED <<encodeVars, tokens, callVars, out>>

MetaEnd == 4 + payload.head[4]

(* An entry without or with more bytes than a word has is refused.         *)
TokenLengths == 1 .. MaxTokenLen

ReadEntry ==
  LET h == payload.head
      length == h[cursor + 1]
      next == cursor + 1 + length
  IN
  /\ pc = "table" /\ pos < h[6]
  /\ IF cursor >= MetaEnd \/ length \notin TokenLengths \/ next > MetaEnd
       THEN Return("CorruptedPrefilterData") /\ UNCHANGED <<tokens, pos, cursor>>
       ELSE /\ tokens' = Append(tokens, SubSeq(h, cursor + 2, next))
            /\ cursor' = next /\ pos' = pos + 1
            /\ UNCHANGED <<pc, result>>
  /\ UNCHANGED <<encodeVars, esc, transformed, callVars, out>>

TableEnds ==
  /\ pc = "table" /\ pos = payload.head[6]
  /\ pc' = "invert" /\ pos' = 0
  /\ UNCHANGED <<encodeVars, dictVars, transformed, callVars, cursor, out, result>>

-----------------------------------------------------------------------------
(* Mutant of Room: room for one more byte, however long the token is.      *)
RoomForOne(s) == Len(out) < limit

Room(s) == Len(out) + Len(s) <= limit

(* Puts out s and goes on behind n bytes of the transformed data.          *)
Emit(s, n) ==
  IF Room(s) THEN out' = out \o s /\ pos' = pos + n /\ UNCHANGED <<pc, result>>
  ELSE Return("DecompressionBombDetected") /\ UNCHANGED <<out, pos>>

invertFrame == <<encodeVars, dictVars, transformed, callVars, cursor>>

InvertByte ==
  /\ pc = "invert" /\ pos < Len(transformed)
  /\ transformed[pos + 1] # esc
  /\ Emit(<<transformed[pos + 1]>>, 1)
  /\ UNCHANGED invertFrame

InvertEscape ==
  LET tag == transformed[pos + 2] IN
  /\ pc = "invert" /\ pos < Len(transformed)
  /\ transformed[pos + 1] = esc
  /\ IF pos + 1 = Len(transformed) THEN Return("CorruptedPrefilterData") /\ UNCHANGED <<out, pos>>
     ELSE IF tag = LiteralTag THEN Emit(<<esc>>, 2)
     ELSE IF tag >= Len(tokens) THEN Return("CorruptedPrefilterData") /\ UNCHANGED <<out, pos>>
     ELSE Emit(tokens[tag + 1], 2)
  /\ UNCHANGED invertFrame

InvertEnds ==
  /\ pc = "invert" /\ pos = Len(transformed)
  /\ pc' = "check"
  /\ UNCHANGED <<pos, out, result, invertFrame>>

CheckLength ==
  /\ pc = "check"
  /\ Return(IF Len(out) = expected THEN "ok" ELSE "CorruptedPrefilterData")
  /\ UNCHANGED <<pos, out, invertFrame>>

Done == pc = "done" /\ UNCHANGED prefilterVars

Encode ==
  \/ Detect \/ BeginDictionary \/ BeginDelta
  \/ SubstituteToken \/ CopyByte \/ SubstituteEnds \/ Weigh \/ Deliver

Decode ==
  \/ ReadHeader \/ RefuseMeta \/ DecodeDelta \/ UseStatic \/ BeginTable
  \/ ReadEntry \/ TableEnds \/ InvertByte \/ InvertEscape \/ InvertEnds \/ CheckLength

PrefilterNext == Encode \/ Decode \/ Done

PrefilterSpec == PrefilterInit /\ [][PrefilterNext]_prefilterVars

-----------------------------------------------------------------------------
(* No step puts out more than max_output_size, whatever the payload, and   *)
(* the decoder accepts nothing but the declared length.                    *)
OutputStaysBelowLimit ==
  /\ Len(out) <= limit
  /\ result = "ok" => Len(out) = expected

(* The encoder took a token into its table that the decoder's table does   *)
(* not take: extract_json_keys goes up to 48 bytes, a stored table to 32.  *)
TableIsTooWide ==
  /\ payload.head[2] = Json
  /\ \E k \in DOMAIN JsonDictionary(src) : Len(JsonDictionary(src)[k]) > MaxTokenLen

(* What the encoder returns is never decoded to other bytes than those of  *)
(* its block, within whose size it is decoded; and it is decoded unless    *)
(* its table is too wide.                                                  *)
RoundTrip ==
  pc = "done" /\ best # <<>> =>
    /\ result = "ok" => out = src
    /\ ~TableIsTooWide => result = "ok"

(* README.md: exact reversibility on all inputs. It does not hold: a block *)
(* of JSON with a table that is too wide is encoded, and then refused.     *)
EveryBlockReturns == pc = "done" /\ best # <<>> => result = "ok" /\ out = src
=============================================================================

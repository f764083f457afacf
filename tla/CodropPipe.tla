----------------------------- MODULE CodropPipe ------------------------------
(***************************************************************************)
(* An encoder and a decoder at the two ends of a wire, as in               *)
(*   codrop compress - | codrop decompress -                               *)
(* or a file that is decompressed while, or long after, it was written.    *)
(* Between them the wire may be cut and cells that have not been read may  *)
(* be damaged. The encoder may fail to write, and its caller may give up.  *)
(***************************************************************************)
EXTENDS Container, FiniteSets

CONSTANTS
  Input, BlockSize, BlockChecksum, StreamChecksum, LevelChoices,
  CandidateSizes, MaxWriteErrors, RetryAfterError,
  MaxOutputBytes, VerifyBlocks, VerifyStream, Callers, Garbage, MaxMisread

CONSTANTS
  MayCut,       \* whether the wire may be cut
  Damageable,   \* the kinds of cells that may be damaged
  MaxDamage     \* bound: how many cells are damaged

ASSUME PipeAssumption == MayCut \in BOOLEAN /\ MaxDamage \in Nat

VARIABLES level, pc, finishing, given, data, buffer, hashed, headerWritten,
          pending, result, errors
VARIABLES wire, cut, damaged
VARIABLES dpc, position, aligned, hasStreamChecksum, streamHasher, total,
          streamFinished, header, delivered, answer, callAgain

(* The wire's writer end is closed when the encoder is gone: its writer    *)
(* was returned by finish or dropped with the encoder.                     *)
EncoderGone == pc \in {"closed", "dropped"}

Enc == INSTANCE StreamEncoder
Dec == INSTANCE StreamDecoder WITH sourceClosed <- EncoderGone

(* Each end assumes of its parameters what it assumes on its own.          *)
ASSUME EndsAssumption ==
  /\ Enc!InputAssumption /\ Enc!BlockSizeAssumption
  /\ Enc!OptionsAssumption /\ Enc!SizesAssumption
  /\ Dec!DecoderOptionsAssumption /\ Dec!GarbageAssumption /\ Dec!NoHeaderAssumption

encoderVars == <<level, pc, finishing, given, data, buffer, hashed,
                 headerWritten, pending, result, errors, wire>>
channelVars == <<cut, damaged>>
decoderVars == <<dpc, position, aligned, hasStreamChecksum, streamHasher, total,
                 streamFinished, header, delivered, answer, callAgain>>
vars == <<encoderVars, channelVars, decoderVars>>

Init ==
  /\ Enc!Init
  /\ Dec!Init
  /\ cut = Absent
  /\ damaged = {}

Encode == Enc!Next /\ UNCHANGED <<channelVars, decoderVars>>

Decode == Dec!Next /\ UNCHANGED <<channelVars, encoderVars>>

(* The file ends early or the connection breaks, at or inside a cell; what *)
(* the encoder writes from then on is lost.                                *)
Cut ==
  /\ MayCut
  /\ cut = Absent
  /\ cut' \in position .. Len(wire)
  /\ UNCHANGED <<damaged, encoderVars, decoderVars>>

Damage ==
  /\ Cardinality(damaged) < MaxDamage
  /\ \E i \in position + 1 .. Len(wire) :
       /\ wire[i].kind \in Damageable
       /\ damaged' = damaged \cup {i}
  /\ UNCHANGED <<cut, encoderVars, decoderVars>>

Done == EncoderGone /\ Dec!Stopped /\ UNCHANGED vars

Next == Encode \/ Decode \/ Cut \/ Damage \/ Done

Spec == Init /\ [][Next]_vars

(* Each end runs as long as it can; callers and faults are not fair.       *)
FairSpec ==
  /\ Spec
  /\ WF_vars(Enc!CallSteps /\ UNCHANGED <<channelVars, decoderVars>>)
  /\ WF_vars(Decode)

-----------------------------------------------------------------------------
(* The pipe as a lossless stream.                                          *)
Outcome ==
  IF answer = "end" THEN "complete"
  ELSE IF answer \in Dec!Failures THEN "failed"
  ELSE "open"

Lossless ==
  INSTANCE LosslessStream
    WITH sent <- hashed, finished <- finishing, received <- delivered,
         outcome <- Outcome

(* No block header and no sentinel was damaged. No block checksum covers   *)
(* them, and a verified reader may take them for another block or for the  *)
(* end of a stream that has no checksum of its own.                        *)
FramesSpared == \A i \in damaged : wire[i].kind \notin {"block", "eos"}

(* The pipe implements the lossless stream: with block checksums, payload  *)
(* damage, broken checksums, cuts and write errors never put a wrong byte  *)
(* into the output, and without the whole stream there is no clean end,    *)
(* even when no stream checksum is written. It does so up to the step at   *)
(* which a block header or a sentinel is damaged.                          *)
ImplementsLossless ==
  Lossless!Init /\ [][FramesSpared => Lossless!Next]_(Lossless!vars)

(* decompress_to returns Ok only with all that the encoder digested, and   *)
(* only when finish was called: whatever cells were damaged or cut off,    *)
(* block headers and sentinels that read as something else included.       *)
EndMeansComplete ==
  answer = "end" => delivered = hashed /\ finishing

(* A finished stream that met no fault arrives.                            *)
FinishedArrives ==
  pc = "closed" ~> answer = "end" \/ cut # Absent \/ damaged # {}
=============================================================================

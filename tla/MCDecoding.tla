------------------------------ MODULE MCDecoding ------------------------------
(* For TLC: the stream decoder on any wire, and the prefilters with the    *)
(* inversion that it calls for the payload of a block. They share no       *)
(* state: in each behaviour either the wire is empty, and the prefilters   *)
(* are at work once the decoder has given up, or they have not yet begun.  *)
EXTENDS MCStreamDecoder, MCPrefilter

PrefiltersRest == pc = "detect" /\ src = <<>>

DecodingInit ==
  \/ PrefiltersRest /\ PrefilterInit /\ MCInit
  \/ wire = <<>> /\ callAgain = FALSE /\ MCInit /\ PrefilterInit

DecodingNext ==
  \/ MCNext /\ UNCHANGED prefilterVars
  \/ wire = <<>> /\ Stopped /\ PrefilterNext /\ UNCHANGED <<vars, source>>

DecodingSpec ==
  /\ DecodingInit /\ [][DecodingNext]_<<vars, source, prefilterVars>>
  /\ WF_<<vars, source>>(Next /\ UNCHANGED <<source, prefilterVars>>)
=============================================================================

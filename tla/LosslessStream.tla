---------------------------- MODULE LosslessStream ---------------------------
(***************************************************************************)
(* What compressing into a channel and decompressing from it promises: the *)
(* receiver gets the sender's bytes, in order, from the first on; it may   *)
(* be told at any time that the stream failed; and it is told that the     *)
(* stream is complete only when it has every byte of a finished sender.    *)
(***************************************************************************)
EXTENDS SequencesExt

VARIABLES
  sent,       \* the bytes the sender has taken
  finished,   \* the sender will take no more
  received,   \* the bytes the receiver has got
  outcome     \* "open", "complete" or "failed"

vars == <<sent, finished, received, outcome>>

Init ==
  /\ sent = <<>>
  /\ finished = FALSE
  /\ received = <<>>
  /\ outcome = "open"

Send ==
  /\ ~finished
  /\ IsPrefix(sent, sent')
  /\ UNCHANGED <<finished, received, outcome>>

Finish ==
  /\ finished' = TRUE
  /\ UNCHANGED <<sent, received, outcome>>

Receive ==
  /\ outcome = "open"
  /\ IsPrefix(received, received')
  /\ IsPrefix(received', sent)
  /\ UNCHANGED <<sent, finished, outcome>>

Complete ==
  /\ outcome = "open"
  /\ finished
  /\ received = sent
  /\ outcome' = "complete"
  /\ UNCHANGED <<sent, finished, received>>

Fail ==
  /\ outcome = "open"
  /\ outcome' = "failed"
  /\ UNCHANGED <<sent, finished, received>>

Next == Send \/ Finish \/ Receive \/ Complete \/ Fail

Spec == Init /\ [][Next]_vars
=============================================================================

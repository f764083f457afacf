---------------------------- MODULE MCByteFormats -----------------------------
(* For TLC: what is read and written byte by byte. Containers behind the   *)
(* front ends, blocks and descriptors of runs, and the stream hash share   *)
(* no state: in each behaviour one of them is at work, while the others    *)
(* have not yet begun.                                                     *)
EXTENDS MCFrontEnds, MCRunCodes, StreamHash

FrontRests == calls = 0 /\ damaged = "none" /\ files = [txt |-> PlainFile(<<>>)]

RunsRest ==
  /\ usize = CHOOSE u \in Usizes : TRUE
  /\ layout = "block" /\ pc = "head" /\ tables = <<<<>>, <<>>>>

HashRests == hpc = "idle" /\ fed = <<>>

FormatsInit ==
  \/ FrontRests /\ FrontInit /\ Init /\ HashInit
  \/ RunsRest /\ Init /\ FrontInit /\ HashInit

FormatsNext ==
  \/ RunsRest /\ HashRests /\ FrontNext /\ UNCHANGED <<vars, hashVars>>
  \/ FrontRests /\ HashRests /\ Next /\ UNCHANGED <<allVars, hashVars>>
  \/ FrontRests /\ RunsRest /\ HashNext /\ UNCHANGED <<allVars, vars>>

FormatsSpec == FormatsInit /\ [][FormatsNext]_<<allVars, vars, hashVars>>
=============================================================================

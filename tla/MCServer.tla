------------------------------ MODULE MCServer -------------------------------
(* What the server runs for everybody, side by side: the job queue with its  *)
(* workers, and the gate every request passes.  A behaviour is one of a      *)
(* single part, and the other rests where it begins.                         *)
EXTENDS JobQueue, ApiGate, TLC

VARIABLE part

\* Workers, callers and uploads are the same two.
Symmetry == Permutations(Workers)

GateRests == enforced = FALSE /\ GateInit

MCInit ==
    /\ part \in {"queue", "gate"} /\ Init
    /\ part = "gate" \/ GateRests
    /\ part # "gate" \/ GateInit

MCNext ==
    /\ UNCHANGED part
    /\ \/ part = "queue" /\ Next /\ UNCHANGED gateVars
       \/ part = "gate" /\ GateNext /\ UNCHANGED vars

MCSpec == MCInit /\ [][MCNext]_<<part, vars, gateVars>>
==============================================================================

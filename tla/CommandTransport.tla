-------------------------- MODULE CommandTransport --------------------------
(***************************************************************************)
(* What TPM2_SendCommand expects of the transport below it,                *)
(* INTERNAL_SEND_COMMAND: a call that returns success has handed over the  *)
(* complete answer to its own command, which the TPM ran exactly once; a   *)
(* call that fails says nothing of whether the command ran, but it did not *)
(* run twice.                                                              *)
(***************************************************************************)
EXTENDS Naturals

CONSTANT Callers
VARIABLES at,       \* where the last call of each caller is
          ran       \* how often the TPM ran the command of that call

Init == at = [p \in Callers |-> "idle"] /\ ran = [p \in Callers |-> 0]

Call(p) == /\ at[p] # "called"
           /\ at' = [at EXCEPT ![p] = "called"] /\ ran' = [ran EXCEPT ![p] = 0]

\* It may run behind the caller's back, once the call has failed.
Execute(p) == /\ at[p] \in {"called", "fail"} /\ ran[p] = 0
              /\ ran' = [ran EXCEPT ![p] = 1] /\ UNCHANGED at

ReturnOk(p)   == at[p] = "called" /\ ran[p] = 1 /\ at' = [at EXCEPT ![p] = "ok"] /\ UNCHANGED ran
ReturnFail(p) == at[p] = "called" /\ at' = [at EXCEPT ![p] = "fail"] /\ UNCHANGED ran

Next == \E p \in Callers : Call(p) \/ Execute(p) \/ ReturnOk(p) \/ ReturnFail(p)

Spec == Init /\ [][Next]_<<at, ran>>
=============================================================================

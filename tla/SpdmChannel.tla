---------------------------- MODULE SpdmChannel ----------------------------
(***************************************************************************)
(* What an SPDM session promises its user, without messages, keys or       *)
(* sequence numbers: a channel to the TPM that is closed, open or broken,  *)
(* and the number of exchanges it has carried since it was opened.         *)
(***************************************************************************)
EXTENDS Naturals

VARIABLES status, carried

Init == status = "closed" /\ carried = 0

Open  == status = "closed" /\ status' = "open" /\ carried' = 0
\* One exchange, request and answer.
Carry == status = "open" /\ carried' = carried + 1 /\ UNCHANGED status
\* One side lost track of the other: nothing is carried any more.
Break == status = "open" /\ status' = "broken" /\ UNCHANGED carried
Close == status # "closed" /\ status' = "closed" /\ carried' = 0

Next == Open \/ Carry \/ Break \/ Close

Spec == Init /\ [][Next]_<<status, carried>>
=============================================================================

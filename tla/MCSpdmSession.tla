--------------------------- MODULE MCSpdmSession ---------------------------
(***************************************************************************)
(* Values for the constants of SpdmSession.  The responder offers SPDM 1.2 *)
(* and 1.3 (0x12, 0x13), so that an altered VERSION answer can hide the    *)
(* higher one; the requester supports 1.2 to 1.4.                          *)
(***************************************************************************)
EXTENDS SpdmSession, TLC

CONSTANTS p1, p2    \* two pre-shared keys

MCTpmVersions == {18, 19}
MCMinVersion == 18
MCMaxVersion == 20

TwoPsks == {p1, p2}
EitherPsk == Permutations(TwoPsks)   \* keys are only compared
BothHostKeys == {"pair", "tpmt"}
=============================================================================

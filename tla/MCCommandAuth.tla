--------------------------- MODULE MCCommandAuth ---------------------------
(***************************************************************************)
(* An instance of CommandAuth for TLC: sessions by name, commands by the   *)
(* flags of a real one each.                                               *)
(***************************************************************************)
EXTENDS CommandAuth

CONSTANTS h1, p1        \* an HMAC and a policy session
Use(i, s, a) == [slot |-> i, session |-> s, attrs |-> a]

\* A policy session to authorise with, an HMAC session for the parameters in
\* either of the slots behind it, for one command or for many.
AllUses ==
    { Use(0, p1, {"continue"}),
      Use(1, h1, {"continue", "decrypt", "encrypt"}),
      Use(2, h1, {"decrypt"}) }

\* Create, Load: USER1 with ENC and DEC.  Certify: USER1 and USER2.
AllCommands == { {"USER1", "ENC", "DEC"}, {"USER1", "USER2"} }
============================================================================

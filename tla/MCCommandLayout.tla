-------------------------- MODULE MCCommandLayout --------------------------
(***************************************************************************)
(* An instance of CommandLayout for TLC.                                   *)
(***************************************************************************)
EXTENDS CommandLayout

AllCommands == DOMAIN Command

\* Commands whose function is known not to follow the interface.
Wrong == {"PolicyTicket", "CreateLoaded", "GetTestResult", "PCR_Read"}
MCSent == AllCommands \ Wrong

\* The wrapper fills the slots from the first on.
MCSlots == {<<"none", "none", "none">>, <<"pw", "none", "none">>, <<"pw", "enc", "none">>,
            <<"pw", "pw", "none">>, <<"pw", "pw", "enc">>, <<"pol", "enc", "none">>,
            <<"enc", "none", "none">>}
=============================================================================

---------------------------- MODULE SpdmDevice -----------------------------
(***************************************************************************)
(* A program, its WOLFTPM2_DEV and a TPM with SPDM over the life of both:  *)
(* wolfTPM2_Init and wolfTPM2_Cleanup, the wolfTPM2_Spdm* calls that set a *)
(* session up and end it, and the ones that change what the TPM does after *)
(* its next reset (SPDM on or off, SPDM-only mode, identity key, PSK).     *)
(* Every call is a sequence of steps; the TPM may be reset and the program *)
(* may restart between any two.                                            *)
(***************************************************************************)
EXTENDS CommandPath, Sequences

CONSTANTS
    Vendors,        \* of the TPM: "NUVOTON", "NATIONS"
    MaxResets,      \* bound: TPM resets
    MaxCarried      \* bound: exchanges of one session

VARIABLES
    dev,        \* the WOLFTPM2_DEV and the SPDM context in it
    call,       \* the call that runs (todo # << >>) or ran last
    resets

devVars == <<status, carried, tpm, last, faults, dev, call, resets>>

ModesOf(vendor) == IF vendor = "NUVOTON" THEN {"NUVOTON"} ELSE {"NATIONS", "NATIONS_PSK"}
InvalidArg == -1
NotConnected == -3

\* XMEMSET(dev, 0, ...).  spdm: dev->spdmCtx is set and its context initialised.
\* used: reqSeqNum or rspSeqNum is not 0, outside a session (in a session they are
\* 0 just while it has carried nothing).
NoSpdm == [spdm |-> FALSE, io |-> FALSE, mode |-> "none", pair |-> "none",
           tpmt |-> "none", psk |-> "none", locked |-> FALSE, used |-> FALSE]
Zeroed == [up |-> FALSE, c |-> NoSpdm]
NoCall == [api |-> "none", todo |-> << >>, rc |-> 0, ran |-> 0, clean |-> TRUE,
           able |-> FALSE, open |-> FALSE, set |-> FALSE]

DeviceInit ==
    /\ Init /\ faults = 0 /\ resets = 0
    /\ \E vendor \in Vendors : tpm = TpmFresh(vendor)
    /\ dev = Zeroed /\ call = NoCall
    /\ last = NoCommand

-----------------------------------------------------------------------------
(* Calls and their steps.                                                  *)

Idle == call.todo = << >>
\* able: nothing but a fault can keep the call from doing its work.
Begin(api, todo, set, able) ==
    /\ Idle
    /\ call' = [NoCall EXCEPT !.api = api, !.todo = todo, !.set = set, !.able = able,
                              !.open = (status = "open")]
Return(api, rc) == Idle /\ call' = [NoCall EXCEPT !.api = api, !.rc = rc]

At(step) == ~Idle /\ Head(call.todo) = step
Done(todo, rc, ran) ==
    call' = [call EXCEPT !.todo = todo, !.rc = rc, !.ran = @ + ran,
                         !.clean = @ /\ faults' = faults]
Go(rc, ran)   == Done(Tail(call.todo), rc, ran)
Stop(rc, ran) == Done(<< >>, rc, ran)

\* A step that sends no TPM command.
Local == UNCHANGED <<status, carried, tpm, faults, resets>> /\ last' = NoCommand
\* The program uses a device that wolfTPM2_Init has set up.
Up == dev.up /\ ~(call.api = "Init" /\ call.rc # 0)
MayCarry == carried + 2 <= MaxCarried

-----------------------------------------------------------------------------
(* wolfTPM2_Init.                                                          *)

wolfTPM2_Init == /\ ~dev.up /\ Begin("Init", <<"startup">>, FALSE, TRUE)
                 /\ dev' = [Zeroed EXCEPT !.up = TRUE] /\ Local

\* The TPM2_Startup of wolfTPM2_Init_ex; TPM_RC_DISABLED tells SPDM-only mode,
\* and a session is to be opened before the command is sent again.
Startup ==
    /\ At("startup") \/ At("startup again")
    /\ \E rc \in Rcs, ran \in {0, 1, 2} :
          /\ SendCommand(Cmd("Startup", FALSE), rc, ran)
          /\ IF rc \in {0, Initialize} THEN Go(0, ran)
             ELSE IF rc = Disabled /\ At("startup")
             THEN Done(<<"spdminit", "connect", "startup again">>, 0, ran)
             ELSE Stop(rc, ran)
    /\ UNCHANGED <<dev, resets>>

\* wolfTPM2_SpdmInit; the random generator of wolfSPDM_Init may fail.
SpdmInit ==
    /\ At("spdminit") /\ UNCHANGED <<status, carried, tpm, resets>> /\ last' = NoCommand
    /\ \/ /\ UNCHANGED faults /\ Go(0, 0)
          /\ dev' = IF dev.c.spdm THEN dev ELSE [dev EXCEPT !.c = [NoSpdm EXCEPT !.spdm = TRUE]]
       \/ ~dev.c.spdm /\ Fault /\ Stop(IoFail, 0) /\ UNCHANGED dev
wolfTPM2_SpdmInit == /\ Up /\ Begin("SpdmInit", <<"spdminit">>, FALSE, TRUE)
                     /\ UNCHANGED dev /\ Local

-----------------------------------------------------------------------------
(* Sessions.                                                               *)

\* What the responder asks of the requester: its mode provisioned, the key of
\* GIVE_PUB the one that signs, the same PSK, and a first record with number 0.
\* Without a key pair it depends on whether mutual authentication is asked for.
MayOpen(t, c) ==
    /\ t.spdm /\ ~c.used
    /\ CASE c.mode = "NUVOTON" -> t.vendor = "NUVOTON" /\ c.pair = c.tpmt
         [] c.mode = "NATIONS" -> t.vendor = "NATIONS" /\ t.idKey
         [] c.mode = "NATIONS_PSK" -> t.vendor = "NATIONS" /\ t.psk # "none" /\ c.psk = t.psk
         [] OTHER -> FALSE
MustOpen(t, c) == MayOpen(t, c) /\ (c.mode # "NATIONS_PSK" => c.pair # "none")

\* wolfSPDM_Connect: the early returns, then the handshake, which first forgets
\* the session there was, but goes on from its sequence numbers.  It uses the PSK
\* up; one that fails behind KEY_EXCHANGE has sealed records and counted them.
Refused(c) == CASE ~c.io -> IoFail
                [] c.io /\ c.mode = "none" -> InvalidArg
                [] c.io /\ c.mode = "NATIONS_PSK" /\ c.psk = "none" -> NotConnected
                [] OTHER -> 0
SpentBy(psk, used) == dev' = [dev EXCEPT !.c.psk = psk, !.c.used = used]
Handshake ==
    /\ last' = NoCommand
    /\ \/ /\ MayOpen(tpm, dev.c) /\ Open /\ UNCHANGED faults /\ Go(0, 0)
          /\ tpm' = [tpm EXCEPT !.session = TRUE] /\ dev' = [dev EXCEPT !.c.psk = "none"]
       \/ /\ ~MustOpen(tpm, dev.c) /\ UNCHANGED <<status, carried, faults>> /\ Stop(IoFail, 0)
          /\ tpm' = [tpm EXCEPT !.session = @ /\ ~tpm.spdm]
          /\ \E psk \in {dev.c.psk, "none"}, used \in {dev.c.used, TRUE} : SpentBy(psk, used)
       \/ /\ Fault /\ UNCHANGED <<status, carried>> /\ Stop(IoFail, 0)
          /\ \E s \in {tpm.session, tpm.session /\ ~tpm.spdm, MayOpen(tpm, dev.c)} :
                tpm' = [tpm EXCEPT !.session = s]
          /\ \E psk \in {dev.c.psk, "none"}, used \in {dev.c.used, TRUE} : SpentBy(psk, used)
\* reqSeqNum and rspSeqNum as a session leaves them; where an exchange has failed
\* in it, or the TPM was reset, there may have been one more.
NumbersKept == IF status = "open" THEN {carried > 0} ELSE {carried > 0, TRUE}
Connect ==
    /\ At("connect") /\ UNCHANGED resets
    /\ \/ /\ Refused(dev.c) # 0 /\ UNCHANGED <<status, carried, tpm, faults, dev>> /\ last' = NoCommand
          /\ Stop(Refused(dev.c), 0)
       \/ /\ Refused(dev.c) = 0 /\ Close /\ UNCHANGED <<tpm, faults, call>> /\ last' = NoCommand
          /\ \E used \in NumbersKept : dev' = [dev EXCEPT !.c.used = used]
       \/ Refused(dev.c) = 0 /\ status = "closed" /\ Handshake

\* The TPM is provisioned for this context, whose numbers are 0.
Able(c) == MustOpen(tpm, c) /\ (status = "closed" \/ (status = "open" /\ carried = 0))
wolfTPM2_SpdmConnect ==
    /\ Up /\ dev.c.spdm
    /\ Begin("SpdmConnect", <<"connect">>, FALSE, Refused(dev.c) = 0 /\ Able(dev.c))
    /\ UNCHANGED dev /\ Local

\* wolfTPM2_SpdmSetNuvotonMode, wolfTPM2_SpdmSetNationsMode, also while connected.
wolfTPM2_SpdmSetMode(mode) ==
    /\ Up /\ dev.c.spdm /\ mode # "NATIONS_PSK" /\ Return("SetMode", 0)
    /\ dev' = [dev EXCEPT !.c.mode = mode] /\ Local

TisIOLeft(c) == c           \* a slip: the callback is left to the program
wolfTPM2_SPDM_SetTisIO(c) == [c EXCEPT !.io = TRUE]

\* The key pair of the requester: the program's TPMT_PUBLIC, parsed, checked and
\* kept (the pair may be taken and the TPMT_PUBLIC not), or a fresh P-384 key.
\* The contexts behind it, with what the call returns.
HostKey(c) ==
    {[ok |-> TRUE,  c |-> [c EXCEPT !.pair = k, !.tpmt = k]] : k \in {"program", "fresh"}}
    \cup {[ok |-> FALSE, c |-> c], [ok |-> FALSE, c |-> [c EXCEPT !.pair = "program"]]}

\* wolfTPM2_SpdmConnectNuvoton and wolfTPM2_SpdmConnectNations.
ConnectWithKey(mode) ==
    /\ Up /\ dev.c.spdm
    /\ \E key \in HostKey([wolfTPM2_SPDM_SetTisIO(dev.c) EXCEPT !.mode = mode]) :
          /\ dev' = [dev EXCEPT !.c = key.c]
          /\ \/ key.ok /\ Begin("Connect", <<"connect">>, FALSE, Able(key.c))
             \/ ~key.ok /\ Return("Connect", InvalidArg)
    /\ Local
wolfTPM2_SpdmConnectNationsPsk(psk) ==
    LET c == [wolfTPM2_SPDM_SetTisIO(dev.c) EXCEPT !.mode = "NATIONS_PSK", !.psk = psk]
    IN  /\ Up /\ dev.c.spdm /\ dev' = [dev EXCEPT !.c = c]
        /\ Begin("Connect", <<"connect">>, FALSE, Able(c)) /\ Local

\* wolfSPDM_Disconnect: END_SESSION, and the session is over for this side.
EndSession(rc) ==
    /\ Close
    /\ \/ rc = 0 /\ status = "open" /\ UNCHANGED faults /\ tpm' = [tpm EXCEPT !.session = FALSE]
       \/ rc = IoFail /\ status = "open" /\ Fault
          /\ \E s \in BOOLEAN : tpm' = [tpm EXCEPT !.session = s]
       \/ rc = IoFail /\ status = "broken" /\ UNCHANGED <<faults, tpm>>
wolfTPM2_SpdmDisconnect ==
    /\ Up /\ dev.c.spdm /\ status # "closed" /\ Idle
    /\ \E rc \in {0, IoFail} : /\ EndSession(rc)
                               /\ call' = [NoCall EXCEPT !.api = "SpdmDisconnect", !.rc = rc,
                                                         !.clean = (faults' = faults)]
    /\ UNCHANGED <<dev, resets>> /\ last' = NoCommand

\* wolfTPM2_SpdmCleanup: wolfTPM2_SPDM_FreeCtx erases the context; the TPM is
\* not told.
FreeCtx == IF status = "closed" THEN UNCHANGED <<status, carried>> ELSE Close
wolfTPM2_SpdmCleanup ==
    /\ Up /\ dev.c.spdm /\ Return("SpdmCleanup", 0)
    /\ FreeCtx /\ dev' = [dev EXCEPT !.c = NoSpdm]
    /\ UNCHANGED <<tpm, faults, resets>> /\ last' = NoCommand

-----------------------------------------------------------------------------
(* What the TPM does after its next reset.                                 *)

\* wolfTPM2_SPDM_Enable (set) and wolfTPM2_SPDM_Disable; slot 0 holds the empty
\* password.  The configuration read decides whether one is written.
wolfTPM2_SpdmEnable(set) ==
    /\ Up /\ dev.c.spdm /\ tpm.vendor = "NUVOTON" /\ MayCarry
    /\ Begin("SpdmEnable", <<"getconfig", "preconfig">>, set, FALSE)
    /\ UNCHANGED dev /\ Local
GetConfig ==
    /\ At("getconfig") /\ UNCHANGED <<dev, resets>>
    /\ \E rc \in Rcs, ran \in {0, 1, 2} :
          /\ SendCommand(Cmd("GetConfig", FALSE), rc, ran)
          /\ \/ rc = 0 /\ tpm.spdmNext # call.set /\ Go(0, 0)
             \/ (rc # 0 \/ tpm.spdmNext = call.set) /\ Stop(rc, 0)
PreConfig ==
    /\ At("preconfig") /\ UNCHANGED <<dev, resets>>
    /\ \E rc \in Rcs, ran \in {0, 1, 2} :
          SendCommand(Cmd("PreConfig", call.set), rc, ran) /\ Go(rc, ran)

\* wolfTPM2_SpdmSetOnlyMode, wolfTPM2_SpdmNationsSetOnlyMode (which keeps no
\* note of it): a vendor command of the session.
SetOnlyMode(lock) ==
    /\ Up /\ dev.c.spdm /\ status # "closed" /\ MayCarry /\ Idle
    /\ \/ /\ Carry /\ UNCHANGED faults /\ call' = [NoCall EXCEPT !.api = "SetOnlyMode"]
          /\ tpm' = [tpm EXCEPT !.onlyNext = lock]
          /\ dev' = IF tpm.vendor = "NUVOTON" THEN [dev EXCEPT !.c.locked = lock] ELSE dev
       \/ /\ Break /\ Fault /\ Return("SetOnlyMode", IoFail) /\ UNCHANGED dev
          /\ tpm' \in {tpm, [tpm EXCEPT !.onlyNext = lock]}
       \/ /\ status = "broken" /\ Return("SetOnlyMode", IoFail)
          /\ UNCHANGED <<status, carried, faults, tpm, dev>>
    /\ UNCHANGED resets /\ last' = NoCommand

\* wolfTPM2_SpdmNationsIdentityKeySet, by a TPM command; and any other command
\* of the program, TPM2_Startup among them.
Command(cmd) ==
    /\ Up /\ MayCarry /\ Idle
    /\ \E rc \in Rcs, ran \in {0, 1, 2} :
          /\ SendCommand(cmd, rc, ran)
          /\ call' = [NoCall EXCEPT !.api = cmd.name, !.rc = rc, !.ran = ran]
    /\ UNCHANGED <<dev, resets>>
wolfTPM2_SpdmNationsIdentityKeySet(set) ==
    tpm.vendor = "NATIONS" /\ Command(Cmd("IdentityKeySet", set))
TPM2_Startup == Command(Cmd("Startup", FALSE))
TPM2_Command == Command(Cmd("Command", FALSE))

\* wolfTPM2_SpdmNationsPskSet, wolfTPM2_SpdmNationsPskClear (psk = "none"): clear
\* vendor messages.
wolfTPM2_SpdmNationsPskSet(psk) ==
    /\ Up /\ dev.c.spdm /\ dev.c.io /\ tpm.vendor = "NATIONS" /\ status = "closed"
    /\ LET taken == [tpm EXCEPT !.psk = psk, !.session = FALSE]
       IN  \/ ~tpm.idKey /\ UNCHANGED faults /\ tpm' = taken /\ Return("PskSet", 0)
           \/ tpm.idKey /\ UNCHANGED <<faults, tpm>> /\ Return("PskSet", IoFail)
           \/ Fault /\ tpm' \in {tpm} \cup (IF tpm.idKey THEN {} ELSE {taken}) /\ Return("PskSet", IoFail)
    /\ UNCHANGED <<status, carried, dev, resets>> /\ last' = NoCommand

-----------------------------------------------------------------------------
(* wolfTPM2_Cleanup.                                                       *)

CleanupEndsFirst == <<"end", "shutdown">>       \* a slip: the session goes first
CleanupSteps == <<"shutdown", "end">>
wolfTPM2_Cleanup ==
    /\ Up /\ UNCHANGED dev /\ Local
    /\ Begin("Cleanup", CleanupSteps, FALSE, tpm.started /\ (status = "open" \/ ~tpm.only))

\* TPM2_Shutdown; whatever it returns, the cleanup goes on.
Shutdown ==
    /\ At("shutdown") /\ UNCHANGED <<dev, resets>>
    /\ \E rc \in Rcs, ran \in {0, 1, 2} :
          /\ SendCommand(Cmd("Shutdown", FALSE), rc, ran)
          /\ Go(IF rc = Disabled THEN 0 ELSE rc, ran)

\* END_SESSION if there is a session, then wolfTPM2_SpdmCleanup, TPM2_Cleanup.
CleanupUntold == UNCHANGED <<tpm, faults>> /\ FreeCtx        \* a slip: no END_SESSION
CleanupSession ==
    \/ status = "closed" /\ UNCHANGED <<status, carried, tpm, faults>>
    \/ \E rc \in {0, IoFail} : EndSession(rc)
Cleanup == /\ At("end") /\ CleanupSession /\ Go(call.rc, 0)
           /\ dev' = Zeroed /\ UNCHANGED resets /\ last' = NoCommand

-----------------------------------------------------------------------------
(* Around the calls.                                                       *)

\* After a failed wolfTPM2_Init the program does not use the device.
InitFailed == /\ Idle /\ call.api = "Init" /\ call.rc # 0 /\ dev.up
              /\ dev' = Zeroed /\ FreeCtx /\ UNCHANGED <<tpm, faults, call, resets>> /\ last' = NoCommand

TpmReset ==
    /\ resets < MaxResets /\ resets' = resets + 1 /\ tpm' = TpmAfterReset(tpm)
    /\ IF status = "open" THEN Break ELSE UNCHANGED <<status, carried>>
    /\ call' = IF Idle THEN NoCall ELSE [call EXCEPT !.clean = FALSE]
    /\ UNCHANGED <<dev, faults>> /\ last' = NoCommand

\* The program ends anywhere, without a cleanup, and starts again.
HostRestart ==
    /\ Fault /\ dev.up /\ FreeCtx /\ dev' = Zeroed /\ call' = NoCall
    /\ UNCHANGED <<tpm, resets>> /\ last' = NoCommand

Calls ==
    \/ wolfTPM2_Init \/ wolfTPM2_SpdmInit \/ wolfTPM2_SpdmConnect \/ wolfTPM2_SpdmDisconnect
    \/ wolfTPM2_SpdmCleanup \/ wolfTPM2_Cleanup \/ TPM2_Startup \/ TPM2_Command
    \/ \E mode \in ModesOf(tpm.vendor) : wolfTPM2_SpdmSetMode(mode)
    \/ \E mode \in ModesOf(tpm.vendor) \ {"NATIONS_PSK"} : ConnectWithKey(mode)
    \/ tpm.vendor = "NATIONS" /\ \E psk \in Psks : wolfTPM2_SpdmConnectNationsPsk(psk)
    \/ \E psk \in Psks \cup {"none"} : wolfTPM2_SpdmNationsPskSet(psk)
    \/ \E set \in BOOLEAN : \/ wolfTPM2_SpdmEnable(set) \/ SetOnlyMode(set)
                            \/ wolfTPM2_SpdmNationsIdentityKeySet(set)
Steps == \/ Startup \/ SpdmInit \/ Connect \/ GetConfig \/ PreConfig
         \/ Shutdown \/ Cleanup

DeviceNext == Calls \/ Steps \/ InitFailed \/ TpmReset \/ HostRestart
DeviceSpec == DeviceInit /\ [][DeviceNext]_devVars

-----------------------------------------------------------------------------
(* Properties.                                                             *)

SpdmContext == [spdm : BOOLEAN, io : BOOLEAN, mode : {"none", "NUVOTON", "NATIONS", "NATIONS_PSK"},
                pair : {"none", "program", "fresh"}, tpmt : {"none", "program", "fresh"},
                psk : Psks \cup {"none"}, locked : BOOLEAN, used : BOOLEAN]
TpmState == [vendor : Vendors, started : BOOLEAN, session : BOOLEAN, psk : Psks \cup {"none"},
             idKey : BOOLEAN, spdm : BOOLEAN, spdmNext : BOOLEAN, only : BOOLEAN, onlyNext : BOOLEAN]
StepNames == {"startup", "spdminit", "connect", "startup again", "getconfig", "preconfig",
              "shutdown", "end"}
Apis == {"none", "Init", "SpdmInit", "SpdmConnect", "SetMode", "Connect", "SpdmDisconnect", "SpdmCleanup",
         "SpdmEnable", "SetOnlyMode", "IdentityKeySet", "Startup", "Command", "PskSet", "Cleanup"}
CallState == [api : Apis, todo : Seq(StepNames), rc : Int, ran : Nat, clean : BOOLEAN,
              able : BOOLEAN, open : BOOLEAN, set : BOOLEAN]
DeviceTypeOK ==
    /\ status \in {"closed", "open", "broken"} /\ carried \in Nat
    /\ tpm \in TpmState /\ dev \in [up : BOOLEAN, c : SpdmContext] /\ call \in CallState
    /\ faults \in Nat /\ resets \in Nat

\* wolfTPM2_SpdmConnectNuvoton, -Nations and -NationsPsk, on a TPM that is
\* provisioned for the call, with nothing lost on the way and from sequence numbers
\* that are 0, open the channel, whatever else the calls before left behind:
\* another mode, other keys, a session the TPM still has.  The numbers are 0 after
\* SpdmInit and SpdmDisconnect, and after a handshake that failed before its keys;
\* after one that failed later, or in place of a session that was used or lost,
\* the call cannot succeed, and the context has to be freed first.
CleanConnect == Idle /\ call.api = "Connect" /\ call.able /\ call.clean
                => call.rc = 0 /\ status = "open"

\* wolfTPM2_Cleanup shuts a started TPM down, also one in SPDM-only mode, as long
\* as the session is there to carry the command.
ShutdownReaches == Idle /\ call.api = "Cleanup" /\ call.able /\ call.clean => call.ran > 0

\* With nothing lost, wolfTPM2_Cleanup leaves no session open in the TPM that
\* was open when it was called.
SessionEnds == Idle /\ call.api = "Cleanup" /\ call.open /\ call.clean => ~tpm.session
=============================================================================

---------------------------- MODULE CommandPath ----------------------------
(***************************************************************************)
(* The way a TPM command takes: TPM2_SendCommand (and TPM2_SendCommandAuth, *)
(* which decides alike) tries the SPDM channel and falls back to the plain  *)
(* transport by the sign of the return code.  The channel is the abstract   *)
(* one of SpdmChannel, which SpdmSession implements: open while both ends   *)
(* agree, broken when only ctx->state says CONNECTED.  Module SpdmDevice    *)
(* puts the calls of a program around it.                                   *)
(***************************************************************************)
EXTENDS Integers, SpdmChannel

CONSTANTS
    AnswerSize,         \* bytes of a TPM answer, at least TPM2_HEADER_SIZE
    Psks,               \* pre-shared keys
    MaxFaults           \* bound: messages lost, restarts of the program

ASSUME AnswerAssumption == AnswerSize \in Nat /\ AnswerSize >= 10
ASSUME FaultAssumption == MaxFaults \in Nat

VARIABLES
    tpm,        \* the TPM
    last,       \* history of the command just sent: its return code, how often
                \* the TPM ran it, what it met
    faults

NotActive  == -1        \* TPM2_SPDM_SendCommand without a session
IoFail     == -8        \* WOLFSPDM_E_IO_FAIL
Initialize == 256       \* TPM_RC_INITIALIZE
Disabled   == 288       \* TPM_RC_DISABLED
Value      == 132       \* TPM_RC_VALUE

Fault == faults < MaxFaults /\ faults' = faults + 1

-----------------------------------------------------------------------------
(* The TPM (external).  Changes of its SPDM configuration wait for a reset *)
(* (src/examples/spdm/README.md:94).  PSK and identity key exclude each     *)
(* other.                                                                  *)

TpmFresh(vendor) ==
    [vendor |-> vendor, started |-> FALSE, session |-> FALSE, psk |-> "none",
     idKey |-> vendor = "NATIONS", spdm |-> vendor = "NATIONS", spdmNext |-> vendor = "NATIONS",
     only |-> FALSE, onlyNext |-> FALSE]
TpmAfterReset(t) ==
    [t EXCEPT !.started = FALSE, !.session = FALSE, !.spdm = t.spdmNext, !.only = t.onlyNext]

\* A command is its name and the setting it carries.
Cmd(name, set) == [name |-> name, set |-> set]
TpmRc(t, cmd) ==
    CASE cmd.name = "Startup" -> IF t.started THEN Initialize ELSE 0
      [] cmd.name # "Startup" /\ ~t.started -> Initialize
      [] cmd.name = "IdentityKeySet" /\ t.started /\ t.psk # "none" -> Value
      [] OTHER -> 0
TpmAfter(t, cmd) ==
    CASE TpmRc(t, cmd) # 0 -> t
      [] TpmRc(t, cmd) = 0 /\ cmd.name = "Startup"  -> [t EXCEPT !.started = TRUE]
      [] TpmRc(t, cmd) = 0 /\ cmd.name = "Shutdown" -> [t EXCEPT !.started = FALSE]
      [] TpmRc(t, cmd) = 0 /\ cmd.name = "PreConfig" -> [t EXCEPT !.spdmNext = cmd.set]
      [] TpmRc(t, cmd) = 0 /\ cmd.name = "IdentityKeySet" -> [t EXCEPT !.idKey = cmd.set]
      [] OTHER -> t
Runs(t, cmd) == IF TpmRc(t, cmd) = 0 THEN 1 ELSE 0

-----------------------------------------------------------------------------
\* wolfTPM2_SPDM_SecuredExchange: rc, how often the TPM runs the command, and
\* the TPM behind it.  What wolfSPDM_ParseVendorDefined returns, the size of
\* the answer, is returned as it is.
SecuredExchange(cmd, rc, ran, t) ==
    \/ /\ Carry /\ UNCHANGED faults
       /\ rc = AnswerSize /\ ran = Runs(tpm, cmd) /\ t = TpmAfter(tpm, cmd)
    \/ /\ Break /\ Fault /\ rc = IoFail
       /\ \/ ran = 0 /\ t = tpm
          \/ ran = Runs(tpm, cmd) /\ t = TpmAfter(tpm, cmd)
    \/ /\ status = "broken" /\ UNCHANGED <<status, carried, faults>>
       /\ rc = IoFail /\ ran = 0 /\ t = tpm

\* TPM2_SPDM_SendCommand; wolfSPDM_IsConnected looks at ctx->state.
SPDM_SendCommand(cmd, rc, ran, t) ==
    IF status = "closed"
    THEN rc = NotActive /\ ran = 0 /\ t = tpm /\ UNCHANGED <<status, carried, faults>>
    ELSE SecuredExchange(cmd, rc, ran, t)

\* INTERNAL_SEND_COMMAND with the answer of the TPM.
PlainRc(t, cmd) == IF t.only THEN Disabled ELSE TpmRc(t, cmd)

\* TPM2_SendCommand: cmd is sent, rc returned, the TPM ran it this often.
SendCommand(cmd, rc, ran) ==
    \E rc1 \in {AnswerSize, NotActive, IoFail}, ran1 \in {0, 1} :
    \E t \in {tpm, TpmAfter(tpm, cmd)} :
       /\ SPDM_SendCommand(cmd, rc1, ran1, t)
       /\ \/ rc1 >= 0 /\ rc = rc1 /\ ran = ran1 /\ tpm' = t
          \/ /\ rc1 < 0 /\ rc = PlainRc(t, cmd)
             /\ ran = ran1 + (IF rc = 0 THEN 1 ELSE 0)
             /\ tpm' = IF rc = 0 THEN TpmAfter(t, cmd) ELSE t
       /\ last' = [rc |-> rc, ran |-> ran, fault |-> faults' # faults]
NoCommand == [rc |-> 0, ran |-> 0, fault |-> FALSE]
Rcs == {AnswerSize, 0, Initialize, Disabled, Value}

\* A command that the TPM ran, with nothing lost, is reported as a success.
RanIsSuccess == last.ran > 0 /\ ~last.fault => last.rc = 0
=============================================================================

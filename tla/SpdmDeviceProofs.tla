-------------------------- MODULE SpdmDeviceProofs --------------------------
(***************************************************************************)
(* Theorems about SpdmDevice, for any vendors, pre-shared keys and bounds: *)
(* type correctness and what a connecting and a cleaning up call promise   *)
(* the program that makes it.                                              *)
(***************************************************************************)
EXTENDS SpdmDevice, TLAPS

-----------------------------------------------------------------------------
(* Types.                                                                  *)

\* What TPM2_SendCommand does leaves channel, TPM and fault count well typed.
LEMMA TpmAfterType ==
    ASSUME NEW t \in TpmState, NEW cmd, cmd.set \in BOOLEAN
    PROVE  TpmAfter(t, cmd) \in TpmState
BY DEF TpmAfter, TpmState

LEMMA SendType ==
    ASSUME DeviceTypeOK, NEW cmd, cmd.set \in BOOLEAN, NEW rc, NEW ran, SendCommand(cmd, rc, ran)
    PROVE  /\ status' \in {"closed", "open", "broken"} /\ carried' \in Nat
           /\ tpm' \in TpmState /\ faults' \in Nat
<1>1. PICK rc1 \in {AnswerSize, NotActive, IoFail}, ran1 \in {0, 1}, t \in {tpm, TpmAfter(tpm, cmd)} :
         /\ SPDM_SendCommand(cmd, rc1, ran1, t)
         /\ tpm' \in {t, TpmAfter(t, cmd)}
  BY DEF SendCommand
<1>2. t \in TpmState
  BY TpmAfterType DEF DeviceTypeOK
<1>3. tpm' \in TpmState
  BY <1>1, <1>2, TpmAfterType
<1>4. status' \in {"closed", "open", "broken"} /\ carried' \in Nat /\ faults' \in Nat
  BY <1>1 DEF SPDM_SendCommand, SecuredExchange, Carry, Break, Fault, DeviceTypeOK
<1> QED
  BY <1>3, <1>4

\* The record of a call, as it begins, as a step of it ends, as it returns.
LEMMA NoCallType == NoCall \in CallState
<1>1. << >> \in Seq(StepNames)
  OBVIOUS
<1> QED
  BY <1>1 DEF NoCall, CallState, Apis

LEMMA BeginType ==
    ASSUME NEW api \in Apis, NEW todo \in Seq(StepNames), NEW set \in BOOLEAN,
           NEW able \in BOOLEAN, Begin(api, todo, set, able)
    PROVE  call' \in CallState
<1>1. \A open \in BOOLEAN :
         [NoCall EXCEPT !.api = api, !.todo = todo, !.set = set, !.able = able, !.open = open]
            \in CallState
  BY NoCallType DEF CallState
<1>2. (status = "open") \in BOOLEAN
  OBVIOUS
<1> QED
  BY <1>1, <1>2, Zenon DEF Begin

LEMMA ReturnType ==
    ASSUME NEW api \in Apis, NEW rc \in Int, Return(api, rc)
    PROVE  call' \in CallState
BY NoCallType DEF CallState, Return

LEMMA DoneType ==
    ASSUME call \in CallState, NEW todo \in Seq(StepNames), NEW rc \in Int, NEW ran \in Nat,
           Done(todo, rc, ran)
    PROVE  call' \in CallState
<1>1. \A clean \in BOOLEAN :
         [call EXCEPT !.todo = todo, !.rc = rc, !.ran = @ + ran, !.clean = clean] \in CallState
  <2>1. call.ran + ran \in Nat
    BY DEF CallState
  <2> QED
    BY <2>1 DEF CallState
<1>2. (call.clean /\ faults' = faults) \in BOOLEAN
  OBVIOUS
<1> QED
  BY <1>1, <1>2, Zenon DEF Done

LEMMA StepType ==
    ASSUME DeviceTypeOK, ~Idle, NEW rc \in Int, NEW ran \in Nat
    PROVE  Go(rc, ran) \/ Stop(rc, ran) => call' \in CallState
<1>1. call.todo \in Seq(StepNames) /\ call.todo # << >>
  BY DEF DeviceTypeOK, CallState, Idle
<1>2. Tail(call.todo) \in Seq(StepNames) /\ << >> \in Seq(StepNames)
  BY <1>1
<1> QED
  BY <1>2, DoneType DEF Go, Stop, DeviceTypeOK

LEMMA RcType == Rcs \subseteq Int /\ IoFail \in Int /\ InvalidArg \in Int
BY AnswerAssumption DEF Rcs, Initialize, Disabled, Value, IoFail, InvalidArg

LEMMA NumbersAre ==
    /\ NumbersKept \subseteq BOOLEAN
    /\ status = "open" => \A used \in NumbersKept : used = (carried > 0)
<1>1. (carried > 0) \in BOOLEAN
  OBVIOUS
<1> QED
  BY <1>1, Zenon DEF NumbersKept

\* Every state of the program's device, its call and the TPM is well typed.
THEOREM DeviceTypeCorrect == DeviceSpec => []DeviceTypeOK
<1>1. DeviceInit => DeviceTypeOK
  BY NoCallType DEF DeviceInit, Init, DeviceTypeOK, TpmFresh, TpmState, Zeroed, NoSpdm, SpdmContext
<1>2. DeviceTypeOK /\ [DeviceNext]_devVars => DeviceTypeOK'
  <2> SUFFICES ASSUME DeviceTypeOK, [DeviceNext]_devVars PROVE DeviceTypeOK'
    OBVIOUS
  <2>z. Zeroed \in [up : BOOLEAN, c : SpdmContext] /\ NoSpdm \in SpdmContext
        /\ [Zeroed EXCEPT !.up = TRUE] \in [up : BOOLEAN, c : SpdmContext]
    BY DEF Zeroed, NoSpdm, SpdmContext
  <2>q. /\ \A a \in {<<"startup">>, <<"spdminit">>, <<"connect">>} : a \in Seq(StepNames)
        /\ \A a \in {<<"getconfig", "preconfig">>, <<"shutdown", "end">>} : a \in Seq(StepNames)
        /\ <<"spdminit", "connect", "startup again">> \in Seq(StepNames)
    BY DEF StepNames
  <2>c. ASSUME NEW c \in SpdmContext PROVE [dev EXCEPT !.c = c] \in [up : BOOLEAN, c : SpdmContext]
    BY DEF DeviceTypeOK
  <2>k. dev.c \in SpdmContext
    BY DEF DeviceTypeOK
  <2>p. [dev EXCEPT !.c.psk = "none"] \in [up : BOOLEAN, c : SpdmContext]
    BY <2>k DEF DeviceTypeOK, SpdmContext
  <2>u. \A psk \in {dev.c.psk, "none"}, used \in {dev.c.used, TRUE} :
           [dev EXCEPT !.c.psk = psk, !.c.used = used] \in [up : BOOLEAN, c : SpdmContext]
    <3>1. \A psk \in Psks \cup {"none"}, used \in BOOLEAN :
             [dev EXCEPT !.c.psk = psk, !.c.used = used] \in [up : BOOLEAN, c : SpdmContext]
      BY <2>k DEF DeviceTypeOK, SpdmContext
    <3>2. dev.c.psk \in Psks \cup {"none"} /\ dev.c.used \in BOOLEAN
      BY <2>k DEF SpdmContext
    <3>3. \A psk \in {dev.c.psk, "none"} : psk \in Psks \cup {"none"}
      BY <3>2
    <3>4. \A used \in {dev.c.used, TRUE} : used \in BOOLEAN
      BY <3>2, Zenon
    <3> QED
      BY <3>1, <3>3, <3>4, Zenon
  <2>l. ASSUME Local, call' \in CallState, dev' \in [up : BOOLEAN, c : SpdmContext]
        PROVE  DeviceTypeOK'
    BY <2>l DEF Local, DeviceTypeOK
  <2>s. ASSUME NEW s \in BOOLEAN PROVE [tpm EXCEPT !.session = s] \in TpmState
    BY DEF DeviceTypeOK, TpmState
  <2>f. Fault => faults' \in Nat
    BY DEF Fault, DeviceTypeOK
  <2>e. ASSUME NEW rc, EndSession(rc)
        PROVE  /\ status' \in {"closed", "open", "broken"} /\ carried' \in Nat
               /\ tpm' \in TpmState /\ faults' \in Nat
    BY <2>e, <2>f, <2>s DEF EndSession, Close, DeviceTypeOK
  <2>1. CASE wolfTPM2_Init
    <3>1. call' \in CallState
      BY <2>1, <2>q, BeginType DEF wolfTPM2_Init, StepNames, Apis
    <3> QED
      BY <2>1, <3>1, <2>z, <2>l DEF wolfTPM2_Init
  <2>2. CASE Startup
    <3> DEFINE cmd == Cmd("Startup", FALSE)
    <3>1. PICK rc \in Rcs, ran \in {0, 1, 2} :
             /\ SendCommand(cmd, rc, ran)
             /\ \/ Go(0, ran) \/ Stop(rc, ran)
                \/ Done(<<"spdminit", "connect", "startup again">>, 0, ran)
      BY <2>2 DEF Startup
    <3>2. ~Idle
      BY <2>2 DEF Startup, At
    <3>3. call' \in CallState
      <4>1. rc \in Int /\ ran \in Nat /\ 0 \in Int /\ call \in CallState
        BY RcType DEF DeviceTypeOK
      <4>2. ASSUME Done(<<"spdminit", "connect", "startup again">>, 0, ran) PROVE call' \in CallState
        BY <2>q, <4>1, <4>2, DoneType
      <4>3. ASSUME Go(0, ran) \/ Stop(rc, ran) PROVE call' \in CallState
        BY <3>2, <4>1, <4>3, StepType
      <4> QED
        BY <3>1, <4>2, <4>3
    <3>4. cmd.set \in BOOLEAN
      BY DEF Cmd
    <3> HIDE DEF cmd
    <3>5. /\ status' \in {"closed", "open", "broken"} /\ carried' \in Nat
          /\ tpm' \in TpmState /\ faults' \in Nat
      <4>1. SendCommand(cmd, rc, ran)
        BY <3>1
      <4> QED
        BY <3>4, <4>1, SendType
    <3> QED
      BY <2>2, <3>3, <3>5 DEF Startup, DeviceTypeOK
  <2>3. CASE SpdmInit
    <3>1. ~Idle
      BY <2>3 DEF SpdmInit, At
    <3>2. call' \in CallState
      BY <2>3, <3>1, RcType, StepType DEF SpdmInit
    <3>3. dev' \in [up : BOOLEAN, c : SpdmContext]
      <4>1. [NoSpdm EXCEPT !.spdm = TRUE] \in SpdmContext
        BY DEF NoSpdm, SpdmContext
      <4> QED
        BY <2>3, <4>1, <2>c DEF SpdmInit, DeviceTypeOK
    <3> QED
      BY <2>3, <3>2, <3>3, <2>f DEF SpdmInit, DeviceTypeOK
  <2>4. CASE wolfTPM2_SpdmInit
    <3>1. call' \in CallState
      BY <2>4, <2>q, BeginType DEF wolfTPM2_SpdmInit, StepNames, Apis
    <3> QED
      BY <2>4, <3>1, <2>l DEF wolfTPM2_SpdmInit, DeviceTypeOK
  <2>5. CASE Connect
    <3>1. ~Idle
      BY <2>5 DEF Connect, At
    <3>2. Refused(dev.c) \in Int
      BY DEF Refused, IoFail, InvalidArg, NotConnected
    <3>3. CASE Handshake
      <4>1. call' \in CallState
        <5>1. Go(0, 0) \/ Stop(IoFail, 0)
          BY <3>3, Zenon DEF Handshake
        <5> QED
          BY <3>1, <5>1, RcType, StepType
      <4>2. MayOpen(tpm, dev.c) \in BOOLEAN
        BY DEF MayOpen, DeviceTypeOK, TpmState
      <4>3. tpm' \in TpmState
        <5>1. tpm.session \in BOOLEAN /\ (tpm.session /\ ~tpm.spdm) \in BOOLEAN
          BY DEF DeviceTypeOK, TpmState
        <5>2. \/ tpm' = [tpm EXCEPT !.session = TRUE]
              \/ tpm' = [tpm EXCEPT !.session = tpm.session /\ ~tpm.spdm]
              \/ \E s \in {tpm.session, tpm.session /\ ~tpm.spdm, MayOpen(tpm, dev.c)} :
                    tpm' = [tpm EXCEPT !.session = s]
          BY <3>3, Zenon DEF Handshake
        <5> QED
          BY <5>1, <5>2, <4>2, <2>s
      <4>4. dev' \in [up : BOOLEAN, c : SpdmContext]
        <5>1. \/ dev' = [dev EXCEPT !.c.psk = "none"]
              \/ \E psk \in {dev.c.psk, "none"}, used \in {dev.c.used, TRUE} :
                    dev' = [dev EXCEPT !.c.psk = psk, !.c.used = used]
          BY <3>3, Zenon DEF Handshake, SpentBy
        <5> QED
          BY <5>1, <2>p, <2>u, Zenon
      <4>5. status' \in {"closed", "open", "broken"} /\ carried' \in Nat /\ faults' \in Nat
        <5>1. \/ Open /\ UNCHANGED faults
              \/ UNCHANGED <<status, carried>> /\ (Fault \/ UNCHANGED faults)
          BY <3>3, Zenon DEF Handshake
        <5> QED
          BY <5>1, <2>f DEF Open, DeviceTypeOK
      <4> QED
        BY <2>5, <4>1, <4>3, <4>4, <4>5 DEF Connect, DeviceTypeOK
    <3>4. CASE Refused(dev.c) # 0 /\ UNCHANGED <<status, carried, tpm, faults, dev>> /\ Stop(Refused(dev.c), 0)
      <4>1. call' \in CallState
        BY <3>1, <3>2, <3>4, StepType
      <4> QED
        BY <2>5, <3>4, <4>1 DEF Connect, DeviceTypeOK
    <3>5. CASE /\ Close /\ UNCHANGED <<tpm, faults, call>>
               /\ \E used \in NumbersKept : dev' = [dev EXCEPT !.c.used = used]
      <4>1. \A used \in BOOLEAN : [dev EXCEPT !.c.used = used] \in [up : BOOLEAN, c : SpdmContext]
        BY <2>k DEF DeviceTypeOK, SpdmContext
      <4> QED
        BY <2>5, <3>5, <4>1, NumbersAre DEF Connect, Close, DeviceTypeOK
    <3> QED
      BY <2>5, <3>3, <3>4, <3>5 DEF Connect
  <2>6. CASE wolfTPM2_SpdmConnect
    <3>1. (Refused(dev.c) = 0 /\ Able(dev.c)) \in BOOLEAN
      OBVIOUS
    <3>2. call' \in CallState
      BY <2>6, <3>1, <2>q, BeginType DEF wolfTPM2_SpdmConnect, StepNames, Apis
    <3> QED
      BY <2>6, <3>2, <2>l DEF wolfTPM2_SpdmConnect, DeviceTypeOK
  <2>7. ASSUME NEW mode \in ModesOf(tpm.vendor), wolfTPM2_SpdmSetMode(mode) PROVE DeviceTypeOK'
    <3>1. call' \in CallState
      BY <2>7, ReturnType DEF wolfTPM2_SpdmSetMode, Apis
    <3>2. [dev EXCEPT !.c.mode = mode] \in [up : BOOLEAN, c : SpdmContext]
      BY <2>k DEF DeviceTypeOK, SpdmContext, ModesOf
    <3> QED
      BY <2>7, <3>1, <3>2, <2>l DEF wolfTPM2_SpdmSetMode
  <2>8. ASSUME NEW mode \in ModesOf(tpm.vendor), ConnectWithKey(mode) PROVE DeviceTypeOK'
    <3> DEFINE c == [wolfTPM2_SPDM_SetTisIO(dev.c) EXCEPT !.mode = mode]
    <3>1. c \in SpdmContext
      BY <2>k DEF wolfTPM2_SPDM_SetTisIO, SpdmContext, ModesOf
    <3>2. \A key \in HostKey(c) : key.c \in SpdmContext
      <4>1. /\ \A k \in {"program", "fresh"} : [c EXCEPT !.pair = k, !.tpmt = k] \in SpdmContext
            /\ [c EXCEPT !.pair = "program"] \in SpdmContext
        BY <3>1 DEF SpdmContext
      <4> HIDE DEF c
      <4> QED
        BY <3>1, <4>1 DEF HostKey
    <3>3. PICK key \in HostKey(c) :
             /\ dev' = [dev EXCEPT !.c = key.c]
             /\ \/ Begin("Connect", <<"connect">>, FALSE, Able(key.c))
                \/ Return("Connect", InvalidArg)
      BY <2>8 DEF ConnectWithKey
    <3>4. Able(key.c) \in BOOLEAN
      BY DEF Able
    <3>5. call' \in CallState
      <4>1. "Connect" \in Apis /\ <<"connect">> \in Seq(StepNames) /\ InvalidArg \in Int
        BY <2>q, RcType DEF Apis
      <4> QED
        BY <3>3, <3>4, <4>1, BeginType, ReturnType
    <3> QED
      BY <2>8, <3>2, <3>3, <3>5, <2>c, <2>l DEF ConnectWithKey
  <2>9. ASSUME NEW psk \in Psks, wolfTPM2_SpdmConnectNationsPsk(psk) PROVE DeviceTypeOK'
    <3> DEFINE c == [wolfTPM2_SPDM_SetTisIO(dev.c) EXCEPT !.mode = "NATIONS_PSK", !.psk = psk]
    <3>1. c \in SpdmContext
      BY <2>k DEF wolfTPM2_SPDM_SetTisIO, SpdmContext
    <3>2. Able(c) \in BOOLEAN
      BY DEF Able
    <3>3. /\ dev' = [dev EXCEPT !.c = c] /\ Local
          /\ Begin("Connect", <<"connect">>, FALSE, Able(c))
      BY <2>9 DEF wolfTPM2_SpdmConnectNationsPsk
    <3>4. call' \in CallState
      <4>1. "Connect" \in Apis /\ <<"connect">> \in Seq(StepNames)
        BY <2>q DEF Apis
      <4> QED
        BY <3>2, <3>3, <4>1, BeginType
    <3> QED
      BY <3>1, <3>3, <3>4, <2>c, <2>l
  <2>10. CASE wolfTPM2_SpdmDisconnect
    <3>1. PICK rc \in {0, IoFail} :
             /\ EndSession(rc)
             /\ call' = [NoCall EXCEPT !.api = "SpdmDisconnect", !.rc = rc, !.clean = (faults' = faults)]
      BY <2>10 DEF wolfTPM2_SpdmDisconnect
    <3>2. call' \in CallState
      <4>1. rc \in Int /\ "SpdmDisconnect" \in Apis
        BY RcType DEF Apis
      <4>2. ASSUME NEW x \in BOOLEAN
            PROVE  [NoCall EXCEPT !.api = "SpdmDisconnect", !.rc = rc, !.clean = x] \in CallState
        BY <4>1, NoCallType DEF CallState
      <4>3. (faults' = faults) \in BOOLEAN
        OBVIOUS
      <4> QED
        BY <3>1, <4>2, <4>3, Zenon
    <3> QED
      BY <2>10, <3>1, <3>2, <2>e DEF wolfTPM2_SpdmDisconnect, DeviceTypeOK
  <2>11. CASE wolfTPM2_SpdmCleanup
    <3>1. call' \in CallState
      BY <2>11, ReturnType DEF wolfTPM2_SpdmCleanup, Apis
    <3> QED
      BY <2>11, <3>1, <2>z, <2>c DEF wolfTPM2_SpdmCleanup, FreeCtx, Close, DeviceTypeOK
  <2>12. ASSUME NEW set \in BOOLEAN, wolfTPM2_SpdmEnable(set) PROVE DeviceTypeOK'
    <3>1. call' \in CallState
      <4>1. "SpdmEnable" \in Apis /\ <<"getconfig", "preconfig">> \in Seq(StepNames)
        BY <2>q DEF Apis
      <4> QED
        BY <2>12, <4>1, BeginType DEF wolfTPM2_SpdmEnable
    <3> QED
      BY <2>12, <3>1, <2>l DEF wolfTPM2_SpdmEnable, DeviceTypeOK
  <2>13. ASSUME ~Idle, NEW cmd, cmd.set \in BOOLEAN, NEW rc \in Rcs, NEW ran \in {0, 1, 2},
                SendCommand(cmd, rc, ran), NEW r \in Int, NEW n \in Nat,
                Go(r, n) \/ Stop(r, n), UNCHANGED <<dev, resets>>
         PROVE  DeviceTypeOK'
    <3>1. call' \in CallState
      BY <2>13, StepType
    <3>2. /\ status' \in {"closed", "open", "broken"} /\ carried' \in Nat
          /\ tpm' \in TpmState /\ faults' \in Nat
      BY <2>13, SendType
    <3> QED
      BY <2>13, <3>1, <3>2 DEF DeviceTypeOK
  <2>14. CASE GetConfig
    <3> DEFINE cmd == Cmd("GetConfig", FALSE)
    <3>1. ~Idle /\ UNCHANGED <<dev, resets>> /\ cmd.set \in BOOLEAN
      BY <2>14 DEF GetConfig, At, Cmd
    <3>2. PICK rc \in Rcs, ran \in {0, 1, 2} :
             SendCommand(cmd, rc, ran) /\ (Go(0, 0) \/ Stop(rc, 0))
      BY <2>14 DEF GetConfig
    <3> HIDE DEF cmd
    <3>3. 0 \in Int /\ 0 \in Nat /\ rc \in Int
      BY RcType
    <3> QED
      BY <3>1, <3>2, <3>3, <2>13
  <2>15. CASE PreConfig
    <3> DEFINE cmd == Cmd("PreConfig", call.set)
    <3>1. ~Idle /\ UNCHANGED <<dev, resets>> /\ cmd.set \in BOOLEAN
      BY <2>15 DEF PreConfig, At, Cmd, DeviceTypeOK, CallState
    <3>2. PICK rc \in Rcs, ran \in {0, 1, 2} :
             SendCommand(cmd, rc, ran) /\ Go(rc, ran)
      BY <2>15 DEF PreConfig
    <3> HIDE DEF cmd
    <3>3. ran \in Nat /\ rc \in Int
      BY RcType
    <3> QED
      BY <3>1, <3>2, <3>3, <2>13
  <2>16. ASSUME NEW lock \in BOOLEAN, SetOnlyMode(lock) PROVE DeviceTypeOK'
    <3>1. call' \in CallState
      <4>1. [NoCall EXCEPT !.api = "SetOnlyMode"] \in CallState
        BY NoCallType DEF CallState, Apis
      <4> QED
        BY <2>16, <4>1, RcType, ReturnType DEF SetOnlyMode, Apis
    <3>2. tpm' \in TpmState
      <4>1. [tpm EXCEPT !.onlyNext = lock] \in TpmState
        BY DEF DeviceTypeOK, TpmState
      <4> QED
        BY <2>16, <4>1 DEF SetOnlyMode, DeviceTypeOK
    <3>3. dev' \in [up : BOOLEAN, c : SpdmContext]
      <4>1. [dev EXCEPT !.c.locked = lock] \in [up : BOOLEAN, c : SpdmContext]
        BY <2>k DEF DeviceTypeOK, SpdmContext
      <4> QED
        BY <2>16, <4>1 DEF SetOnlyMode, DeviceTypeOK
    <3> QED
      BY <2>16, <3>1, <3>2, <3>3, <2>f DEF SetOnlyMode, Carry, Break, DeviceTypeOK
  <2>17. ASSUME NEW name \in {"IdentityKeySet", "Startup", "Command"}, NEW set \in BOOLEAN,
                Command(Cmd(name, set))
         PROVE  DeviceTypeOK'
    <3> DEFINE cmd == Cmd(name, set)
    <3>1. cmd.set \in BOOLEAN /\ cmd.name \in Apis
      BY DEF Cmd, Apis
    <3>2. PICK rc \in Rcs, ran \in {0, 1, 2} :
             /\ SendCommand(cmd, rc, ran)
             /\ call' = [NoCall EXCEPT !.api = cmd.name, !.rc = rc, !.ran = ran]
      BY <2>17 DEF Command
    <3> HIDE DEF cmd
    <3>3. call' \in CallState
      <4>1. rc \in Int /\ ran \in Nat
        BY RcType
      <4> QED
        BY <3>1, <3>2, <4>1, NoCallType DEF CallState
    <3>4. /\ status' \in {"closed", "open", "broken"} /\ carried' \in Nat
          /\ tpm' \in TpmState /\ faults' \in Nat
      BY <3>1, <3>2, SendType
    <3> QED
      BY <2>17, <3>3, <3>4 DEF Command, DeviceTypeOK
  <2>18. ASSUME NEW psk \in Psks \cup {"none"}, wolfTPM2_SpdmNationsPskSet(psk) PROVE DeviceTypeOK'
    <3>1. call' \in CallState
      BY <2>18, RcType, ReturnType DEF wolfTPM2_SpdmNationsPskSet, Apis
    <3>2. tpm' \in TpmState
      <4>1. [tpm EXCEPT !.psk = psk, !.session = FALSE] \in TpmState
        BY DEF DeviceTypeOK, TpmState
      <4> QED
        BY <2>18, <4>1 DEF wolfTPM2_SpdmNationsPskSet, DeviceTypeOK
    <3> QED
      BY <2>18, <3>1, <3>2, <2>f DEF wolfTPM2_SpdmNationsPskSet, DeviceTypeOK
  <2>19. CASE wolfTPM2_Cleanup
    <3>1. (tpm.started /\ (status = "open" \/ ~tpm.only)) \in BOOLEAN
      BY DEF DeviceTypeOK, TpmState
    <3>2. "Cleanup" \in Apis /\ CleanupSteps \in Seq(StepNames)
      BY <2>q DEF Apis, CleanupSteps
    <3>3. call' \in CallState
      BY <2>19, <3>1, <3>2, BeginType DEF wolfTPM2_Cleanup
    <3> QED
      BY <2>19, <3>3, <2>l DEF wolfTPM2_Cleanup, DeviceTypeOK
  <2>20. CASE Shutdown
    <3> DEFINE cmd == Cmd("Shutdown", FALSE)
    <3>1. ~Idle /\ UNCHANGED <<dev, resets>> /\ cmd.set \in BOOLEAN
      BY <2>20 DEF Shutdown, At, Cmd
    <3>2. PICK rc \in Rcs, ran \in {0, 1, 2} :
             SendCommand(cmd, rc, ran) /\ (Go(0, ran) \/ Go(rc, ran))
      BY <2>20 DEF Shutdown
    <3> HIDE DEF cmd
    <3>3. ran \in Nat /\ rc \in Int /\ 0 \in Int
      BY RcType
    <3> QED
      BY <3>1, <3>2, <3>3, <2>13
  <2>21. CASE Cleanup
    <3>1. call' \in CallState
      <4>1. ~Idle /\ call.rc \in Int /\ 0 \in Nat /\ Go(call.rc, 0)
        BY <2>21 DEF Cleanup, At, DeviceTypeOK, CallState
      <4> QED
        BY <4>1, StepType
    <3>2. /\ status' \in {"closed", "open", "broken"} /\ carried' \in Nat
          /\ tpm' \in TpmState /\ faults' \in Nat
      BY <2>21, <2>e DEF Cleanup, CleanupSession, DeviceTypeOK
    <3> QED
      BY <2>21, <3>1, <3>2, <2>z DEF Cleanup, DeviceTypeOK
  <2>22. CASE InitFailed
    BY <2>22, <2>z DEF InitFailed, FreeCtx, Close, DeviceTypeOK
  <2>23. CASE TpmReset
    <3>1. call' \in CallState
      BY <2>23, NoCallType DEF TpmReset, CallState, DeviceTypeOK
    <3>2. TpmAfterReset(tpm) \in TpmState
      BY DEF TpmAfterReset, DeviceTypeOK, TpmState
    <3> QED
      BY <2>23, <3>1, <3>2 DEF TpmReset, Break, DeviceTypeOK
  <2>24. CASE HostRestart
    BY <2>24, <2>f, <2>z, NoCallType DEF HostRestart, FreeCtx, Close, DeviceTypeOK
  <2>25. CASE UNCHANGED devVars
    BY <2>25 DEF devVars, DeviceTypeOK
  <2>26. ASSUME NEW set \in BOOLEAN, wolfTPM2_SpdmNationsIdentityKeySet(set) PROVE DeviceTypeOK'
    BY <2>26, <2>17 DEF wolfTPM2_SpdmNationsIdentityKeySet
  <2>27. CASE TPM2_Startup \/ TPM2_Command
    BY <2>27, <2>17 DEF TPM2_Startup, TPM2_Command
  <2>28. CASE Calls
    BY <2>28, <2>1, <2>4, <2>6, <2>7, <2>8, <2>9, <2>10, <2>11, <2>12, <2>16, <2>18, <2>19, <2>26, <2>27
       DEF Calls
  <2>29. CASE Steps
    BY <2>29, <2>2, <2>3, <2>5, <2>14, <2>15, <2>20, <2>21 DEF Steps
  <2> QED
    BY <2>22, <2>23, <2>24, <2>25, <2>28, <2>29 DEF DeviceNext
<1> QED
  BY <1>1, <1>2, PTL DEF DeviceSpec

-----------------------------------------------------------------------------
(* What the calls promise.                                                 *)

\* Until a connecting call that nothing disturbs is over, its context and the
\* TPM stay fit for each other, also in the step that gives up the session there
\* was; then the channel is open.
Connecting ==
    /\ call.api = "Connect" => call.todo \in {<< >>, <<"connect">>}
    /\ call.api = "Connect" /\ call.able /\ call.clean =>
          IF Idle THEN call.rc = 0 /\ status = "open"
          ELSE Refused(dev.c) = 0 /\ Able(dev.c)

\* wolfTPM2_Cleanup finds the way to the TPM open until it has shut it down,
\* and the session, if there was one, until it has ended it.
CleaningUp ==
    /\ call.api = "Cleanup" => call.todo \in {<< >>, <<"end">>, <<"shutdown", "end">>}
    /\ call.api = "Cleanup" /\ call.able /\ call.clean =>
          IF call.todo = <<"shutdown", "end">> THEN tpm.started /\ (status = "open" \/ ~tpm.only)
          ELSE call.ran > 0
    /\ call.api = "Cleanup" /\ call.open /\ call.clean =>
          IF Idle THEN ~tpm.session ELSE status = "open"

Promises == Connecting /\ CleaningUp

\* The fields of a call's record as it begins and after a step of it.
LEMMA BeginFields ==
    ASSUME NEW api, NEW todo, NEW set, NEW able, Begin(api, todo, set, able)
    PROVE  /\ call'.api = api /\ call'.todo = todo
           /\ call'.able = able /\ call'.open = (status = "open") /\ Idle
BY DEF Begin, NoCall

LEMMA DoneFields ==
    ASSUME call \in CallState, NEW todo, NEW rc, NEW ran, Done(todo, rc, ran)
    PROVE  /\ call'.api = call.api /\ call'.todo = todo /\ call'.rc = rc
           /\ call'.ran = call.ran + ran
           /\ call'.able = call.able /\ call'.open = call.open
           /\ call'.clean <=> call.clean /\ faults' = faults
<1>1. call' = [call EXCEPT !.todo = todo, !.rc = rc, !.ran = @ + ran,
                           !.clean = @ /\ faults' = faults]
  BY DEF Done
<1>2. DOMAIN call = {"api", "todo", "rc", "ran", "clean", "able", "open", "set"}
  BY DEF CallState
<1> QED
  BY <1>1, <1>2

\* A call of the program other than those two, the reset of the TPM and the
\* restart of the program leave nothing to promise.
LEMMA OtherCalls ==
    ASSUME DeviceTypeOK, Promises, [DeviceNext]_devVars,
           ~wolfTPM2_Cleanup, \A mode : ~ConnectWithKey(mode),
           \A psk : ~wolfTPM2_SpdmConnectNationsPsk(psk),
           ~Steps, ~TpmReset, ~UNCHANGED devVars
    PROVE  call'.api \notin {"Connect", "Cleanup"}
<1>1. ASSUME NEW api, NEW rc, Return(api, rc) PROVE call'.api = api
  BY <1>1 DEF Return, NoCall
<1>0. ASSUME NEW api, NEW todo, NEW set, NEW able, Begin(api, todo, set, able)
      PROVE  call'.api = api
  BY <1>0, BeginFields
<1>2. CASE wolfTPM2_Init \/ wolfTPM2_SpdmInit \/ wolfTPM2_SpdmConnect
  <2>1. wolfTPM2_Init => call'.api = "Init"
    BY <1>0 DEF wolfTPM2_Init
  <2>2. wolfTPM2_SpdmInit => call'.api = "SpdmInit"
    BY <1>0 DEF wolfTPM2_SpdmInit
  <2>3. wolfTPM2_SpdmConnect => call'.api = "SpdmConnect"
    BY <1>0 DEF wolfTPM2_SpdmConnect
  <2> QED
    BY <1>2, <2>1, <2>2, <2>3
<1>3. CASE wolfTPM2_SpdmDisconnect \/ wolfTPM2_SpdmCleanup
  <2>1. ASSUME NEW rc, NEW clean
        PROVE  [NoCall EXCEPT !.api = "SpdmDisconnect", !.rc = rc, !.clean = clean].api
                  = "SpdmDisconnect"
    BY DEF NoCall
  <2>2. ASSUME wolfTPM2_SpdmDisconnect PROVE call'.api = "SpdmDisconnect"
    <3>1. PICK rc \in {0, IoFail} :
             call' = [NoCall EXCEPT !.api = "SpdmDisconnect", !.rc = rc,
                                    !.clean = (faults' = faults)]
      BY <2>2, Zenon DEF wolfTPM2_SpdmDisconnect
    <3> DEFINE clean == (faults' = faults)
    <3>2. call' = [NoCall EXCEPT !.api = "SpdmDisconnect", !.rc = rc, !.clean = clean]
      BY <3>1
    <3> HIDE DEF clean
    <3> QED
      BY <2>1, <3>2
  <2>3. wolfTPM2_SpdmCleanup => call'.api = "SpdmCleanup"
    BY <1>1 DEF wolfTPM2_SpdmCleanup
  <2> QED
    BY <1>3, <2>2, <2>3
<1>4. ASSUME NEW name \in {"IdentityKeySet", "Startup", "Command"}, NEW set, Command(Cmd(name, set))
      PROVE  call'.api = name
  <2>1. Cmd(name, set).name = name
    BY DEF Cmd
  <2>2. \E rc, ran : call' = [NoCall EXCEPT !.api = Cmd(name, set).name, !.rc = rc, !.ran = ran]
    BY <1>4 DEF Command
  <2> QED
    BY <2>1, <2>2 DEF NoCall
<1>5. ASSUME NEW set, SetOnlyMode(set) \/ wolfTPM2_SpdmEnable(set)
                      \/ wolfTPM2_SpdmNationsIdentityKeySet(set)
      PROVE  call'.api \notin {"Connect", "Cleanup"}
  BY <1>0, <1>1, <1>4, <1>5
     DEF SetOnlyMode, wolfTPM2_SpdmEnable, wolfTPM2_SpdmNationsIdentityKeySet, NoCall
<1>6. ASSUME NEW mode, wolfTPM2_SpdmSetMode(mode) PROVE call'.api = "SetMode"
  BY <1>1, <1>6 DEF wolfTPM2_SpdmSetMode
<1>7. ASSUME NEW psk, wolfTPM2_SpdmNationsPskSet(psk) PROVE call'.api = "PskSet"
  BY <1>1, <1>7 DEF wolfTPM2_SpdmNationsPskSet
<1>8. CASE TPM2_Startup \/ TPM2_Command
  BY <1>4, <1>8 DEF TPM2_Startup, TPM2_Command
<1>9. CASE InitFailed \/ HostRestart
  BY <1>9 DEF InitFailed, HostRestart, NoCall
<1> QED
  BY <1>2, <1>3, <1>5, <1>6, <1>7, <1>8, <1>9 DEF DeviceNext, Calls

\* TPM2_Shutdown of a started TPM, over the session or in clear, reaches it
\* when nothing is lost.
LEMMA ShutdownRuns ==
    ASSUME DeviceTypeOK, NEW rc, NEW ran, SendCommand(Cmd("Shutdown", FALSE), rc, ran),
           faults' = faults
    PROVE  /\ tpm.started /\ (status = "open" \/ ~tpm.only) => ran = 1
           /\ status' = status
<1> DEFINE cmd == Cmd("Shutdown", FALSE)
<1>1. cmd.name = "Shutdown"
  BY DEF Cmd
<1>2. SendCommand(cmd, rc, ran)
  OBVIOUS
<1> HIDE DEF cmd
<1>3. PICK rc1 \in {AnswerSize, NotActive, IoFail}, ran1 \in {0, 1}, t \in {tpm, TpmAfter(tpm, cmd)} :
         /\ SPDM_SendCommand(cmd, rc1, ran1, t)
         /\ \/ rc1 >= 0 /\ ran = ran1
            \/ rc1 < 0 /\ rc = PlainRc(t, cmd) /\ ran = ran1 + (IF rc = 0 THEN 1 ELSE 0)
  BY <1>2 DEF SendCommand
<1>4. ~Fault
  BY DEF Fault, DeviceTypeOK
<1>5. CASE status = "open"
  <2>1. Carry /\ rc1 = AnswerSize /\ ran1 = Runs(tpm, cmd)
    BY <1>3, <1>4, <1>5 DEF SPDM_SendCommand, SecuredExchange
  <2>2. tpm.started => Runs(tpm, cmd) = 1
    BY <1>1 DEF Runs, TpmRc
  <2> QED
    BY <1>3, <1>5, <2>1, <2>2, AnswerAssumption DEF Carry
<1>6. CASE status # "open"
  <2>1. rc1 \in {NotActive, IoFail} /\ ran1 = 0 /\ t = tpm /\ status' = status
    BY <1>3, <1>4, <1>6 DEF SPDM_SendCommand, SecuredExchange, Carry
  <2>2. tpm.started /\ ~tpm.only => PlainRc(tpm, cmd) = 0
    BY <1>1 DEF PlainRc, TpmRc
  <2> QED
    BY <1>3, <1>6, <2>1, <2>2 DEF NotActive, IoFail
<1> QED
  BY <1>5, <1>6

\* The handshake of a connecting call that nothing disturbs succeeds.
LEMMA ConnectKeeps ==
    ASSUME DeviceTypeOK, Promises, Connect
    PROVE  Promises'
<1>1. call \in CallState /\ ~Idle /\ Head(call.todo) = "connect"
  BY DEF Connect, At, DeviceTypeOK
<1>2. call.api # "Cleanup"
  <2>1. Head(<<"end">>) # "connect" /\ Head(<<"shutdown", "end">>) # "connect"
    OBVIOUS
  <2> QED
    BY <1>1, <2>1 DEF Promises, CleaningUp, Idle
<1>3. call.api = "Connect" => Tail(call.todo) = << >>
  <2>1. Tail(<<"connect">>) = << >>
    OBVIOUS
  <2> QED
    BY <1>1, <2>1 DEF Promises, Connecting, Idle
<1>4. CASE Refused(dev.c) # 0 /\ Stop(Refused(dev.c), 0)
  <2>1. call'.api = call.api /\ call'.todo = << >> /\ call'.able = call.able
        /\ (call'.clean => call.clean)
    BY <1>1, <1>4, DoneFields DEF Stop
  <2> QED
    BY <1>1, <1>2, <1>4, <2>1 DEF Promises, Connecting, CleaningUp
<1>5. CASE /\ Refused(dev.c) = 0 /\ Close /\ UNCHANGED <<tpm, call>>
           /\ \E used \in NumbersKept : dev' = [dev EXCEPT !.c.used = used]
  <2>1. PICK used \in NumbersKept : dev' = [dev EXCEPT !.c.used = used]
    BY <1>5
  <2>2. dev.c \in SpdmContext /\ dev'.c = [dev.c EXCEPT !.used = used]
    BY <2>1 DEF DeviceTypeOK
  <2>3. Refused(dev'.c) = Refused(dev.c)
    BY <2>2 DEF Refused, SpdmContext
  <2>4. Able(dev.c) => status' = "closed" /\ used = FALSE /\ ~dev.c.used /\ MustOpen(tpm, dev.c)
    <3>1. status # "closed" /\ status' = "closed"
      BY <1>5 DEF Close
    <3>2. Able(dev.c) => MustOpen(tpm, dev.c) /\ status = "open" /\ carried = 0
      BY <3>1 DEF Able
    <3>3. MustOpen(tpm, dev.c) => ~dev.c.used
      BY DEF MustOpen, MayOpen
    <3>4. status = "open" => used = (carried > 0)
      BY <2>1, NumbersAre
    <3>5. carried = 0 => (carried > 0) = FALSE
      OBVIOUS
    <3> QED
      BY <3>1, <3>2, <3>3, <3>4, <3>5
  <2>5. used = FALSE /\ ~dev.c.used => dev'.c = dev.c
    BY <2>2 DEF SpdmContext
  <2>6. Able(dev.c) => Able(dev.c)'
    BY <1>5, <2>4, <2>5 DEF Able
  <2> QED
    BY <1>1, <1>2, <1>5, <2>3, <2>6 DEF Promises, Connecting, CleaningUp, Idle
<1>6. CASE Handshake
  <2>1. ASSUME Go(0, 0) PROVE /\ call'.api = call.api /\ call'.rc = 0
                              /\ call'.todo = Tail(call.todo)
    BY <1>1, <2>1, DoneFields DEF Go
  <2>2. ASSUME Stop(IoFail, 0)
        PROVE  /\ call'.api = call.api /\ call'.todo = << >> /\ call'.able = call.able
               /\ call'.clean => call.clean /\ faults' = faults
    BY <1>1, <2>2, DoneFields DEF Stop
  <2>3. Fault => faults' # faults
    BY DEF Fault, DeviceTypeOK
  <2>4. \/ Open /\ Go(0, 0)
        \/ ~MustOpen(tpm, dev.c) /\ Stop(IoFail, 0)
        \/ Fault /\ Stop(IoFail, 0)
    BY <1>6 DEF Handshake
  <2>5. CASE Open /\ Go(0, 0)
    BY <1>2, <1>3, <2>1, <2>5 DEF Open, Promises, Connecting, CleaningUp, Idle
  <2>6. CASE (~MustOpen(tpm, dev.c) \/ Fault) /\ Stop(IoFail, 0)
    BY <1>1, <1>2, <2>2, <2>3, <2>6 DEF Promises, Connecting, CleaningUp, Able
  <2> QED
    BY <2>4, <2>5, <2>6
<1> QED
  BY <1>4, <1>5, <1>6 DEF Connect

\* wolfTPM2_Cleanup shuts the TPM down over the way it found, and ends the
\* session it found.
LEMMA CleanupKeeps ==
    ASSUME DeviceTypeOK, Promises, Shutdown \/ Cleanup
    PROVE  Promises'
<1>1. call \in CallState /\ ~Idle /\ Head(call.todo) \in {"shutdown", "end"}
  BY DEF Shutdown, Cleanup, At, DeviceTypeOK
<1>2. call.api # "Connect"
  <2>1. Head(<<"connect">>) \notin {"shutdown", "end"}
    OBVIOUS
  <2> QED
    BY <1>1, <2>1 DEF Promises, Connecting, Idle
<1>3. /\ Head(<<"shutdown", "end">>) = "shutdown" /\ Tail(<<"shutdown", "end">>) = <<"end">>
      /\ Head(<<"end">>) = "end" /\ Tail(<<"end">>) = << >> /\ <<"end">> # << >>
      /\ <<"end">> # <<"shutdown", "end">> /\ << >> # <<"shutdown", "end">>
  OBVIOUS
<1>4. call.ran \in Nat
  BY <1>1 DEF CallState
<1>5. SUFFICES ASSUME call.api = "Cleanup" PROVE Promises'
  <2>1. \E rc, ran : Go(rc, ran)
    BY DEF Shutdown, Cleanup
  <2>2. call'.api = call.api
    BY <1>1, <2>1, DoneFields DEF Go
  <2> QED
    BY <1>2, <2>2 DEF Promises, Connecting, CleaningUp
<1>6. CASE Shutdown
  <2>1. PICK rc, ran : /\ SendCommand(Cmd("Shutdown", FALSE), rc, ran) /\ ran \in Nat
                       /\ \E r : Go(r, ran)
    BY <1>6 DEF Shutdown
  <2>2. call.todo = <<"shutdown", "end">>
    BY <1>1, <1>3, <1>5, <1>6 DEF Shutdown, At, Promises, CleaningUp, Idle
  <2>3. /\ call'.api = "Cleanup" /\ call'.todo = <<"end">> /\ call'.ran = call.ran + ran
        /\ call'.able = call.able /\ call'.open = call.open
        /\ call'.clean <=> call.clean /\ faults' = faults
    BY <1>1, <1>3, <1>5, <2>1, <2>2, DoneFields DEF Go
  <2>4. faults' = faults => /\ tpm.started /\ (status = "open" \/ ~tpm.only) => ran = 1
                            /\ status' = status
    BY <2>1, ShutdownRuns
  <2>5. call'.able /\ call'.clean => call'.ran > 0
    BY <1>4, <1>5, <2>2, <2>3, <2>4 DEF Promises, CleaningUp
  <2>6. call'.open /\ call'.clean => status' = "open"
    BY <1>1, <1>5, <2>3, <2>4 DEF Promises, CleaningUp
  <2> QED
    BY <1>3, <2>3, <2>5, <2>6 DEF Promises, Connecting, CleaningUp, Idle
<1>7. CASE Cleanup
  <2>1. call.todo = <<"end">>
    BY <1>1, <1>3, <1>5, <1>7 DEF Cleanup, At, Promises, CleaningUp, Idle
  <2>2. /\ call'.api = "Cleanup" /\ call'.todo = << >> /\ call'.ran = call.ran + 0
        /\ call'.able = call.able /\ call'.open = call.open
        /\ call'.clean <=> call.clean /\ faults' = faults
    BY <1>1, <1>3, <1>5, <1>7, <2>1, DoneFields DEF Cleanup, Go
  <2>3. call'.able /\ call'.clean => call'.ran > 0
    BY <1>3, <1>4, <1>5, <2>1, <2>2 DEF Promises, CleaningUp
  <2>4. call'.open /\ call'.clean => ~tpm'.session
    <3>1. call'.open /\ call'.clean => status = "open" /\ faults' = faults
      BY <1>1, <1>5, <2>2 DEF Promises, CleaningUp
    <3>2. faults' = faults => ~Fault
      BY DEF Fault, DeviceTypeOK
    <3>3. status = "open" /\ ~Fault => tpm' = [tpm EXCEPT !.session = FALSE]
      BY <1>7 DEF Cleanup, CleanupSession, EndSession
    <3>4. ~[tpm EXCEPT !.session = FALSE].session
      BY DEF DeviceTypeOK, TpmState
    <3> QED
      BY <3>1, <3>2, <3>3, <3>4
  <2> QED
    BY <1>3, <2>2, <2>3, <2>4 DEF Promises, Connecting, CleaningUp, Idle
<1> QED
  BY <1>6, <1>7

\* Every step keeps the promises.
LEMMA PromisesNext ==
    ASSUME DeviceTypeOK, Promises, [DeviceNext]_devVars
    PROVE  Promises'
<1>1. CASE UNCHANGED devVars
  BY <1>1 DEF devVars, Promises, Connecting, CleaningUp, Idle, Able
<1>2. CASE TpmReset
  <2>1. CASE Idle
    BY <1>2, <2>1 DEF TpmReset, NoCall, Promises, Connecting, CleaningUp
  <2>2. CASE ~Idle
    <3>1. /\ call'.api = call.api /\ call'.todo = call.todo /\ ~call'.clean
      BY <1>2, <2>2 DEF TpmReset, DeviceTypeOK, CallState
    <3> QED
      BY <3>1 DEF Promises, Connecting, CleaningUp
  <2> QED
    BY <2>1, <2>2
<1>3. ASSUME NEW c, Begin("Connect", <<"connect">>, FALSE, Able(c)), Local,
             dev' = [dev EXCEPT !.c = c], c.io
      PROVE  Promises'
  <2>1. dev'.c = c
    BY <1>3 DEF DeviceTypeOK
  <2>2. Able(c) => Refused(c) = 0
    BY <1>3 DEF Able, MustOpen, MayOpen, Refused
  <2> DEFINE able == Able(c)
  <2>a. Begin("Connect", <<"connect">>, FALSE, able)
    BY <1>3
  <2>b. tpm' = tpm /\ status' = status /\ carried' = carried
    BY <1>3 DEF Local
  <2> HIDE DEF able
  <2>c. call'.api = "Connect" /\ call'.todo = <<"connect">> /\ call'.able = able
    BY <2>a, BeginFields
  <2> USE DEF able
  <2>4. call'.able => Refused(dev'.c) = 0 /\ Able(dev.c)'
    BY <2>1, <2>2, <2>b, <2>c DEF Able
  <2> QED
    BY <2>c, <2>4 DEF Promises, Connecting, CleaningUp, Idle
<1>4. ASSUME NEW mode, ConnectWithKey(mode) PROVE Promises'
  <2> DEFINE c == [wolfTPM2_SPDM_SetTisIO(dev.c) EXCEPT !.mode = mode]
  <2>1. c.io /\ \A key \in HostKey(c) : key.c.io
    <3>1. DOMAIN dev.c = {"spdm", "io", "mode", "pair", "tpmt", "psk", "locked", "used"}
      BY DEF DeviceTypeOK, SpdmContext
    <3>2. c.io /\ "pair" \in DOMAIN c
      BY <3>1 DEF wolfTPM2_SPDM_SetTisIO
    <3> HIDE DEF c
    <3>3. \A k : [c EXCEPT !.pair = k, !.tpmt = k].io = c.io /\ [c EXCEPT !.pair = k].io = c.io
      OBVIOUS
    <3>4. ASSUME NEW key \in HostKey(c) PROVE key.c.io
      <4>1. \/ \E k : key = [ok |-> TRUE,  c |-> [c EXCEPT !.pair = k, !.tpmt = k]]
            \/ key = [ok |-> FALSE, c |-> c]
            \/ key = [ok |-> FALSE, c |-> [c EXCEPT !.pair = "program"]]
        BY <3>4, Zenon DEF HostKey
      <4>2. ASSUME NEW k, key = [ok |-> TRUE,  c |-> [c EXCEPT !.pair = k, !.tpmt = k]]
            PROVE  key.c.io
        <5>1. key.c = [c EXCEPT !.pair = k, !.tpmt = k]
          BY <4>2
        <5> QED
          BY <3>2, <3>3, <5>1
      <4>3. CASE key = [ok |-> FALSE, c |-> c]
        BY <3>2, <4>3
      <4>4. CASE key = [ok |-> FALSE, c |-> [c EXCEPT !.pair = "program"]]
        <5>1. key.c = [c EXCEPT !.pair = "program"]
          BY <4>4
        <5> QED
          BY <3>2, <3>3, <5>1
      <4> QED
        BY <4>1, <4>2, <4>3, <4>4
    <3> QED
      BY <3>2, <3>4
  <2>2. PICK key \in HostKey(c) :
           /\ dev' = [dev EXCEPT !.c = key.c] /\ Local
           /\ \/ key.ok /\ Begin("Connect", <<"connect">>, FALSE, Able(key.c))
              \/ ~key.ok /\ Return("Connect", InvalidArg)
    BY <1>4 DEF ConnectWithKey
  <2>3. Return("Connect", InvalidArg) => call'.api = "Connect" /\ call'.todo = << >> /\ ~call'.able
    BY DEF Return, NoCall
  <2>4. CASE Return("Connect", InvalidArg)
    BY <2>3, <2>4 DEF Promises, Connecting, CleaningUp
  <2> QED
    BY <1>3, <2>1, <2>2, <2>4
<1>5. ASSUME NEW psk, wolfTPM2_SpdmConnectNationsPsk(psk) PROVE Promises'
  <2> DEFINE c == [wolfTPM2_SPDM_SetTisIO(dev.c) EXCEPT !.mode = "NATIONS_PSK", !.psk = psk]
  <2>1. c.io
    <3>1. DOMAIN dev.c = {"spdm", "io", "mode", "pair", "tpmt", "psk", "locked", "used"}
      BY DEF DeviceTypeOK, SpdmContext
    <3> QED
      BY <3>1 DEF wolfTPM2_SPDM_SetTisIO
  <2>2. /\ dev' = [dev EXCEPT !.c = c] /\ Local
        /\ Begin("Connect", <<"connect">>, FALSE, Able(c))
    BY <1>5 DEF wolfTPM2_SpdmConnectNationsPsk
  <2> HIDE DEF c
  <2> QED
    BY <1>3, <2>1, <2>2
<1>6. CASE wolfTPM2_Cleanup
  <2> DEFINE able == tpm.started /\ (status = "open" \/ ~tpm.only)
  <2>1. Begin("Cleanup", <<"shutdown", "end">>, FALSE, able)
    BY <1>6 DEF wolfTPM2_Cleanup, CleanupSteps
  <2>2. /\ call'.api = "Cleanup" /\ call'.todo = <<"shutdown", "end">>
        /\ call'.able = able /\ call'.open = (status = "open")
    BY <2>1, BeginFields
  <2>3. tpm' = tpm /\ status' = status
    BY <1>6 DEF wolfTPM2_Cleanup, Local
  <2>4. call'.todo # << >>
    BY <2>2
  <2> QED
    BY <2>2, <2>3, <2>4 DEF Promises, Connecting, CleaningUp, Idle
<1>7. CASE Startup \/ SpdmInit \/ GetConfig \/ PreConfig
  <2>1. call \in CallState /\ ~Idle
        /\ Head(call.todo) \in {"startup", "startup again", "spdminit", "getconfig", "preconfig"}
    BY <1>7 DEF Startup, SpdmInit, GetConfig, PreConfig, At, DeviceTypeOK
  <2>2. \A todo \in {<<"connect">>, <<"end">>, <<"shutdown", "end">>} :
           Head(todo) \in {"connect", "end", "shutdown"}
    OBVIOUS
  <2>3. call.api \notin {"Connect", "Cleanup"}
    BY <2>1, <2>2 DEF Promises, Connecting, CleaningUp, Idle
  <2>4. \E todo, rc, ran : Done(todo, rc, ran)
    BY <1>7 DEF Startup, SpdmInit, GetConfig, PreConfig, Go, Stop
  <2>5. call'.api = call.api
    BY <2>1, <2>4, DoneFields
  <2> QED
    BY <2>3, <2>5 DEF Promises, Connecting, CleaningUp
<1>8. CASE Steps
  BY <1>7, <1>8, ConnectKeeps, CleanupKeeps DEF Steps
<1>9. CASE call'.api \notin {"Connect", "Cleanup"}
  BY <1>9 DEF Promises, Connecting, CleaningUp
<1> QED
  BY <1>1, <1>2, <1>4, <1>5, <1>6, <1>8, <1>9, OtherCalls

LEMMA PromisesKept == DeviceSpec => []Promises
<1>1. DeviceInit => Promises
  BY DEF DeviceInit, NoCall, Promises, Connecting, CleaningUp
<1>2. DeviceTypeOK /\ Promises /\ [DeviceNext]_devVars => Promises'
  BY PromisesNext
<1> QED
  BY <1>1, <1>2, DeviceTypeCorrect, PTL DEF DeviceSpec

\* wolfTPM2_SpdmConnectNuvoton, -Nations and -NationsPsk open the channel on a
\* TPM provisioned for them, from sequence numbers that are 0; an interrupted
\* handshake or a used session leaves others, and then they fail.
THEOREM CleanConnectOpens == DeviceSpec => []CleanConnect
<1>1. Promises => CleanConnect
  BY DEF Promises, Connecting, CleanConnect
<1> QED
  BY <1>1, PromisesKept, PTL

\* wolfTPM2_Cleanup shuts a started TPM down, also one in SPDM-only mode: it
\* sends TPM2_Shutdown while the session is still there.
THEOREM CleanupShutsDown == DeviceSpec => []ShutdownReaches
<1>1. Promises => ShutdownReaches
  <2>1. << >> # <<"shutdown", "end">>
    OBVIOUS
  <2> QED
    BY <2>1 DEF Promises, CleaningUp, ShutdownReaches, Idle
<1> QED
  BY <1>1, PromisesKept, PTL

\* wolfTPM2_Cleanup leaves no session behind in the TPM.
THEOREM CleanupEndsSession == DeviceSpec => []SessionEnds
<1>1. Promises => SessionEnds
  BY DEF Promises, CleaningUp, SessionEnds
<1> QED
  BY <1>1, PromisesKept, PTL
=============================================================================

------------------------------ MODULE WrapData ------------------------------
(***************************************************************************)
(* The functions of tpm2_wrap.c for sessions and policies, NV indices,     *)
(* PCRs, hash and HMAC sequences, symmetric keys, hierarchies and firmware *)
(* upgrade, each as the sequence of its steps.  "nv", "s", "h" below are   *)
(* structures of the caller; "lnv", "lp", "ls", "lh" are on the stack.     *)
(***************************************************************************)
EXTENDS WrapKeys

-----------------------------------------------------------------------------
(* Sessions and policies.                                                  *)

\* tpmKey "" is NULL.  With a key, slot 1 takes the key's own handle as its
\* session; the value of the session is derived behind the command.
wolfTPM2_StartSession(session, tpmKey) ==
    Zero(session)
    \o (IF tpmKey = "" THEN SetPassword(1) \o Check
                       ELSE SetKey(1, tpmKey) \o Check \o Check \o Check)
    \o Cmd(TPM2_StartAuthSession, <<IF tpmKey = "" THEN "NULL" ELSE tpmKey>>, Session)
    \o (IF tpmKey = "" THEN <<>> ELSE Derive)
    \o Take(session, {"hndl"})

wolfTPM2_CreateAuthSession_EkPolicy(tpmSession) ==
    Call(wolfTPM2_StartSession(tpmSession, ""))
    \o Cmd(TPM2_PolicySecret, <<"ENDORSEMENT", tpmSession>>, Nothing)

wolfTPM2_PolicyRestart(session) == Cmd(TPM2_PolicyRestart, <<session>>, Nothing)
wolfTPM2_GetPolicyDigest(session) == Cmd(TPM2_PolicyGetDigest, <<session>>, Nothing) \o Check
wolfTPM2_PolicyPCR(session) == Cmd(TPM2_PolicyPCR, <<session>>, Nothing)
wolfTPM2_PolicyPassword(session) == Check \o Cmd(TPM2_PolicyPassword, <<session>>, Nothing)
wolfTPM2_PolicyAuthValue(session) == Check \o Cmd(TPM2_PolicyAuthValue, <<session>>, Nothing)
wolfTPM2_PolicyCommandCode(session) == Cmd(TPM2_PolicyCommandCode, <<session>>, Nothing)
wolfTPM2_PolicyAuthorize(session) ==
    Check \o Check \o Cmd(TPM2_PolicyAuthorize, <<session>>, Nothing)

-----------------------------------------------------------------------------
(* NV indices.  The index of the model is "NV".                            *)

wolfTPM2_NVReadPublic == Cmd(TPM2_NV_ReadPublic, <<"NV">>, Public)

\* auth "" is none given: the structure keeps its own.
wolfTPM2_NVOpen(nv, auth) ==
    Put(nv, [hndl |-> "NV"]) \o (IF auth = "" THEN <<>> ELSE Put(nv, [auth |-> auth]))
    \o wolfTPM2_NVReadPublic \o Check \o Take(nv, {"name"})
    \o Put(nv, [nameLoaded |-> TRUE])

\* TPM_RC_NV_DEFINED is tolerated, and still returned.
wolfTPM2_NVCreateAuthPolicy(parent, nv, auth) ==
    SetHandle(1, parent) \o Cmd(TPM2_NV_DefineSpace, <<parent>>, Define(auth))
    \o Zero(nv) \o Call(wolfTPM2_NVOpen(nv, auth))
wolfTPM2_NVCreateAuth(parent, nv, auth) == wolfTPM2_NVCreateAuthPolicy(parent, nv, auth)
wolfTPM2_NVCreate(hierarchy, auth) ==
    Zero("lnv") \o Zero("lp") \o Put("lp", [hndl |-> hierarchy])
    \o wolfTPM2_NVCreateAuth("lp", "lnv", auth)

NVOneName(nv) == SetHandleName(1, nv)       \* a slip: the second handle is forgotten
\* Both handles of an NV command are the index: its name goes to two slots.
NVNames(nv) == SetHandleName(1, nv) \o SetHandleName(2, nv)

\* session "" is NULL, else a policy session.
wolfTPM2_NVWriteData(session, nv, command) ==
    Loop(Call(wolfTPM2_NVOpen(nv, ""))
         \o (IF session = "" THEN <<>>
             ELSE Call(wolfTPM2_PolicyPCR(session)) \o SetPolicy(1, session))
         \o NVNames(nv) \o Cmd(command, <<nv, "NV">>, Written))
wolfTPM2_NVExtend(nv) == wolfTPM2_NVWriteData("", nv, TPM2_NV_Extend)
wolfTPM2_NVWriteAuthPolicy(session, nv) == wolfTPM2_NVWriteData(session, nv, TPM2_NV_Write)
wolfTPM2_NVWriteAuth(nv) == wolfTPM2_NVWriteData("", nv, TPM2_NV_Write)
wolfTPM2_NVWrite == Zero("lnv") \o Put("lnv", [hndl |-> "NV"]) \o wolfTPM2_NVWriteAuth("lnv")

\* Unlike a write, a read opens the index only if its name is not loaded.
wolfTPM2_NVReadAuthPolicy(session, nv) ==
    Loop((IF session = "" THEN IfNot("named", nv, Call(wolfTPM2_NVOpen(nv, "")))
          ELSE Call(wolfTPM2_NVOpen(nv, "")) \o Call(wolfTPM2_PolicyPCR(session))
               \o SetPolicy(1, session))
         \o NVNames(nv) \o Cmd(TPM2_NV_Read, <<nv, "NV">>, Nothing) \o Check)
wolfTPM2_NVReadAuth(nv) == wolfTPM2_NVReadAuthPolicy("", nv)
wolfTPM2_NVRead == Zero("lnv") \o Put("lnv", [hndl |-> "NV"]) \o wolfTPM2_NVReadAuth("lnv")
wolfTPM2_NVReadCert ==
    Zero("lnv") \o wolfTPM2_NVReadPublic \o Check \o Put("lnv", [hndl |-> "NV"])
    \o Call(wolfTPM2_NVReadAuth("lnv"))

wolfTPM2_NVIncrement(nv) ==
    IfNot("named", nv, Call(wolfTPM2_NVOpen(nv, "")))
    \o NVNames(nv) \o Cmd(TPM2_NV_Increment, <<nv, "NV">>, Written)
wolfTPM2_NVWriteLock(nv) ==
    IfNot("named", nv, Call(wolfTPM2_NVOpen(nv, "")))
    \o NVNames(nv) \o Cmd(TPM2_NV_WriteLock, <<nv, "NV">>, Locked)
wolfTPM2_NVDeleteAuth(parent) ==
    SetHandle(1, parent) \o Cmd(TPM2_NV_UndefineSpace, <<parent, "NV">>, Undefine)
wolfTPM2_NVDelete(hierarchy) ==
    Zero("lp") \o Put("lp", [hndl |-> hierarchy]) \o wolfTPM2_NVDeleteAuth("lp")

-----------------------------------------------------------------------------
(* PCRs, random numbers, capabilities.                                     *)

wolfTPM2_ReadPCR == SetPassword(1) \o Cmd(TPM2_PCR_Read, <<>>, Nothing) \o Check
wolfTPM2_ExtendPCR == SetPassword(1) \o Cmd(TPM2_PCR_Extend, <<"PCR">>, Nothing)
wolfTPM2_ResetPCR == Cmd(TPM2_PCR_Reset, <<"PCR">>, Nothing)
wolfTPM2_PCRGetDigest == Check \o Loop(Call(wolfTPM2_ReadPCR) \o Check) \o Check
wolfTPM2_GetRandom == Loop(Cmd(TPM2_GetRandom, <<>>, Nothing) \o Check)
wolfTPM2_SelfTest == Cmd(TPM2_SelfTest, <<>>, Nothing)
GetCap == Cmd(TPM2_GetCapability, <<>>, Nothing)
tpm2_ifx_cap_vendor_get == GetCap
wolfTPM2_GetCapabilities_NoDev ==
    GetCap \o Check \o GetCap \o Check
    \o Ignored(tpm2_ifx_cap_vendor_get) \o Ignored(tpm2_ifx_cap_vendor_get)
wolfTPM2_GetCapabilities == wolfTPM2_GetCapabilities_NoDev
wolfTPM2_GetHandles == GetCap
wolfTPM2_Reset ==
    Cmd(TPM2_Shutdown, <<>>, Nothing) \o Maybe(Cmd(TPM2_Startup, <<>>, Nothing))
wolfTPM2_Shutdown == wolfTPM2_Reset

-----------------------------------------------------------------------------
(* Hash and HMAC sequences, symmetric keys.                                *)

wolfTPM2_HashStart(h, auth) ==
    Zero(h) \o Put(h, [auth |-> auth])
    \o Cmd(TPM2_HashSequenceStart, <<>>, Sequence(h)) \o Take(h, {"hndl"})
wolfTPM2_HashUpdate(h) ==
    SetHandle(1, h) \o Loop(Cmd(TPM2_SequenceUpdate, <<h>>, Nothing))
\* The handle is gone whatever the command returned.
wolfTPM2_HashFinish(h) ==
    SetHandle(1, h) \o Cmd(TPM2_SequenceComplete, <<h>>, Complete)
    \o Always(Put(h, [hndl |-> "NULL"]))

wolfTPM2_ComputeSymmetricUnique ==
    Check \o Call(wolfTPM2_HashStart("lh", ""))
    \o Call(Call(wolfTPM2_HashUpdate("lh")) \o Call(wolfTPM2_HashUpdate("lh"))
            \o OnFail(wolfTPM2_UnloadHandle("lh")))
    \o Call(wolfTPM2_HashFinish("lh"))
\* The name of the loaded object is not taken over.
wolfTPM2_LoadSymmetricKey(key) ==
    Check \o Call(wolfTPM2_GetRandom) \o Check \o Call(wolfTPM2_ComputeSymmetricUnique)
    \o Cmd(TPM2_LoadExternal, <<>>, External("SYM", key)) \o Take(key, {"hndl"})

wolfTPM2_SetCommand == SetPassword(1) \o Cmd(TPM2_SetCommandSet, <<"PLATFORM">>, Nothing)
\* A TPM that knows no EncryptDecrypt2 is asked to enable it, then again.
wolfTPM2_EncryptDecryptBlock(key) ==
    SetHandle(1, key)
    \o Maybe(Ignored(Cmd(TPM2_EncryptDecrypt2, <<key>>, Nothing))
             \o Call(wolfTPM2_SetCommand) \o SetHandle(1, key))
    \o Cmd(TPM2_EncryptDecrypt2, <<key>>, Nothing)
wolfTPM2_EncryptDecrypt(key) == Loop(Call(wolfTPM2_EncryptDecryptBlock(key)))

wolfTPM2_LoadKeyedHashKey(key, parent, auth) ==
    Check \o Zero(key) \o SetHandle(1, parent) \o Check
    \o Cmd(TPM2_Create, <<parent>>, Blob("HMACKEY", auth))
    \o Cmd(TPM2_Load, <<parent>>, LoadOut) \o Take(key, Object)

\* hmac->hash and hmac->key; hmacKeyLoaded is the nameLoaded of the key here.
\* The slot gets the sequence's structure, not the key's.
wolfTPM2_HmacStart(h, key, parent, auth) ==
    Put(h, [auth |-> auth])
    \o IfNot("named", key,
          IfNot("held", key, Call(wolfTPM2_LoadKeyedHashKey(key, parent, auth)))
          \o Put(key, [nameLoaded |-> TRUE]))
    \o SetHandle(1, h) \o Cmd(TPM2_HMAC_Start, <<key>>, Sequence(h)) \o Take(h, {"hndl"})
wolfTPM2_HmacUpdate(h) == wolfTPM2_HashUpdate(h)
wolfTPM2_HmacFinish(h, key, hmacKeyKeep) ==
    Call(wolfTPM2_HashFinish(h))
    \o (IF hmacKeyKeep THEN <<>>
        ELSE Always(Ignored(wolfTPM2_UnloadHandle(key)))
             \o Always(Put(key, [nameLoaded |-> FALSE])))

-----------------------------------------------------------------------------
(* Hierarchies and the whole TPM.                                          *)

\* The new value is random and is not kept.
wolfTPM2_ChangeHierarchyAuth(session, hierarchy) ==
    (IF session = "" THEN <<>> ELSE SetSession(2, session)) \o Check \o Check
    \o Cmd(TPM2_HierarchyChangeAuth, <<hierarchy>>, Forget)
wolfTPM2_ChangePlatformAuth(session) == wolfTPM2_ChangeHierarchyAuth(session, "PLATFORM")
wolfTPM2_Clear == Cmd(TPM2_Clear, <<"LOCKOUT">>, Nothing)

\* The range covers every transient handle of the model.
wolfTPM2_UnloadHandles(handles) ==
    LET one(h) == Put("lh", [hndl |-> h]) \o Ignored(wolfTPM2_UnloadHandle("lh"))
    IN  Zero("lh") \o one(handles[1]) \o one(handles[2]) \o one(handles[3])

-----------------------------------------------------------------------------
(* Firmware upgrade.  The vendor commands carry their own authorisation    *)
(* area; the start command ends the policy session it was given.           *)

TPM2_IFX_FieldUpgradeStart(session) ==
    Cmd(Plain(<<"U32", "AUTH", "B">>, <<>>), <<session>>, Complete)
TPM2_IFX_FieldUpgradeCommand == Cmd(Plain(<<"B">>, <<>>), <<>>, Nothing)
TPM2_ST33_FieldUpgradeStart == Cmd(Plain(<<"U32", "AUTH", "B">>, <<>>), <<>>, Nothing)
TPM2_ST33_FieldUpgradeCommand == Cmd(Plain(<<"B">>, <<>>), <<>>, Nothing)

EnablePolicyLeaks ==        \* a slip: the session is unloaded only on success
    Call(wolfTPM2_StartSession("ls", "")) \o wolfTPM2_PolicyCommandCode("ls")
    \o wolfTPM2_GetPolicyDigest("ls") \o Ignored(wolfTPM2_UnloadHandle("ls"))
    \o Cmd(TPM2_SetPrimaryPolicy, <<"PLATFORM">>, Nothing)
tpm2_ifx_firmware_enable_policy ==
    Call(wolfTPM2_StartSession("ls", ""))
    \o Call(wolfTPM2_PolicyCommandCode("ls") \o wolfTPM2_GetPolicyDigest("ls")
            \o Always(Ignored(wolfTPM2_UnloadHandle("ls"))))
    \o Cmd(TPM2_SetPrimaryPolicy, <<"PLATFORM">>, Nothing)
tpm2_ifx_firmware_start ==
    Call(wolfTPM2_StartSession("ls", ""))
    \o Call(wolfTPM2_PolicyCommandCode("ls") \o TPM2_IFX_FieldUpgradeStart("ls")
            \o OnFail(Ignored(wolfTPM2_UnloadHandle("ls"))))
    \o Check
tpm2_ifx_firmware_manifest == TPM2_IFX_FieldUpgradeCommand \o Loop(TPM2_IFX_FieldUpgradeCommand)
tpm2_ifx_firmware_data == Check \o Loop(TPM2_IFX_FieldUpgradeCommand \o Check) \o Check
tpm2_ifx_firmware_final == TPM2_IFX_FieldUpgradeCommand
tpm2_st33_firmware_start_common == TPM2_ST33_FieldUpgradeStart \o Check
tpm2_st33_firmware_data == Check \o Loop(Check \o TPM2_ST33_FieldUpgradeCommand) \o Check
tpm2_st33_firmware_upgrade_hash ==
    Check \o Call(wolfTPM2_GetCapabilities) \o Check
    \o Call(tpm2_st33_firmware_start_common) \o Call(tpm2_st33_firmware_data)
tpm2_st33_firmware_cancel == TPM2_ST33_FieldUpgradeCommand

\* The TPM's mode decides how much of the upgrade is left to do.
wolfTPM2_FirmwareUpgradeHash(vendor, mode) ==
    Call(wolfTPM2_GetCapabilities)
    \o (CASE vendor = "STM" -> tpm2_st33_firmware_upgrade_hash
          [] vendor = "IFX" /\ mode = "final" -> tpm2_ifx_firmware_final
          [] vendor = "IFX" /\ mode # "final" ->
                (IF mode = "normal" THEN Call(tpm2_ifx_firmware_enable_policy)
                                         \o Call(tpm2_ifx_firmware_start) ELSE <<>>)
                \o Call(tpm2_ifx_firmware_manifest) \o Call(tpm2_ifx_firmware_data)
                \o Call(tpm2_ifx_firmware_final))
wolfTPM2_FirmwareUpgrade(vendor, mode) ==
    Check \o Call(wolfTPM2_FirmwareUpgradeHash(vendor, mode))
wolfTPM2_FirmwareUpgradeRecover(vendor) == wolfTPM2_FirmwareUpgradeHash(vendor, "loader")
wolfTPM2_FirmwareUpgradeCancel(vendor) ==
    Call(wolfTPM2_GetCapabilities)
    \o (IF vendor = "STM" THEN tpm2_st33_firmware_cancel ELSE TPM2_IFX_FieldUpgradeCommand)
=============================================================================

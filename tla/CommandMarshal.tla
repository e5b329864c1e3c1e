--------------------------- MODULE CommandMarshal ---------------------------
(***************************************************************************)
(* The commands as tpm2.c marshals them: one definition for each TPM2_     *)
(* function.  It records what the function puts in CmdInfo_t, the tag it   *)
(* finalizes with ("st": the one TPM2_Packet_AppendAuth returned), the     *)
(* Append calls in order ("AUTH" is AppendAuth) and the Parse calls on the *)
(* response ("PARAMSZ?" only if st is TPM_ST_SESSIONS).                    *)
(***************************************************************************)

\* A command through TPM2_SendCommandAuth.
Auth(inHandleCnt, outHandleCnt, flags, st, request, response) ==
    [inHandleCnt |-> inHandleCnt, outHandleCnt |-> outHandleCnt, flags |-> flags,
     tag |-> st, request |-> request, response |-> response]

\* A command through TPM2_SendCommand, which looks for no session.
Plain(request, response) == Auth(0, 0, {}, "NO_SESSIONS", request, response)

TPM2_Startup == Plain(<<"U16">>, <<>>)
TPM2_Shutdown == Plain(<<"U16">>, <<>>)
TPM2_SelfTest == Plain(<<"U8">>, <<>>)
TPM2_IncrementalSelfTest == Plain(<<"L.U16">>, <<"L.U16">>)
TPM2_GetTestResult == Plain(<<>>, <<"2B", "U16">>)
TPM2_GetCapability == Plain(<<"U32", "U32", "U32">>, <<"U8", "CAPABILITY">>)
TPM2_GetRandom == Plain(<<"U16">>, <<"2B">>)
TPM2_StirRandom == Plain(<<"2B">>, <<>>)
TPM2_PCR_Read == Plain(<<"PCR">>, <<"U32", "PCR", "L.2B-">>)
TPM2_PCR_Extend ==
    Auth(1, 0, {"USER1"}, "SESSIONS", <<"U32", "AUTH", "L.HA">>, <<>>)
TPM2_Create ==
    Auth(1, 0, {"ENC2", "DEC2", "USER1"}, "SESSIONS", <<"U32", "AUTH",
      "SENSITIVE_CREATE", "PUBLIC", "2B", "PCR">>, <<"PARAMSZ", "2B", "PUBLIC",
      "U16", "PCR", "2B", "U8", "U16", "2B", "2B", "2B", "2B", "U16", "U32",
      "2B">>)
TPM2_CreateLoaded ==
    Auth(1, 0, {"ENC2", "DEC2", "USER1"}, "SESSIONS", <<"U32", "AUTH",
      "SENSITIVE_CREATE", "PUBLIC">>, <<"U32", "PARAMSZ", "2B", "PUBLIC",
      "2B">>)
TPM2_CreatePrimary ==
    Auth(1, 1, {"ENC2", "DEC2", "USER1"}, "SESSIONS", <<"U32", "AUTH",
      "SENSITIVE_CREATE", "PUBLIC", "2B", "PCR">>, <<"U32", "PARAMSZ", "PUBLIC",
      "U16", "PCR", "2B", "U8", "U16", "2B", "2B", "2B", "2B", "U16", "U32",
      "2B", "2B">>)
LoadPublicFirst ==      \* a slip: the two areas in the other order
    Auth(1, 1, {"ENC2", "DEC2", "USER1"}, "SESSIONS", <<"U32", "AUTH", "PUBLIC",
      "2B">>, <<"U32", "PARAMSZ", "2B">>)
TPM2_Load ==
    Auth(1, 1, {"ENC2", "DEC2", "USER1"}, "SESSIONS", <<"U32", "AUTH", "2B",
      "PUBLIC">>, <<"U32", "PARAMSZ", "2B">>)
TPM2_FlushContext == Plain(<<"U32">>, <<>>)
TPM2_Unseal ==
    Auth(1, 0, {"DEC2", "USER1"}, "SESSIONS", <<"U32", "AUTH">>, <<"PARAMSZ",
      "2B">>)
TPM2_StartAuthSession ==
    Plain(<<"U32", "U32", "2B", "2B", "U8", "SYM", "U16">>, <<"U32", "2B">>)
TPM2_PolicyRestart == Plain(<<"U32">>, <<>>)
TPM2_LoadExternal ==
    Auth(0, 1, {"ENC2", "DEC2"}, "st", <<"AUTH", "SENSITIVE", "PUBLIC", "U32">>,
      <<"U32", "PARAMSZ?", "2B">>)
TPM2_ReadPublic == Plain(<<"U32">>, <<"PUBLIC", "2B", "2B">>)
TPM2_ActivateCredential ==
    Auth(2, 0, {"ENC2", "DEC2", "ADMIN", "USER2"}, "SESSIONS", <<"U32", "U32",
      "AUTH", "2B", "2B">>, <<"PARAMSZ", "2B">>)
TPM2_MakeCredential == Plain(<<"U32", "2B", "2B">>, <<"2B", "2B">>)
TPM2_ObjectChangeAuth ==
    Auth(2, 0, {"ENC2", "DEC2", "ADMIN"}, "SESSIONS", <<"U32", "U32", "AUTH",
      "2B">>, <<"PARAMSZ", "2B">>)
TPM2_Duplicate ==
    Auth(2, 0, {"ENC2", "DEC2", "DUP"}, "SESSIONS", <<"U32", "U32", "AUTH",
      "2B", "SYM">>, <<"PARAMSZ", "2B", "2B", "2B">>)
TPM2_Rewrap ==
    Auth(2, 0, {"ENC2", "DEC2", "USER1"}, "SESSIONS", <<"U32", "U32", "AUTH",
      "2B", "2B", "2B">>, <<"PARAMSZ", "2B", "2B">>)
TPM2_Import ==
    Auth(1, 0, {"ENC2", "DEC2", "USER1"}, "SESSIONS", <<"U32", "AUTH", "2B",
      "PUBLIC", "2B", "2B", "SYM">>, <<"PARAMSZ", "2B">>)
TPM2_RSA_Encrypt ==
    Auth(1, 0, {"ENC2", "DEC2"}, "st", <<"U32", "AUTH", "2B", "RSA_DECRYPT",
      "2B">>, <<"PARAMSZ?", "2B">>)
TPM2_RSA_Decrypt ==
    Auth(1, 0, {"ENC2", "DEC2", "USER1"}, "SESSIONS", <<"U32", "AUTH", "2B",
      "RSA_DECRYPT", "2B">>, <<"PARAMSZ", "2B">>)
TPM2_ECDH_KeyGen ==
    Auth(1, 0, {"DEC2"}, "st", <<"U32", "AUTH">>, <<"PARAMSZ?", "POINT",
      "POINT">>)
TPM2_ECDH_ZGen ==
    Auth(1, 0, {"ENC2", "DEC2", "USER1"}, "SESSIONS", <<"U32", "AUTH",
      "POINT">>, <<"PARAMSZ", "POINT">>)
TPM2_ECC_Parameters ==
    Plain(<<"U16">>, <<"U16", "U16", "SCHEME", "SCHEME", "2B", "2B", "2B", "2B",
      "2B", "2B", "2B">>)
TPM2_ZGen_2Phase ==
    Auth(1, 0, {"ENC2", "DEC2", "USER1"}, "SESSIONS", <<"U32", "AUTH", "POINT",
      "POINT", "U16", "U16">>, <<"PARAMSZ", "POINT", "POINT">>)
TPM2_EncryptDecrypt ==
    Auth(1, 0, {"DEC2", "USER1"}, "SESSIONS", <<"U32", "AUTH", "U8", "U16",
      "2B", "2B">>, <<"PARAMSZ", "2B", "2B">>)
TPM2_EncryptDecrypt2 ==
    Auth(1, 0, {"ENC2", "DEC2", "USER1"}, "SESSIONS", <<"U32", "AUTH", "2B",
      "U8", "U16", "2B">>, <<"PARAMSZ", "2B", "2B">>)
TPM2_Hash ==
    Auth(0, 0, {"ENC2", "DEC2"}, "st", <<"AUTH", "2B", "U16", "U32">>,
      <<"PARAMSZ?", "2B", "U16", "U32", "2B">>)
TPM2_HMAC ==
    Auth(1, 0, {"ENC2", "DEC2", "USER1"}, "SESSIONS", <<"U32", "AUTH", "2B",
      "U16">>, <<"PARAMSZ", "2B">>)
TPM2_HMAC_Start ==
    Auth(1, 1, {"ENC2", "USER1"}, "SESSIONS", <<"U32", "AUTH", "2B", "U16">>,
      <<"U32", "PARAMSZ">>)
TPM2_HashSequenceStart ==
    Auth(0, 1, {"ENC2"}, "st", <<"AUTH", "2B", "U16">>, <<"U32">>)
TPM2_SequenceUpdate ==
    Auth(1, 0, {"ENC2", "USER1"}, "SESSIONS", <<"U32", "AUTH", "2B">>, <<>>)
TPM2_SequenceComplete ==
    Auth(1, 0, {"ENC2", "DEC2", "USER1"}, "SESSIONS", <<"U32", "AUTH", "2B",
      "U32">>, <<"PARAMSZ", "2B", "U16", "U32", "2B">>)
TPM2_EventSequenceComplete ==
    Auth(2, 0, {"ENC2", "USER1", "USER2"}, "SESSIONS", <<"U32", "U32", "AUTH",
      "2B">>, <<"PARAMSZ", "L.HA">>)
CertifyOneHandle ==     \* a slip: one handle counted
    [Auth(2, 0, {"ENC2", "DEC2", "ADMIN", "USER2"}, "SESSIONS", <<"U32", "U32", "AUTH",
      "2B", "SCHEME">>, <<"PARAMSZ", "2B", "SIGNATURE">>) EXCEPT !.inHandleCnt = 1]
TPM2_Certify ==
    Auth(2, 0, {"ENC2", "DEC2", "ADMIN", "USER2"}, "SESSIONS", <<"U32", "U32",
      "AUTH", "2B", "SCHEME">>, <<"PARAMSZ", "2B", "SIGNATURE">>)
TPM2_CertifyCreation ==
    Auth(2, 0, {"ENC2", "DEC2", "USER1"}, "SESSIONS", <<"U32", "U32", "AUTH",
      "2B", "2B", "SCHEME", "U16", "U32", "2B">>, <<"PARAMSZ", "2B",
      "SIGNATURE">>)
TPM2_Quote ==
    Auth(1, 0, {"ENC2", "DEC2", "USER1"}, "SESSIONS", <<"U32", "AUTH", "2B",
      "SCHEME", "PCR">>, <<"PARAMSZ", "2B", "SIGNATURE">>)
TPM2_GetSessionAuditDigest ==
    Auth(3, 0, {"ENC2", "DEC2", "USER1", "USER2"}, "SESSIONS", <<"U32", "U32",
      "U32", "AUTH", "2B", "SCHEME">>, <<"PARAMSZ", "2B", "SIGNATURE">>)
TPM2_GetCommandAuditDigest ==
    Auth(2, 0, {"ENC2", "DEC2", "USER1", "USER2"}, "SESSIONS", <<"U32", "U32",
      "AUTH", "2B", "SCHEME">>, <<"PARAMSZ", "2B", "SIGNATURE">>)
TPM2_GetTime ==
    Auth(2, 0, {"ENC2", "DEC2", "USER1", "USER2"}, "SESSIONS", <<"U32", "U32",
      "AUTH", "2B", "SCHEME">>, <<"PARAMSZ", "2B", "SIGNATURE">>)
TPM2_Commit ==
    Auth(1, 0, {"ENC2", "DEC2", "USER1"}, "SESSIONS", <<"U32", "AUTH", "POINT",
      "2B", "2B">>, <<"PARAMSZ", "POINT", "POINT", "POINT", "U16">>)
TPM2_EC_Ephemeral ==
    Auth(0, 0, {"DEC2"}, "st", <<"AUTH", "U16">>, <<"PARAMSZ?", "POINT",
      "U16">>)
TPM2_VerifySignature ==
    Auth(1, 0, {"ENC2"}, "st", <<"U32", "AUTH", "2B", "SIGNATURE">>,
      <<"PARAMSZ?", "U16", "U32", "2B">>)
TPM2_Sign ==
    Auth(1, 0, {"ENC2", "USER1"}, "SESSIONS", <<"U32", "AUTH", "2B", "SCHEME",
      "U16", "U32", "2B">>, <<"PARAMSZ", "SIGNATURE">>)
TPM2_SetCommandCodeAuditStatus ==
    Auth(1, 0, {"USER1"}, "SESSIONS", <<"U32", "AUTH", "U16", "L.U32",
      "L.U32">>, <<>>)
TPM2_PCR_Event ==
    Auth(1, 0, {"ENC2", "USER1"}, "SESSIONS", <<"U32", "AUTH", "2B">>,
      <<"PARAMSZ", "L.HA">>)
TPM2_PCR_Allocate ==
    Auth(1, 0, {"USER1"}, "SESSIONS", <<"U32", "AUTH", "PCR">>, <<"PARAMSZ",
      "U8", "U32", "U32", "U32">>)
TPM2_PCR_SetAuthPolicy ==
    Auth(1, 0, {"ENC2"}, "SESSIONS", <<"U32", "AUTH", "2B", "U16", "U32">>,
      <<>>)
TPM2_PCR_SetAuthValue ==
    Auth(1, 0, {"ENC2", "USER1"}, "SESSIONS", <<"U32", "AUTH", "2B">>, <<>>)
TPM2_PCR_Reset == Auth(1, 0, {"USER1"}, "SESSIONS", <<"U32", "AUTH">>, <<>>)
TPM2_PolicySigned ==
    Auth(2, 0, {"ENC2", "DEC2"}, "st", <<"U32", "U32", "AUTH", "2B", "2B", "2B",
      "U32", "SIGNATURE">>, <<"PARAMSZ?", "2B", "U16", "U32", "2B">>)
TPM2_PolicySecret ==
    Auth(2, 0, {"ENC2", "DEC2", "USER1"}, "SESSIONS", <<"U32", "U32", "AUTH",
      "2B", "2B", "2B", "U32">>, <<"PARAMSZ", "2B", "U16", "U32", "2B">>)
TPM2_PolicyTicket ==
    Auth(1, 0, {"ENC2"}, "st", <<"U32", "AUTH", "2B", "2B", "2B", "2B">>, <<>>)
TPM2_PolicyOR == Plain(<<"U32", "L.2B">>, <<>>)
TPM2_PolicyPCR == Auth(1, 0, {"ENC2"}, "st", <<"U32", "AUTH", "2B", "PCR">>, <<>>)
TPM2_PolicyLocality == Plain(<<"U32", "U8">>, <<>>)
TPM2_PolicyNV ==
    Auth(3, 0, {"ENC2", "USER1"}, "SESSIONS", <<"U32", "U32", "U32", "AUTH",
      "2B", "U16", "U16">>, <<>>)
TPM2_PolicyCounterTimer ==
    Auth(1, 0, {"ENC2"}, "st", <<"U32", "AUTH", "2B", "U16", "U16">>, <<>>)
TPM2_PolicyCommandCode == Plain(<<"U32", "U32">>, <<>>)
TPM2_PolicyCpHash == Auth(1, 0, {"ENC2"}, "st", <<"U32", "AUTH", "2B">>, <<>>)
TPM2_PolicyNameHash == Auth(1, 0, {"ENC2"}, "st", <<"U32", "AUTH", "2B">>, <<>>)
TPM2_PolicyDuplicationSelect ==
    Auth(1, 0, {"ENC2"}, "st", <<"U32", "AUTH", "2B", "2B", "U8">>, <<>>)
TPM2_PolicyAuthorize ==
    Auth(1, 0, {"ENC2"}, "st", <<"U32", "AUTH", "2B", "2B", "2B", "U16", "U32",
      "2B">>, <<>>)
TPM2_PolicySessionOnly == Plain(<<"U32">>, <<>>)
TPM2_PolicyPhysicalPresence == TPM2_PolicySessionOnly
TPM2_PolicyAuthValue == TPM2_PolicySessionOnly
TPM2_PolicyPassword == TPM2_PolicySessionOnly
TPM2_PolicyGetDigest ==
    Auth(1, 0, {"DEC2"}, "st", <<"U32", "AUTH">>, <<"PARAMSZ?", "2B">>)
TPM2_PolicyNvWritten == Plain(<<"U32", "U8">>, <<>>)
TPM2_PolicyTemplate == Auth(1, 0, {"ENC2"}, "st", <<"U32", "AUTH", "2B">>, <<>>)
TPM2_PolicyAuthorizeNV ==
    Auth(3, 0, {"USER1"}, "SESSIONS", <<"U32", "U32", "U32", "AUTH">>, <<>>)
TPM2_HierarchyControl ==
    Auth(1, 0, {"USER1"}, "SESSIONS", <<"U32", "AUTH", "U32", "U8">>, <<>>)
TPM2_SetPrimaryPolicy ==
    Auth(1, 0, {"ENC2", "USER1"}, "SESSIONS", <<"U32", "AUTH", "2B", "U16">>,
      <<>>)
TPM2_ChangeSeed == Auth(1, 0, {"USER1"}, "SESSIONS", <<"U32", "AUTH">>, <<>>)
TPM2_ChangePPS == TPM2_ChangeSeed
TPM2_ChangeEPS == TPM2_ChangeSeed
TPM2_Clear == Auth(1, 0, {"USER1"}, "SESSIONS", <<"U32", "AUTH">>, <<>>)
TPM2_ClearControl ==
    Auth(1, 0, {"USER1"}, "SESSIONS", <<"U32", "AUTH", "U8">>, <<>>)
TPM2_HierarchyChangeAuth ==
    Auth(1, 0, {"ENC2", "USER1"}, "SESSIONS", <<"U32", "AUTH", "2B">>, <<>>)
TPM2_DictionaryAttackLockReset ==
    Auth(1, 0, {"USER1"}, "SESSIONS", <<"U32", "AUTH">>, <<>>)
TPM2_DictionaryAttackParameters ==
    Auth(1, 0, {"USER1"}, "SESSIONS", <<"U32", "AUTH", "U32", "U32", "U32">>,
      <<>>)
TPM2_PP_Commands ==
    Auth(1, 0, {"USER1"}, "SESSIONS", <<"U32", "AUTH", "L.U32", "L.U32">>, <<>>)
TPM2_SetAlgorithmSet ==
    Auth(1, 0, {"USER1"}, "SESSIONS", <<"U32", "AUTH", "U32">>, <<>>)
TPM2_FieldUpgradeStart ==
    Auth(2, 0, {"ENC2", "ADMIN"}, "SESSIONS", <<"U32", "U32", "AUTH", "2B",
      "SIGNATURE">>, <<>>)
TPM2_FieldUpgradeData ==
    Auth(0, 0, {"ENC2"}, "st", <<"AUTH", "2B">>, <<"PARAMSZ?", "HA", "HA">>)
TPM2_FirmwareRead ==
    Auth(0, 0, {"DEC2"}, "st", <<"AUTH", "U32">>, <<"PARAMSZ?", "2B">>)
TPM2_ContextSave == Plain(<<"U32">>, <<"U64", "U32", "U32", "2B">>)
TPM2_ContextLoad == Plain(<<"U64", "U32", "U32", "2B">>, <<"U32">>)
TPM2_EvictControl ==
    Auth(2, 0, {"USER1"}, "SESSIONS", <<"U32", "U32", "AUTH", "U32">>, <<>>)
TPM2_ReadClock ==
    Auth(0, 0, {}, "st", <<"AUTH">>, <<"PARAMSZ?", "U64", "U64", "U32", "U32",
      "U8">>)
ClockSetEncrypted ==    \* a slip: CMD_FLAG_ENC2 on a command without a sized buffer
    Auth(1, 0, {"USER1", "ENC2"}, "SESSIONS", <<"U32", "AUTH", "U64">>, <<>>)
TPM2_ClockSet == Auth(1, 0, {"USER1"}, "SESSIONS", <<"U32", "AUTH", "U64">>, <<>>)
TPM2_ClockRateAdjust ==
    Auth(1, 0, {"USER1"}, "SESSIONS", <<"U32", "AUTH", "U8">>, <<>>)
TPM2_TestParms == Auth(0, 0, {}, "st", <<"AUTH", "U16", "PARMS">>, <<>>)
TPM2_NV_DefineSpace ==
    Auth(1, 0, {"ENC2", "USER1"}, "SESSIONS", <<"U32", "AUTH", "2B", "U16",
      "U32", "U16", "U32", "2B", "U16">>, <<>>)
TPM2_NV_UndefineSpace ==
    Auth(2, 0, {"USER1"}, "SESSIONS", <<"U32", "U32", "AUTH">>, <<>>)
TPM2_NV_UndefineSpaceSpecial ==
    Auth(2, 0, {"ADMIN", "USER2"}, "SESSIONS", <<"U32", "U32", "AUTH">>, <<>>)
TPM2_NV_ReadPublic ==
    Auth(1, 0, {"DEC2"}, "st", <<"U32", "AUTH">>, <<"PARAMSZ?", "U16", "U32",
      "U16", "U32", "2B", "U16", "2B">>)
TPM2_NV_Write ==
    Auth(2, 0, {"ENC2", "USER1"}, "SESSIONS", <<"U32", "U32", "AUTH", "2B",
      "U16">>, <<>>)
TPM2_NV_Increment ==
    Auth(2, 0, {"USER1"}, "SESSIONS", <<"U32", "U32", "AUTH">>, <<>>)
TPM2_NV_Extend ==
    Auth(2, 0, {"ENC2", "USER1"}, "SESSIONS", <<"U32", "U32", "AUTH", "2B">>,
      <<>>)
TPM2_NV_SetBits ==
    Auth(2, 0, {"USER1"}, "SESSIONS", <<"U32", "U32", "AUTH", "U64">>, <<>>)
TPM2_NV_WriteLock ==
    Auth(2, 0, {"USER1"}, "SESSIONS", <<"U32", "U32", "AUTH">>, <<>>)
TPM2_NV_GlobalWriteLock ==
    Auth(1, 0, {"USER1"}, "SESSIONS", <<"U32", "AUTH">>, <<>>)
TPM2_NV_Read ==
    Auth(2, 0, {"DEC2", "USER1"}, "SESSIONS", <<"U32", "U32", "AUTH", "U16",
      "U16">>, <<"PARAMSZ", "2B">>)
TPM2_NV_ReadLock ==
    Auth(2, 0, {"USER1"}, "SESSIONS", <<"U32", "U32", "AUTH">>, <<>>)
TPM2_NV_ChangeAuth ==
    Auth(1, 0, {"ENC2", "ADMIN"}, "SESSIONS", <<"U32", "AUTH", "2B">>, <<>>)
TPM2_NV_Certify ==
    Auth(3, 0, {"ENC2", "DEC2", "USER1", "USER2"}, "SESSIONS", <<"U32", "U32",
      "U32", "AUTH", "2B", "SCHEME", "U16", "U16">>, <<"PARAMSZ", "2B",
      "SIGNATURE">>)
TPM2_SetCommandSet ==
    Auth(1, 0, {"USER1"}, "SESSIONS", <<"U32", "AUTH", "U32", "U32", "U32">>,
      <<>>)
TPM2_SetMode ==
    Auth(1, 0, {"USER1"}, "SESSIONS", <<"U32", "AUTH", "U8", "U8", "U8", "U8">>,
      <<>>)
TPM2_GetRandom2 == Plain(<<"U16">>, <<"2B">>)
TPM2_GPIO_Config == Auth(1, 0, {}, "SESSIONS", <<"U32", "AUTH", "L.GPIO">>, <<>>)
TPM2_NTC2_PreConfig ==
    Auth(1, 0, {"USER1"}, "SESSIONS", <<"U32", "AUTH", "BYTES">>, <<>>)
TPM2_NTC2_GetConfig == Plain(<<>>, <<"BYTES">>)
TPM2_Nations_IdentityKeySet ==
    Auth(1, 0, {"USER1"}, "SESSIONS", <<"U32", "AUTH", "U32">>, <<>>)
=============================================================================

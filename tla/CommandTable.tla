---------------------------- MODULE CommandTable ----------------------------
(***************************************************************************)
(* Each command by its name: the TPM2_ function that marshals it, beside   *)
(* the structures the function is given and fills.                         *)
(***************************************************************************)
EXTENDS CommandInterface, CommandMarshal

None == <<>>
C(fn, in, out) == [fn |-> fn, in |-> in, out |-> out]
Command ==
    [Startup |-> C(TPM2_Startup, Startup_In, None),
     Shutdown |-> C(TPM2_Shutdown, Shutdown_In, None),
     SelfTest |-> C(TPM2_SelfTest, SelfTest_In, None),
     IncrementalSelfTest |->
        C(TPM2_IncrementalSelfTest, IncrementalSelfTest_In, IncrementalSelfTest_Out),
     GetTestResult |-> C(TPM2_GetTestResult, None, GetTestResult_Out),
     GetCapability |-> C(TPM2_GetCapability, GetCapability_In, GetCapability_Out),
     GetRandom |-> C(TPM2_GetRandom, GetRandom_In, GetRandom_Out),
     StirRandom |-> C(TPM2_StirRandom, StirRandom_In, None),
     PCR_Read |-> C(TPM2_PCR_Read, PCR_Read_In, PCR_Read_Out),
     PCR_Extend |-> C(TPM2_PCR_Extend, PCR_Extend_In, None),
     Create |-> C(TPM2_Create, Create_In, Create_Out),
     CreateLoaded |-> C(TPM2_CreateLoaded, CreateLoaded_In, CreateLoaded_Out),
     CreatePrimary |-> C(TPM2_CreatePrimary, CreatePrimary_In, CreatePrimary_Out),
     Load |-> C(TPM2_Load, Load_In, Load_Out),
     FlushContext |-> C(TPM2_FlushContext, FlushContext_In, None),
     Unseal |-> C(TPM2_Unseal, Unseal_In, Unseal_Out),
     StartAuthSession |->
        C(TPM2_StartAuthSession, StartAuthSession_In, StartAuthSession_Out),
     PolicyRestart |-> C(TPM2_PolicyRestart, PolicyRestart_In, None),
     LoadExternal |-> C(TPM2_LoadExternal, LoadExternal_In, LoadExternal_Out),
     ReadPublic |-> C(TPM2_ReadPublic, ReadPublic_In, ReadPublic_Out),
     ActivateCredential |->
        C(TPM2_ActivateCredential, ActivateCredential_In, ActivateCredential_Out),
     MakeCredential |-> C(TPM2_MakeCredential, MakeCredential_In, MakeCredential_Out),
     ObjectChangeAuth |->
        C(TPM2_ObjectChangeAuth, ObjectChangeAuth_In, ObjectChangeAuth_Out),
     Duplicate |-> C(TPM2_Duplicate, Duplicate_In, Duplicate_Out),
     Rewrap |-> C(TPM2_Rewrap, Rewrap_In, Rewrap_Out),
     Import |-> C(TPM2_Import, Import_In, Import_Out),
     RSA_Encrypt |-> C(TPM2_RSA_Encrypt, RSA_Encrypt_In, RSA_Encrypt_Out),
     RSA_Decrypt |-> C(TPM2_RSA_Decrypt, RSA_Decrypt_In, RSA_Decrypt_Out),
     ECDH_KeyGen |-> C(TPM2_ECDH_KeyGen, ECDH_KeyGen_In, ECDH_KeyGen_Out),
     ECDH_ZGen |-> C(TPM2_ECDH_ZGen, ECDH_ZGen_In, ECDH_ZGen_Out),
     ECC_Parameters |-> C(TPM2_ECC_Parameters, ECC_Parameters_In, ECC_Parameters_Out),
     ZGen_2Phase |-> C(TPM2_ZGen_2Phase, ZGen_2Phase_In, ZGen_2Phase_Out),
     EncryptDecrypt |-> C(TPM2_EncryptDecrypt, EncryptDecrypt_In, EncryptDecrypt_Out),
     EncryptDecrypt2 |->
        C(TPM2_EncryptDecrypt2, EncryptDecrypt2_In, EncryptDecrypt2_Out),
     Hash |-> C(TPM2_Hash, Hash_In, Hash_Out),
     HMAC |-> C(TPM2_HMAC, HMAC_In, HMAC_Out),
     HMAC_Start |-> C(TPM2_HMAC_Start, HMAC_Start_In, HMAC_Start_Out),
     HashSequenceStart |->
        C(TPM2_HashSequenceStart, HashSequenceStart_In, HashSequenceStart_Out),
     SequenceUpdate |-> C(TPM2_SequenceUpdate, SequenceUpdate_In, None),
     SequenceComplete |->
        C(TPM2_SequenceComplete, SequenceComplete_In, SequenceComplete_Out),
     EventSequenceComplete |->
        C(TPM2_EventSequenceComplete, EventSequenceComplete_In, EventSequenceComplete_Out),
     Certify |-> C(TPM2_Certify, Certify_In, Certify_Out),
     CertifyCreation |->
        C(TPM2_CertifyCreation, CertifyCreation_In, CertifyCreation_Out),
     Quote |-> C(TPM2_Quote, Quote_In, Quote_Out),
     GetSessionAuditDigest |->
        C(TPM2_GetSessionAuditDigest, GetSessionAuditDigest_In, GetSessionAuditDigest_Out),
     GetCommandAuditDigest |->
        C(TPM2_GetCommandAuditDigest, GetCommandAuditDigest_In, GetCommandAuditDigest_Out),
     GetTime |-> C(TPM2_GetTime, GetTime_In, GetTime_Out),
     Commit |-> C(TPM2_Commit, Commit_In, Commit_Out),
     EC_Ephemeral |-> C(TPM2_EC_Ephemeral, EC_Ephemeral_In, EC_Ephemeral_Out),
     VerifySignature |->
        C(TPM2_VerifySignature, VerifySignature_In, VerifySignature_Out),
     Sign |-> C(TPM2_Sign, Sign_In, Sign_Out),
     SetCommandCodeAuditStatus |->
        C(TPM2_SetCommandCodeAuditStatus, SetCommandCodeAuditStatus_In, None),
     PCR_Event |-> C(TPM2_PCR_Event, PCR_Event_In, PCR_Event_Out),
     PCR_Allocate |-> C(TPM2_PCR_Allocate, PCR_Allocate_In, PCR_Allocate_Out),
     PCR_SetAuthPolicy |-> C(TPM2_PCR_SetAuthPolicy, PCR_SetAuthPolicy_In, None),
     PCR_SetAuthValue |-> C(TPM2_PCR_SetAuthValue, PCR_SetAuthValue_In, None),
     PCR_Reset |-> C(TPM2_PCR_Reset, PCR_Reset_In, None),
     PolicySigned |-> C(TPM2_PolicySigned, PolicySigned_In, PolicySigned_Out),
     PolicySecret |-> C(TPM2_PolicySecret, PolicySecret_In, PolicySecret_Out),
     PolicyTicket |-> C(TPM2_PolicyTicket, PolicyTicket_In, None),
     PolicyOR |-> C(TPM2_PolicyOR, PolicyOR_In, None),
     PolicyPCR |-> C(TPM2_PolicyPCR, PolicyPCR_In, None),
     PolicyLocality |-> C(TPM2_PolicyLocality, PolicyLocality_In, None),
     PolicyNV |-> C(TPM2_PolicyNV, PolicyNV_In, None),
     PolicyCounterTimer |-> C(TPM2_PolicyCounterTimer, PolicyCounterTimer_In, None),
     PolicyCommandCode |-> C(TPM2_PolicyCommandCode, PolicyCommandCode_In, None),
     PolicyCpHash |-> C(TPM2_PolicyCpHash, PolicyCpHash_In, None),
     PolicyNameHash |-> C(TPM2_PolicyNameHash, PolicyNameHash_In, None),
     PolicyDuplicationSelect |->
        C(TPM2_PolicyDuplicationSelect, PolicyDuplicationSelect_In, None),
     PolicyAuthorize |-> C(TPM2_PolicyAuthorize, PolicyAuthorize_In, None),
     PolicyPhysicalPresence |->
        C(TPM2_PolicyPhysicalPresence, PolicyPhysicalPresence_In, None),
     PolicyAuthValue |-> C(TPM2_PolicyAuthValue, PolicyAuthValue_In, None),
     PolicyPassword |-> C(TPM2_PolicyPassword, PolicyPassword_In, None),
     PolicyGetDigest |->
        C(TPM2_PolicyGetDigest, PolicyGetDigest_In, PolicyGetDigest_Out),
     PolicyNvWritten |-> C(TPM2_PolicyNvWritten, PolicyNvWritten_In, None),
     PolicyTemplate |-> C(TPM2_PolicyTemplate, PolicyTemplate_In, None),
     PolicyAuthorizeNV |-> C(TPM2_PolicyAuthorizeNV, PolicyAuthorizeNV_In, None),
     HierarchyControl |-> C(TPM2_HierarchyControl, HierarchyControl_In, None),
     SetPrimaryPolicy |-> C(TPM2_SetPrimaryPolicy, SetPrimaryPolicy_In, None),
     ChangePPS |-> C(TPM2_ChangePPS, ChangeSeed_In, None),
     ChangeEPS |-> C(TPM2_ChangeEPS, ChangeSeed_In, None),
     Clear |-> C(TPM2_Clear, Clear_In, None),
     ClearControl |-> C(TPM2_ClearControl, ClearControl_In, None),
     HierarchyChangeAuth |-> C(TPM2_HierarchyChangeAuth, HierarchyChangeAuth_In, None),
     DictionaryAttackLockReset |->
        C(TPM2_DictionaryAttackLockReset, DictionaryAttackLockReset_In, None),
     DictionaryAttackParameters |->
        C(TPM2_DictionaryAttackParameters, DictionaryAttackParameters_In, None),
     PP_Commands |-> C(TPM2_PP_Commands, PP_Commands_In, None),
     SetAlgorithmSet |-> C(TPM2_SetAlgorithmSet, SetAlgorithmSet_In, None),
     FieldUpgradeStart |-> C(TPM2_FieldUpgradeStart, FieldUpgradeStart_In, None),
     FieldUpgradeData |->
        C(TPM2_FieldUpgradeData, FieldUpgradeData_In, FieldUpgradeData_Out),
     FirmwareRead |-> C(TPM2_FirmwareRead, FirmwareRead_In, FirmwareRead_Out),
     ContextSave |-> C(TPM2_ContextSave, ContextSave_In, ContextSave_Out),
     ContextLoad |-> C(TPM2_ContextLoad, ContextLoad_In, ContextLoad_Out),
     EvictControl |-> C(TPM2_EvictControl, EvictControl_In, None),
     ReadClock |-> C(TPM2_ReadClock, None, ReadClock_Out),
     ClockSet |-> C(TPM2_ClockSet, ClockSet_In, None),
     ClockRateAdjust |-> C(TPM2_ClockRateAdjust, ClockRateAdjust_In, None),
     TestParms |-> C(TPM2_TestParms, TestParms_In, None),
     NV_DefineSpace |-> C(TPM2_NV_DefineSpace, NV_DefineSpace_In, None),
     NV_UndefineSpace |-> C(TPM2_NV_UndefineSpace, NV_UndefineSpace_In, None),
     NV_UndefineSpaceSpecial |->
        C(TPM2_NV_UndefineSpaceSpecial, NV_UndefineSpaceSpecial_In, None),
     NV_ReadPublic |-> C(TPM2_NV_ReadPublic, NV_ReadPublic_In, NV_ReadPublic_Out),
     NV_Write |-> C(TPM2_NV_Write, NV_Write_In, None),
     NV_Increment |-> C(TPM2_NV_Increment, NV_Increment_In, None),
     NV_Extend |-> C(TPM2_NV_Extend, NV_Extend_In, None),
     NV_SetBits |-> C(TPM2_NV_SetBits, NV_SetBits_In, None),
     NV_WriteLock |-> C(TPM2_NV_WriteLock, NV_WriteLock_In, None),
     NV_GlobalWriteLock |-> C(TPM2_NV_GlobalWriteLock, NV_GlobalWriteLock_In, None),
     NV_Read |-> C(TPM2_NV_Read, NV_Read_In, NV_Read_Out),
     NV_ReadLock |-> C(TPM2_NV_ReadLock, NV_ReadLock_In, None),
     NV_ChangeAuth |-> C(TPM2_NV_ChangeAuth, NV_ChangeAuth_In, None),
     NV_Certify |-> C(TPM2_NV_Certify, NV_Certify_In, NV_Certify_Out),
     SetCommandSet |-> C(TPM2_SetCommandSet, SetCommandSet_In, None),
     SetMode |-> C(TPM2_SetMode, SetMode_In, None),
     GetRandom2 |-> C(TPM2_GetRandom2, GetRandom_In, GetRandom2_Out),
     GPIO_Config |-> C(TPM2_GPIO_Config, GpioConfig_In, None),
     NTC2_PreConfig |-> C(TPM2_NTC2_PreConfig, NTC2_PreConfig_In, None),
     NTC2_GetConfig |-> C(TPM2_NTC2_GetConfig, None, NTC2_GetConfig_Out),
     Nations_IdentityKeySet |->
        C(TPM2_Nations_IdentityKeySet, Nations_IdentityKeySet_In, None)]
=============================================================================

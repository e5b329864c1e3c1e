-------------------------- MODULE CommandInterface --------------------------
(***************************************************************************)
(* The commands as the TPM knows them: the X_In and X_Out structures of    *)
(* tpm2.h.  Handles stand first and outside the parameters; a handle       *)
(* behind another field, and the enable of HierarchyControl and the        *)
(* persistentHandle of EvictControl, are parameters.  TPM2B structures of  *)
(* plain bytes are all "2B".  The types are those of PacketFields.         *)
(***************************************************************************)
Startup_In == <<"U16">>
Shutdown_In == <<"U16">>
GetCapability_In == <<"U32", "U32", "U32">>
GetCapability_Out == <<"U8", "CAPABILITY_DATA">>
SelfTest_In == <<"U8">>
IncrementalSelfTest_In == <<"ALGS">>
IncrementalSelfTest_Out == <<"ALGS">>
GetTestResult_Out == <<"2B", "U32">>     \* testResult is a TPM_RC
GetRandom_In == <<"U16">>
GetRandom_Out == <<"2B">>
StirRandom_In == <<"2B">>
PCR_Read_In == <<"PCR_SELECTIONS">>
PCR_Read_Out == <<"U32", "PCR_SELECTIONS", "DIGESTS">>
PCR_Extend_In == <<"HANDLE", "DIGEST_VALUES">>
Create_In == <<"HANDLE", "SENSITIVE_CREATE", "PUBLIC", "2B", "PCR_SELECTIONS">>
Create_Out == <<"2B", "PUBLIC", "CREATION_DATA", "2B", "TK">>
CreateLoaded_In == <<"HANDLE", "SENSITIVE_CREATE", "PUBLIC">>
CreateLoaded_Out == <<"HANDLE", "2B", "PUBLIC", "2B">>
CreatePrimary_In ==
    <<"HANDLE", "SENSITIVE_CREATE", "PUBLIC", "2B", "PCR_SELECTIONS">>
CreatePrimary_Out == <<"HANDLE", "PUBLIC", "CREATION_DATA", "2B", "TK", "2B">>
Load_In == <<"HANDLE", "2B", "PUBLIC">>
Load_Out == <<"HANDLE", "2B">>
FlushContext_In == <<"HANDLE">>
Unseal_In == <<"HANDLE">>
Unseal_Out == <<"2B">>
StartAuthSession_In == <<"HANDLE", "HANDLE", "2B", "2B", "U8", "SYM_DEF", "U16">>
StartAuthSession_Out == <<"HANDLE", "2B">>
PolicyRestart_In == <<"HANDLE">>
LoadExternal_In == <<"SENSITIVE", "PUBLIC", "U32">>
LoadExternal_Out == <<"HANDLE", "2B">>
ReadPublic_In == <<"HANDLE">>
ReadPublic_Out == <<"PUBLIC", "2B", "2B">>
ActivateCredential_In == <<"HANDLE", "HANDLE", "2B", "2B">>
ActivateCredential_Out == <<"2B">>
MakeCredential_In == <<"HANDLE", "2B", "2B">>
MakeCredential_Out == <<"2B", "2B">>
ObjectChangeAuth_In == <<"HANDLE", "HANDLE", "2B">>
ObjectChangeAuth_Out == <<"2B">>
Duplicate_In == <<"HANDLE", "HANDLE", "2B", "SYM_DEF">>
Duplicate_Out == <<"2B", "2B", "2B">>
Rewrap_In == <<"HANDLE", "HANDLE", "2B", "2B", "2B">>
Rewrap_Out == <<"2B", "2B">>
Import_In == <<"HANDLE", "2B", "PUBLIC", "2B", "2B", "SYM_DEF">>
Import_Out == <<"2B">>
RSA_Encrypt_In == <<"HANDLE", "2B", "RSA_DECRYPT", "2B">>
RSA_Encrypt_Out == <<"2B">>
RSA_Decrypt_In == <<"HANDLE", "2B", "RSA_DECRYPT", "2B">>
RSA_Decrypt_Out == <<"2B">>
ECDH_KeyGen_In == <<"HANDLE">>
ECDH_KeyGen_Out == <<"ECC_POINT", "ECC_POINT">>
ECDH_ZGen_In == <<"HANDLE", "ECC_POINT">>
ECDH_ZGen_Out == <<"ECC_POINT">>
ECC_Parameters_In == <<"U16">>
ECC_Parameters_Out == <<"ALGORITHM_DETAIL_ECC">>
ZGen_2Phase_In == <<"HANDLE", "ECC_POINT", "ECC_POINT", "U16", "U16">>
ZGen_2Phase_Out == <<"ECC_POINT", "ECC_POINT">>
EncryptDecrypt_In == <<"HANDLE", "U8", "U16", "2B", "2B">>
EncryptDecrypt_Out == <<"2B", "2B">>
EncryptDecrypt2_In == <<"HANDLE", "2B", "U8", "U16", "2B">>
EncryptDecrypt2_Out == <<"2B", "2B">>
Hash_In == <<"2B", "U16", "U32">>
Hash_Out == <<"2B", "TK">>
HMAC_In == <<"HANDLE", "2B", "U16">>
HMAC_Out == <<"2B">>
HMAC_Start_In == <<"HANDLE", "2B", "U16">>
HMAC_Start_Out == <<"HANDLE">>
HashSequenceStart_In == <<"2B", "U16">>
HashSequenceStart_Out == <<"HANDLE">>
SequenceUpdate_In == <<"HANDLE", "2B">>
SequenceComplete_In == <<"HANDLE", "2B", "U32">>
SequenceComplete_Out == <<"2B", "TK">>
EventSequenceComplete_In == <<"HANDLE", "HANDLE", "2B">>
EventSequenceComplete_Out == <<"DIGEST_VALUES">>
Certify_In == <<"HANDLE", "HANDLE", "2B", "SIG_SCHEME">>
Certify_Out == <<"2B", "SIGNATURE">>
CertifyCreation_In == <<"HANDLE", "HANDLE", "2B", "2B", "SIG_SCHEME", "TK">>
CertifyCreation_Out == <<"2B", "SIGNATURE">>
Quote_In == <<"HANDLE", "2B", "SIG_SCHEME", "PCR_SELECTIONS">>
Quote_Out == <<"2B", "SIGNATURE">>
GetSessionAuditDigest_In == <<"HANDLE", "HANDLE", "HANDLE", "2B", "SIG_SCHEME">>
GetSessionAuditDigest_Out == <<"2B", "SIGNATURE">>
GetCommandAuditDigest_In == <<"HANDLE", "HANDLE", "2B", "SIG_SCHEME">>
GetCommandAuditDigest_Out == <<"2B", "SIGNATURE">>
GetTime_In == <<"HANDLE", "HANDLE", "2B", "SIG_SCHEME">>
GetTime_Out == <<"2B", "SIGNATURE">>
Commit_In == <<"HANDLE", "ECC_POINT", "2B", "2B">>
Commit_Out == <<"ECC_POINT", "ECC_POINT", "ECC_POINT", "U16">>
EC_Ephemeral_In == <<"U16">>
EC_Ephemeral_Out == <<"ECC_POINT", "U16">>
VerifySignature_In == <<"HANDLE", "2B", "SIGNATURE">>
VerifySignature_Out == <<"TK">>
Sign_In == <<"HANDLE", "2B", "SIG_SCHEME", "TK">>
Sign_Out == <<"SIGNATURE">>
SetCommandCodeAuditStatus_In == <<"HANDLE", "U16", "CCS", "CCS">>
PCR_Event_In == <<"HANDLE", "2B">>
PCR_Event_Out == <<"DIGEST_VALUES">>
PCR_Allocate_In == <<"HANDLE", "PCR_SELECTIONS">>
PCR_Allocate_Out == <<"U8", "U32", "U32", "U32">>
PCR_SetAuthPolicy_In == <<"HANDLE", "2B", "U16", "U32">>
PCR_SetAuthValue_In == <<"HANDLE", "2B">>
PCR_Reset_In == <<"HANDLE">>
PolicySigned_In == <<"HANDLE", "HANDLE", "2B", "2B", "2B", "U32", "SIGNATURE">>
PolicySigned_Out == <<"2B", "TK">>
PolicySecret_In == <<"HANDLE", "HANDLE", "2B", "2B", "2B", "U32">>
PolicySecret_Out == <<"2B", "TK">>
PolicyTicket_In == <<"HANDLE", "2B", "2B", "2B", "2B", "TK">>
PolicyOR_In == <<"HANDLE", "DIGESTS">>
PolicyPCR_In == <<"HANDLE", "2B", "PCR_SELECTIONS">>
PolicyLocality_In == <<"HANDLE", "U8">>
PolicyNV_In == <<"HANDLE", "HANDLE", "HANDLE", "2B", "U16", "U16">>
PolicyCounterTimer_In == <<"HANDLE", "2B", "U16", "U16">>
PolicyCommandCode_In == <<"HANDLE", "U32">>
PolicyPhysicalPresence_In == <<"HANDLE">>
PolicyCpHash_In == <<"HANDLE", "2B">>
PolicyNameHash_In == <<"HANDLE", "2B">>
PolicyDuplicationSelect_In == <<"HANDLE", "2B", "2B", "U8">>
PolicyAuthorize_In == <<"HANDLE", "2B", "2B", "2B", "TK">>
PolicyAuthValue_In == <<"HANDLE">>
PolicyPassword_In == <<"HANDLE">>
PolicyGetDigest_In == <<"HANDLE">>
PolicyGetDigest_Out == <<"2B">>
PolicyNvWritten_In == <<"HANDLE", "U8">>
PolicyTemplate_In == <<"HANDLE", "2B">>
PolicyAuthorizeNV_In == <<"HANDLE", "HANDLE", "HANDLE">>
HierarchyControl_In == <<"HANDLE", "U32", "U8">>
SetPrimaryPolicy_In == <<"HANDLE", "2B", "U16">>
ChangeSeed_In == <<"HANDLE">>
Clear_In == <<"HANDLE">>
ClearControl_In == <<"HANDLE", "U8">>
HierarchyChangeAuth_In == <<"HANDLE", "2B">>
DictionaryAttackLockReset_In == <<"HANDLE">>
DictionaryAttackParameters_In == <<"HANDLE", "U32", "U32", "U32">>
PP_Commands_In == <<"HANDLE", "CCS", "CCS">>
SetAlgorithmSet_In == <<"HANDLE", "U32">>
FieldUpgradeStart_In == <<"HANDLE", "HANDLE", "2B", "SIGNATURE">>
FieldUpgradeData_In == <<"2B">>
FieldUpgradeData_Out == <<"HA", "HA">>
FirmwareRead_In == <<"U32">>
FirmwareRead_Out == <<"2B">>
ContextSave_In == <<"HANDLE">>
ContextSave_Out == <<"CONTEXT">>
ContextLoad_In == <<"CONTEXT">>
ContextLoad_Out == <<"HANDLE">>
EvictControl_In == <<"HANDLE", "HANDLE", "U32">>
ReadClock_Out == <<"TIME_INFO">>
ClockSet_In == <<"HANDLE", "U64">>
ClockRateAdjust_In == <<"HANDLE", "U8">>
TestParms_In == <<"PUBLIC_PARMS">>
NV_DefineSpace_In == <<"HANDLE", "2B", "NV_PUBLIC">>
NV_UndefineSpace_In == <<"HANDLE", "HANDLE">>
NV_UndefineSpaceSpecial_In == <<"HANDLE", "HANDLE">>
NV_ReadPublic_In == <<"HANDLE">>
NV_ReadPublic_Out == <<"NV_PUBLIC", "2B">>
NV_Write_In == <<"HANDLE", "HANDLE", "2B", "U16">>
NV_Increment_In == <<"HANDLE", "HANDLE">>
NV_Extend_In == <<"HANDLE", "HANDLE", "2B">>
NV_SetBits_In == <<"HANDLE", "HANDLE", "U64">>
NV_WriteLock_In == <<"HANDLE", "HANDLE">>
NV_GlobalWriteLock_In == <<"HANDLE">>
NV_Read_In == <<"HANDLE", "HANDLE", "U16", "U16">>
NV_Read_Out == <<"2B">>
NV_ReadLock_In == <<"HANDLE", "HANDLE">>
NV_ChangeAuth_In == <<"HANDLE", "2B">>
NV_Certify_In == <<"HANDLE", "HANDLE", "HANDLE", "2B", "SIG_SCHEME", "U16", "U16">>
NV_Certify_Out == <<"2B", "SIGNATURE">>
SetCommandSet_In == <<"HANDLE", "U32", "U32", "U32">>
SetMode_In == <<"HANDLE", "MODE_SET">>
GetRandom2_Out == <<"2B">>
GpioConfig_In == <<"HANDLE", "GPIO_CONFIGS">>
NTC2_PreConfig_In == <<"HANDLE", "BYTES">>
NTC2_GetConfig_Out == <<"BYTES">>
Nations_IdentityKeySet_In == <<"HANDLE", "U32">>
=============================================================================

----------------------------- MODULE WrapperApi -----------------------------
(***************************************************************************)
(* The calls a program makes, on its own structures and with its own       *)
(* values, and what it sees to first: structures that are filled get no    *)
(* new handle ("into"), structures that are used have one ("uses"), a blob *)
(* is loaded only where there is one ("blobs").  The rules beyond that are *)
(* the ones the functions leave to their callers without saying so.        *)
(***************************************************************************)
EXTENDS WrapCrypto

Owned == {"srk", "ek", "key", "blob", "pub", "ecdh", "eph", "nv", "sess", "hash", "mac", "mkey", "sym"}
Transient == {"T1", "T2", "T3"}
First == [T1 |-> 1, T2 |-> 2, T3 |-> 3, S1 |-> 1, S2 |-> 2]

BlobRec(id, auth) == [id |-> id, auth |-> auth]
NoBlob == BlobRec("", "")

A(body, into, uses) == [body |-> body, into |-> into, uses |-> uses, blobs |-> {}, rules |-> {}]
Rules(a, rules) == [a EXCEPT !.rules = rules]
Blobs(a, blobs) == [a EXCEPT !.blobs = blobs]

Api ==
    [CreateSRK |-> A(wolfTPM2_CreateSRK("srk", "s"), {"srk"}, {}),
     CreateEK |-> A(wolfTPM2_CreateEK("ek"), {"ek"}, {}),
     UnloadSRK |-> A(wolfTPM2_UnloadHandle("srk"), {}, {"srk"}),
     UnloadEK |-> A(wolfTPM2_UnloadHandle("ek"), {}, {"ek"}),
     UnloadKey |-> A(wolfTPM2_UnloadHandle("key"), {}, {"key"}),
     UnloadBlob |-> A(wolfTPM2_UnloadHandle("blob"), {}, {"blob"}),
     UnloadPub |-> A(wolfTPM2_UnloadHandle("pub"), {}, {"pub"}),
     UnloadSession |-> A(wolfTPM2_UnloadHandle("sess"), {}, {"sess"}),
     UnloadSym |-> A(wolfTPM2_UnloadHandle("sym"), {}, {"sym"}),
     UnloadECDH |-> A(wolfTPM2_UnloadHandle("ecdh"), {}, {"ecdh"}),

     CreateKey |-> A(wolfTPM2_CreateKey("blob", "srk", "KEY", "b"), {"blob"}, {"srk"}),
     LoadKey |-> Blobs(A(wolfTPM2_LoadKey("blob", "srk"), {"blob"}, {"srk"}), {"blob"}),
     CreateAndLoadKey |-> A(wolfTPM2_CreateAndLoadKey("key", "srk", "KEY", "k"), {"key"}, {"srk"}),
     CreateAndLoadAIK |-> A(wolfTPM2_CreateAndLoadAIK("key", "srk", "k"), {"key"}, {"srk"}),
     CreateLoadedKey |->
        Rules(A(wolfTPM2_CreateLoadedKey("blob", "srk", "KEY", "b"), {"blob"}, {"srk"}), {"plain"}),
     CreateKeySeal |-> A(wolfTPM2_CreateKeySeal("blob", "srk", "b"), {"blob"}, {"srk"}),
     ChangeAuthKey |->
        Rules(A(wolfTPM2_ChangeAuthKey("key", "srk", "new"), {}, {"key", "srk"}), {"plain"}),
     NVStoreKey |-> A(wolfTPM2_NVStoreKey("key", "P"), {}, {"key"}),
     NVDeleteKey |-> Rules(A(wolfTPM2_NVDeleteKey("key", "P"), {}, {"key"}), {"blank"}),
     \* The caller knows the value of the key it asks for.
     ReadPublicKey |->
        Rules(A(wolfTPM2_ReadPublicKey("key", "P") \o Take("key", {"auth"}), {"key"}, {}), {"stored"}),

     SignHash |-> A(wolfTPM2_SignHash("key"), {}, {"key"}),
     SignBlob |-> A(wolfTPM2_SignHash("blob"), {}, {"blob"}),
     VerifyHash |-> A(wolfTPM2_VerifyHash("key"), {}, {"key"}),
     RsaDecrypt |-> A(wolfTPM2_RsaDecrypt("key"), {}, {"key"}),
     RsaEncrypt |-> A(wolfTPM2_RsaEncrypt("pub"), {}, {"pub"}),
     VerifyPub |-> A(wolfTPM2_VerifyHash_ex("pub"), {}, {"pub"}),
     VerifyScheme |-> A(wolfTPM2_VerifyHashScheme("pub"), {}, {"pub"}),
     CSR_ECC |-> A(wolfTPM2_CSR_MakeAndSign("key", "ECC"), {}, {"key"}),
     CSR_RSA |-> A(wolfTPM2_CSR_MakeAndSign("key", "RSA"), {}, {"key"}),

     LoadPublicKey |-> A(wolfTPM2_LoadPublicKey("pub", "PUB"), {"pub"}, {}),
     RsaPubPem |-> A(wolfTPM2_RsaKey_PubPemToTpm("pub"), {"pub"}, {}),
     EccWolfToTpm |-> A(wolfTPM2_EccKey_WolfToTpm("pub"), {"pub"}, {}),
     LoadPrivateKey |-> A(wolfTPM2_LoadPrivateKey("srk", "key", "SENS"), {"key"}, {"srk"}),
     RsaWolfToTpm |-> A(wolfTPM2_RsaKey_WolfToTpm_ex(TRUE, "srk", "key"), {"key"}, {"srk"}),
     EccPrivToTpm |-> A(wolfTPM2_EccKey_WolfToTpm_ex(TRUE, "srk", "key"), {"key"}, {"srk"}),
     ImportPem |-> A(wolfTPM2_RsaPrivateKeyImportPem("srk", "blob"), {"blob"}, {"srk"}),
     ImportDer |-> A(wolfTPM2_RsaPrivateKeyImportDer("srk", "blob"), {"blob"}, {"srk"}),
     RsaKeyBlob |-> A(wolfTPM2_CreateRsaKeyBlob("srk", "blob"), {"blob"}, {"srk"}),
     EccKeyBlob |-> A(wolfTPM2_CreateEccKeyBlob("srk", "blob"), {"blob"}, {"srk"}),
     KeyAuth |-> A(wolfTPM2_SetKeyAuthPassword("key", "k"), {"key"}, {}),

     ECDHGenKey |-> A(wolfTPM2_ECDHGenKey("ecdh", "e"), {"ecdh"}, {}),
     ECDHGen |-> A(wolfTPM2_ECDHGen("ecdh"), {}, {"ecdh"}),
     ECDHGenZ |-> A(wolfTPM2_ECDHGenZ("ecdh"), {}, {"ecdh"}),
     ECDHEGenKey |-> A(wolfTPM2_ECDHEGenKey("eph"), {"eph"}, {}),
     ECDHEGenZ |-> A(wolfTPM2_ECDHEGenZ("srk", "eph"), {}, {"srk"}),

     StartSession |-> A(wolfTPM2_StartSession("sess", ""), {"sess"}, {}),
     StartSalted |-> A(wolfTPM2_StartSession("sess", "srk"), {"sess"}, {"srk"}),
     EkPolicy |-> A(wolfTPM2_CreateAuthSession_EkPolicy("sess"), {"sess"}, {}),
     PolicyRestart |-> A(wolfTPM2_PolicyRestart("sess"), {}, {"sess"}),
     Policies |-> A(wolfTPM2_PolicyPCR("sess") \o Call(wolfTPM2_PolicyPassword("sess"))
                    \o Call(wolfTPM2_PolicyAuthValue("sess")) \o Call(wolfTPM2_PolicyAuthorize("sess"))
                    \o Call(wolfTPM2_GetPolicyDigest("sess")), {}, {"sess"}),

     NVCreateAuth |-> A(wolfTPM2_NVCreateAuth("owner", "nv", "n"), {}, {}),
     NVOpen |-> Rules(A(wolfTPM2_NVOpen("nv", "n"), {}, {}), {"defined"}),
     NVWriteAuth |-> Rules(A(wolfTPM2_NVWriteAuth("nv"), {}, {"nv"}), {"pw"}),
     NVExtend |-> Rules(A(wolfTPM2_NVExtend("nv"), {}, {"nv"}), {"pw"}),
     NVReadAuth |-> Rules(A(wolfTPM2_NVReadAuth("nv"), {}, {"nv"}), {"pw", "opened"}),
     NVIncrement |-> Rules(A(wolfTPM2_NVIncrement("nv"), {}, {"nv"}), {"pw", "opened"}),
     NVWriteLock |-> Rules(A(wolfTPM2_NVWriteLock("nv"), {}, {"nv"}), {"pw", "opened"}),
     NVWritePolicy |-> A(wolfTPM2_NVWriteAuthPolicy("sess", "nv"), {}, {"nv", "sess"}),
     NVReadPolicy |-> A(wolfTPM2_NVReadAuthPolicy("sess", "nv"), {}, {"nv", "sess"}),
     NVDeleteAuth |-> Rules(A(wolfTPM2_NVDeleteAuth("owner"), {}, {}), {"defined"}),
     NVCreate |-> A(wolfTPM2_NVCreate("OWNER", "n"), {}, {}),
     NVWrite |-> Rules(A(wolfTPM2_NVWrite, {}, {}), {"index"}),
     NVRead |-> Rules(A(wolfTPM2_NVRead, {}, {}), {"index"}),
     NVReadCert |-> Rules(A(wolfTPM2_NVReadCert, {}, {}), {"index"}),
     NVDelete |-> Rules(A(wolfTPM2_NVDelete("OWNER"), {}, {}), {"defined"}),

     ExtendPCR |-> A(wolfTPM2_ExtendPCR, {}, {}),
     PCRGetDigest |-> A(wolfTPM2_PCRGetDigest, {}, {}),
     ResetPCR |-> Rules(A(wolfTPM2_ResetPCR, {}, {}), {"blank"}),
     HashStart |-> A(wolfTPM2_HashStart("hash", "h"), {"hash"}, {}),
     HashUpdate |-> A(wolfTPM2_HashUpdate("hash"), {}, {"hash"}),
     HashFinish |-> A(wolfTPM2_HashFinish("hash"), {}, {"hash"}),
     HmacStart |->
        Rules(A(wolfTPM2_HmacStart("mac", "mkey", "srk", "m"), {"mac"}, {"srk"}), {"plain"}),
     HmacUpdate |-> A(wolfTPM2_HmacUpdate("mac"), {}, {"mac"}),
     HmacFinish |-> A(wolfTPM2_HmacFinish("mac", "mkey", FALSE), {}, {"mac"}),
     HmacKeep |-> A(wolfTPM2_HmacFinish("mac", "mkey", TRUE), {}, {"mac"}),
     LoadSymmetricKey |-> A(wolfTPM2_LoadSymmetricKey("sym"), {"sym"}, {}),
     EncryptDecrypt |-> Rules(A(wolfTPM2_EncryptDecrypt("sym"), {}, {"sym"}), {"plain"}),

     CbRandom |-> A(CbRandom, {}, {}),
     CbRsaKeyGen |-> A(CbRsaKeyGen("blob", "srk"), {"blob"}, {"srk"}),
     CbRsaPublic |-> A(CbRsaPublic, {}, {}),
     CbRsaPrivate |-> A(CbRsaPrivate("blob"), {}, {"blob"}),
     CbEcdsaKeyGen |-> A(CbEcdsaKeyGen("key", "srk"), {}, {"srk"}),
     CbEccKeyGen |-> A(CbEccKeyGen("key", "srk", "k"), {}, {"srk"}),
     CbEcdhKeyGen |-> A(CbEcdhKeyGen("ecdh"), {}, {}),
     CbEcdsaSign |-> A(CbEcdsaSign("key"), {}, {"key"}),
     CbEcdsaVerify |-> A(CbEcdsaVerify, {}, {}),
     CbEcdh |-> A(CbEcdh("ecdh"), {}, {}),
     CbCipher |-> Rules(A(CbCipher, {}, {}), {"plain"}),
     CbHashUpdate |-> A(CbHashUpdate("hash"), {}, {}),
     CbHashFinal |-> A(CbHashFinal("hash"), {}, {"hash"}),
     CbHashOnce |-> A(CbHashOnce, {}, {}),
     CbHashCached |-> A(CbHashCached("hash"), {"hash"}, {}),
     CbHmacUpdate |-> Rules(A(CbHmacUpdate("mac", "mkey", "srk"), {}, {"srk"}), {"plain"}),
     CbHmacFinal |-> A(CbHmacFinal("mac", "mkey"), {}, {"mac"}),
     PkRsaSign |-> A(wolfTPM2_PK_RsaSign("blob"), {}, {"blob"}),
     PkRsaPssSign |-> A(wolfTPM2_PK_RsaPssSign("blob"), {}, {"blob"}),
     PkEccSign |-> A(wolfTPM2_PK_EccSign("key"), {}, {"key"}),

     Infineon |-> Rules(A(wolfTPM2_FirmwareUpgrade("IFX", "normal"), {}, {}), {"platform"}),
     Finalize |-> A(wolfTPM2_FirmwareUpgrade("IFX", "final"), {}, {}),
     Recover |-> A(wolfTPM2_FirmwareUpgradeRecover("IFX"), {}, {}),
     ST33 |-> A(wolfTPM2_FirmwareUpgrade("STM", "normal"), {}, {}),
     CancelIFX |-> A(wolfTPM2_FirmwareUpgradeCancel("IFX"), {}, {}),
     CancelSTM |-> A(wolfTPM2_FirmwareUpgradeCancel("STM"), {}, {}),
     UnloadHandles |->
        Rules(A(wolfTPM2_UnloadHandles(<<"T1", "T2", "T3">>), {}, {}), {"closed"}),
     Clear |-> Rules(A(wolfTPM2_Clear, {}, {}), {"blank"}),
     PlatformAuth |-> Rules(A(wolfTPM2_ChangePlatformAuth("sess"), {}, {"sess"}),
                            {"blank", "platform"}),
     Service |-> A(wolfTPM2_SelfTest \o Call(wolfTPM2_GetHandles) \o Call(wolfTPM2_GetRandom)
                   \o Call(wolfTPM2_Reset), {}, {})]

\* Programs, by what they use; the state spaces of the families add up.
Calls ==
    [keys |-> {"CreateSRK", "UnloadSRK", "CreateKey", "LoadKey", "CreateAndLoadKey", "ChangeAuthKey",
               "NVStoreKey", "NVDeleteKey", "ReadPublicKey", "SignHash", "SignBlob", "UnloadKey", "UnloadBlob"},
     imports |-> {"CreateSRK", "KeyAuth", "LoadPrivateKey", "RsaWolfToTpm", "EccPrivToTpm", "ImportPem",
                  "ImportDer", "RsaKeyBlob", "EccKeyBlob", "LoadKey", "RsaDecrypt", "SignBlob",
                  "UnloadKey", "UnloadBlob", "UnloadSRK"},
     public |-> {"CreateSRK", "CreateEK", "CreateAndLoadAIK", "CreateLoadedKey", "CreateKeySeal",
                 "LoadPublicKey", "RsaPubPem", "EccWolfToTpm", "RsaEncrypt", "VerifyHash", "VerifyPub",
                 "VerifyScheme", "CSR_ECC", "CSR_RSA", "UnloadKey", "UnloadPub", "UnloadBlob", "UnloadEK"},
     agree |-> {"CreateSRK", "ECDHGenKey", "ECDHGen", "ECDHGenZ", "ECDHEGenKey", "ECDHEGenZ", "StartSession",
                "StartSalted", "EkPolicy", "PolicyRestart", "Policies", "UnloadSession", "UnloadECDH"},
     index |-> {"NVCreateAuth", "NVOpen", "NVWriteAuth", "NVExtend", "NVReadAuth", "NVIncrement",
                "NVWriteLock", "NVDeleteAuth", "NVCreate", "NVWrite", "NVRead", "NVReadCert", "NVDelete",
                "StartSession", "NVWritePolicy", "NVReadPolicy", "UnloadSession", "ExtendPCR",
                "PCRGetDigest", "ResetPCR"},
     data |-> {"CreateSRK", "HashStart", "HashUpdate", "HashFinish", "HmacStart", "HmacUpdate", "HmacFinish",
               "HmacKeep", "LoadSymmetricKey", "EncryptDecrypt", "UnloadSym", "UnloadHandles"},
     system |-> {"Infineon", "Finalize", "Recover", "ST33", "CancelIFX", "CancelSTM", "Clear",
                 "StartSession", "PlatformAuth", "Service", "UnloadSession"},
     tls |-> {"CreateSRK", "CbRandom", "CbRsaKeyGen", "CbRsaPublic", "CbRsaPrivate", "CbEcdsaKeyGen",
              "CbEccKeyGen", "CbEcdhKeyGen", "CbEcdsaSign", "CbEcdsaVerify", "CbEcdh", "PkRsaSign",
              "PkRsaPssSign", "PkEccSign", "UnloadKey", "UnloadBlob"},
     offload |-> {"CreateSRK", "CbCipher", "CbHashUpdate", "CbHashFinal", "CbHashOnce", "CbHashCached",
                  "CbHmacUpdate", "CbHmacFinal", "CbEcdsaVerify"}]
=============================================================================

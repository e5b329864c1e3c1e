------------------------------ MODULE WrapKeys ------------------------------
(***************************************************************************)
(* The functions of tpm2_wrap.c that create, load, import, change, store   *)
(* and use keys, each as the sequence of its steps.  The parameters are    *)
(* the structures the caller passes; auth is the value it gives.  "l" is   *)
(* the WOLFTPM2_KEYBLOB or _PKEY a function keeps on its stack.            *)
(***************************************************************************)
EXTENDS WrapperSteps, CommandMarshal

Object == {"hndl", "auth", "name"}

wolfTPM2_UnloadHandle(r) == Step("unload", r, "")
wolfTPM2_SetKeyAuthPassword(key, auth) == Put(key, [auth |-> auth])

-----------------------------------------------------------------------------
(* Creating and loading.                                                   *)

wolfTPM2_CreatePrimaryKey_ex(pkey, hierarchy, name, auth) ==
    SetPassword(1) \o Zero(pkey)
    \o Cmd(TPM2_CreatePrimary, <<hierarchy>>, New(name, auth)) \o Take(pkey, Object)

wolfTPM2_CreatePrimaryKey(key, hierarchy, name, auth) ==
    Call(wolfTPM2_CreatePrimaryKey_ex("l", hierarchy, name, auth))
    \o Copy(key, "l", Object)

wolfTPM2_CreateEK(ekKey) ==
    Check \o Call(wolfTPM2_CreatePrimaryKey(ekKey, "ENDORSEMENT", "EK", ""))
wolfTPM2_CreateSRK(srkKey, auth) ==
    Check \o Call(wolfTPM2_CreatePrimaryKey(srkKey, "OWNER", "SRK", auth))

wolfTPM2_CreateKey(keyBlob, parent, id, auth) ==
    Zero(keyBlob) \o SetHandle(1, parent) \o Check
    \o Cmd(TPM2_Create, <<parent>>, Blob(id, auth)) \o Take(keyBlob, {"auth", "blob"})

wolfTPM2_LoadKey(keyBlob, parent) ==
    SetHandle(1, parent)
    \o Cmd(TPM2_Load, <<parent>>, Load(keyBlob)) \o Take(keyBlob, {"hndl", "name"})

\* The local blob is copied to the key whether or not it could be loaded.
wolfTPM2_CreateAndLoadKey(key, parent, id, auth) ==
    Call(wolfTPM2_CreateKey("l", parent, id, auth)) \o Call(wolfTPM2_LoadKey("l", parent))
    \o Always(Copy(key, "l", Object)) \o Always(Zero("l"))

wolfTPM2_CreateAndLoadAIK(aikKey, srkKey, auth) ==
    Check \o Call(wolfTPM2_CreateAndLoadKey(aikKey, srkKey, "AIK", auth))

wolfTPM2_CreateLoadedKey(keyBlob, parent, id, auth) ==
    Zero(keyBlob) \o SetHandle(1, parent) \o Check
    \o Cmd(TPM2_CreateLoaded, <<parent>>, New(id, auth))
    \o Take(keyBlob, Object \cup {"blob"})

wolfTPM2_CreateKeySeal_ex(keyBlob, parent, auth) ==
    Zero(keyBlob) \o SetHandle(1, parent)
    \o Cmd(TPM2_Create, <<parent>>, Blob("SEAL", auth)) \o Take(keyBlob, {"auth", "blob"})
wolfTPM2_CreateKeySeal(keyBlob, parent, auth) == wolfTPM2_CreateKeySeal_ex(keyBlob, parent, auth)

ChangeAuthKeyForgetful(key, parent, auth) ==     \* a slip: the new value is not kept
    SetHandle(1, key) \o Cmd(TPM2_ObjectChangeAuth, <<key, parent>>, Reblob(auth))
    \o Ignored(wolfTPM2_UnloadHandle(key)) \o SetHandle(1, parent)
    \o Cmd(TPM2_Load, <<parent>>, LoadOut) \o Take(key, {"hndl", "name"})
wolfTPM2_ChangeAuthKey(key, parent, auth) ==
    SetHandle(1, key) \o Check
    \o Cmd(TPM2_ObjectChangeAuth, <<key, parent>>, Reblob(auth))
    \o Ignored(wolfTPM2_UnloadHandle(key)) \o SetHandle(1, parent)
    \o Cmd(TPM2_Load, <<parent>>, LoadOut) \o Take(key, Object)

-----------------------------------------------------------------------------
(* Keys from outside.                                                      *)

wolfTPM2_LoadPublicKey_ex(key, name) ==
    Cmd(TPM2_LoadExternal, <<>>, New(name, "")) \o Take(key, {"hndl", "name"})
wolfTPM2_LoadPublicKey(key, name) == wolfTPM2_LoadPublicKey_ex(key, name)
wolfTPM2_LoadRsaPublicKey_ex(key) == Check \o wolfTPM2_LoadPublicKey(key, "RSAPUB")
wolfTPM2_LoadRsaPublicKey(key) == wolfTPM2_LoadRsaPublicKey_ex(key)
wolfTPM2_LoadEccPublicKey(key) == Check \o wolfTPM2_LoadPublicKey(key, "ECCPUB")

\* ComputeName, EncryptSecret and SensitiveToPrivate come before TPM2_Import.
wolfTPM2_ImportPrivateKey(parentKey, keyBlob, id) ==
    SetHandle(1, parentKey) \o Check \o Check \o Check
    \o Cmd(TPM2_Import, <<parentKey>>, BlobOf(id, keyBlob)) \o Take(keyBlob, {"blob"})

\* The sensitive area the caller gives holds the value of key->handle.auth.
wolfTPM2_LoadPrivateKey(parentKey, key, id) ==
    Copy("l", key, Object)
    \o Call(wolfTPM2_ImportPrivateKey(parentKey, "l", id))
    \o Call(wolfTPM2_LoadKey("l", parentKey))
    \o Always(Copy(key, "l", {"hndl", "name"})) \o Always(Zero("l"))

wolfTPM2_ImportRsaPrivateKeySeed(parentKey, keyBlob) ==
    Check \o Check \o Call(wolfTPM2_ImportPrivateKey(parentKey, keyBlob, "RSA"))
wolfTPM2_ImportRsaPrivateKey(parentKey, keyBlob) ==
    wolfTPM2_ImportRsaPrivateKeySeed(parentKey, keyBlob)
wolfTPM2_LoadRsaPrivateKey_ex(parentKey, key) ==
    Copy("l", key, Object)
    \o Call(wolfTPM2_ImportRsaPrivateKey(parentKey, "l"))
    \o Call(wolfTPM2_LoadKey("l", parentKey))
    \o Always(Copy(key, "l", Object)) \o Always(Zero("l"))
wolfTPM2_LoadRsaPrivateKey(parentKey, key) == wolfTPM2_LoadRsaPrivateKey_ex(parentKey, key)

wolfTPM2_ImportEccPrivateKeySeed(parentKey, keyBlob) ==
    Check \o Check \o Call(wolfTPM2_ImportPrivateKey(parentKey, keyBlob, "ECC"))
wolfTPM2_ImportEccPrivateKey(parentKey, keyBlob) ==
    wolfTPM2_ImportEccPrivateKeySeed(parentKey, keyBlob)
wolfTPM2_LoadEccPrivateKey(parentKey, key) ==
    Copy("l", key, Object)
    \o Call(wolfTPM2_ImportEccPrivateKey(parentKey, "l"))
    \o Call(wolfTPM2_LoadKey("l", parentKey))
    \o Always(Copy(key, "l", Object)) \o Always(Zero("l"))

\* Decoding the DER (or PEM) writes only keyBlob->pub.
wolfTPM2_ImportPrivateKeyBuffer(parentKey, keyBlob) ==
    Check \o Check \o Check \o Call(wolfTPM2_ImportPrivateKey(parentKey, keyBlob, "DER"))
wolfTPM2_RsaPrivateKeyImportPem(parentKey, keyBlob) ==
    wolfTPM2_ImportPrivateKeyBuffer(parentKey, keyBlob)
wolfTPM2_RsaPrivateKeyImportDer(parentKey, keyBlob) ==
    Check \o Check \o Check \o Call(wolfTPM2_ImportRsaPrivateKey(parentKey, keyBlob))
wolfTPM2_CreateRsaKeyBlob(parentKey, tpmKey) ==
    Check \o Call(wolfTPM2_ImportRsaPrivateKey(parentKey, tpmKey))
wolfTPM2_CreateEccKeyBlob(parentKey, tpmKey) ==
    Zero(tpmKey) \o Check \o Check \o Call(wolfTPM2_ImportEccPrivateKey(parentKey, tpmKey))

\* private: the wolfCrypt key is a private one and a parent is given.
wolfTPM2_RsaKey_WolfToTpm_ex(private, parentKey, tpmKey) ==
    Check \o Call(IF private THEN wolfTPM2_LoadRsaPrivateKey(parentKey, tpmKey)
                             ELSE wolfTPM2_LoadRsaPublicKey(tpmKey))
wolfTPM2_RsaKey_WolfToTpm(tpmKey) == wolfTPM2_RsaKey_WolfToTpm_ex(FALSE, "", tpmKey)
wolfTPM2_RsaKey_PubPemToTpm(tpmKey) ==
    Check \o Check \o Check \o Call(wolfTPM2_RsaKey_WolfToTpm(tpmKey))
wolfTPM2_EccKey_WolfToTpm_ex(private, parentKey, tpmKey) ==
    Zero(tpmKey) \o Check \o Check
    \o Call(IF private THEN wolfTPM2_LoadEccPrivateKey(parentKey, tpmKey)
                       ELSE wolfTPM2_LoadEccPublicKey(tpmKey))
wolfTPM2_EccKey_WolfToTpm(tpmKey) == wolfTPM2_EccKey_WolfToTpm_ex(FALSE, "", tpmKey)

wolfTPM2_ReadPublicKey(key, handle) ==
    Cmd(TPM2_ReadPublic, <<handle>>, Public) \o Put(key, [hndl |-> handle]) \o Take(key, {"name"})

-----------------------------------------------------------------------------
(* Keys in persistent storage.                                             *)

wolfTPM2_NVStoreKey(key, persistent) ==
    IfNot("stored", key,
        SetPassword(1) \o Cmd(TPM2_EvictControl, <<"OWNER", key>>, Evict(persistent))
        \o Ignored(wolfTPM2_UnloadHandle(key)) \o Put(key, [hndl |-> persistent]))

\* Slot 1 is what the caller left there.
wolfTPM2_NVDeleteKey(key, persistent) ==
    Block("stored!", key,
        Cmd(TPM2_EvictControl, <<"OWNER", key>>, Evict(persistent))
        \o Put(key, [hndl |-> "NULL"]))

-----------------------------------------------------------------------------
(* Using keys.                                                             *)

wolfTPM2_SignHashScheme(key) ==
    Check \o SetHandle(1, key) \o Check \o Cmd(TPM2_Sign, <<key>>, Nothing) \o Check
wolfTPM2_SignHash(key) == Check \o wolfTPM2_SignHashScheme(key)

wolfTPM2_VerifyHashTicket(key) ==
    Check \o SetHandle(1, key) \o Check \o Cmd(TPM2_VerifySignature, <<key>>, Nothing)
wolfTPM2_VerifyHashScheme(key) == wolfTPM2_VerifyHashTicket(key)
wolfTPM2_VerifyHash_ex(key) == wolfTPM2_VerifyHashTicket(key)
wolfTPM2_VerifyHash(key) == wolfTPM2_VerifyHashTicket(key)

wolfTPM2_RsaEncrypt(key) ==
    SetHandle(1, key) \o Cmd(TPM2_RSA_Encrypt, <<key>>, Nothing) \o Check
wolfTPM2_RsaDecrypt(key) ==
    SetHandle(1, key) \o Cmd(TPM2_RSA_Decrypt, <<key>>, Nothing) \o Check

wolfTPM2_ECDHGenKey(ecdhKey, auth) ==
    Check \o Call(wolfTPM2_CreatePrimaryKey(ecdhKey, "NULL", "ECDH", auth))
wolfTPM2_ECDHGen(privKey) ==
    Check \o SetHandle(1, privKey) \o Cmd(TPM2_ECDH_KeyGen, <<privKey>>, Nothing)
wolfTPM2_ECDHGenZ(privKey) ==
    Check \o SetHandle(1, privKey) \o Cmd(TPM2_ECDH_ZGen, <<privKey>>, Nothing)

\* The counter of the ephemeral key is kept as its handle.
wolfTPM2_ECDHEGenKey(ecdhKey) ==
    Cmd(TPM2_EC_Ephemeral, <<>>, Nothing) \o Put(ecdhKey, [hndl |-> "counter"])
wolfTPM2_ECDHEGenZ(parentKey, ecdhKey) ==
    Check \o SetHandle(1, parentKey) \o Put(ecdhKey, [hndl |-> "NULL"])
    \o Cmd(TPM2_ZGen_2Phase, <<parentKey>>, Nothing)

\* wolfTPM2_CSR_MakeAndSign_ex with the signing callback: wolfCrypt builds the
\* request, wolfTPM2_SignCertCb signs it in the TPM.
wolfTPM2_SignCertCb(key, keyType) ==
    (IF keyType = "ECC" THEN wolfTPM2_SignHash(key) ELSE wolfTPM2_RsaDecrypt(key)) \o Check
CSR_MakeAndSign_Cb(key, keyType) ==
    Check \o Check \o Check \o Call(wolfTPM2_SignCertCb(key, keyType)) \o Check
wolfTPM2_CSR_MakeAndSign_ex(key, keyType) == Check \o Call(CSR_MakeAndSign_Cb(key, keyType))
wolfTPM2_CSR_MakeAndSign(key, keyType) == wolfTPM2_CSR_MakeAndSign_ex(key, keyType)
=============================================================================

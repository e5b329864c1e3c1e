----------------------------- MODULE WrapCrypto -----------------------------
(***************************************************************************)
(* The callbacks of tpm2_cryptocb.c, by which wolfCrypt and the TLS layer  *)
(* use the TPM without knowing it, each as the sequence of its steps.      *)
(* "srk" is tlsCtx->storageKey; rsaKey, rsaKeyGen, ecdsaKey, eccKey and    *)
(* ecdhKey are structures the program put into the context; ctx, mac and   *)
(* mkey are what a callback keeps behind the devCtx of a wolfCrypt object. *)
(* "lp" is the key, "lh" the WOLFTPM2_HASH on the callback's stack.  A     *)
(* callback that returns exit_rc (wolfCrypt then uses software, or fails   *)
(* in FIPS mode) has failed here; a handle of 0 and one of TPM_RH_NULL are *)
(* both "nothing loaded".                                                  *)
(***************************************************************************)
EXTENDS WrapData

\* Run body on a key that only this call knows, and let go of it.
WithOwn(key, body) == Call(body \o Always(Ignored(wolfTPM2_UnloadHandle(key))))

-----------------------------------------------------------------------------
(* wolfTPM2_CryptoDevCb: random numbers and RSA.                           *)

CbRandom == Call(wolfTPM2_GetRandom)

CbRsaKeyGen(rsaKeyGen, srk) ==
    Check \o Call(wolfTPM2_CreateKey(rsaKeyGen, srk, "RSA", ""))
    \o Call(wolfTPM2_LoadKey(rsaKeyGen, srk)) \o Check

CbRsaPublic ==
    Zero("lp") \o Call(wolfTPM2_RsaKey_WolfToTpm("lp"))
    \o WithOwn("lp", Call(wolfTPM2_RsaEncrypt("lp")))

CbRsaPrivate(rsaKey) == Call(wolfTPM2_RsaDecrypt(rsaKey))

-----------------------------------------------------------------------------
(* wolfTPM2_CryptoDevCb: elliptic curves.                                  *)

\* A key that could not be made is marked as not loaded (the test of rc is
\* "rc & TPM_RC_CURVE", true of nearly every error); a key whose public part
\* cannot be exported is released, also where it was there before the call.
ExportNew(key, make) ==
    Call(IfNot("held", key, make) \o OnFail(Put(key, [hndl |-> "NULL"])))
    \o Call(Check \o OnFail(Ignored(wolfTPM2_UnloadHandle(key))))

\* The auth given to wolfTPM2_CreateKey is that of the structure it fills and
\* zeroes first: the key gets a value of zeros, whatever the program had set.
CbEcdsaKeyGen(ecdsaKey, srk) ==
    Check \o ExportNew(ecdsaKey,
        Check \o Call(wolfTPM2_CreateKey(ecdsaKey, srk, "ECC", "zeros"))
        \o Call(wolfTPM2_LoadKey(ecdsaKey, srk)))

\* wolfTPM2_CreateAndLoadKey fills a local structure: auth is the program's.
CbEccKeyGen(eccKey, srk, auth) ==
    Check \o ExportNew(eccKey,
        Check \o Call(wolfTPM2_CreateAndLoadKey(eccKey, srk, "ECC", auth)))

EcdhKeyGenKept(ecdhKey) ==      \* a slip: the key of the other curve is replaced
    Check \o Maybe(Put(ecdhKey, [hndl |-> "NULL"]))
    \o ExportNew(ecdhKey, Call(wolfTPM2_ECDHGenKey(ecdhKey, "")))
\* The curve may have changed since the key was made.
CbEcdhKeyGen(ecdhKey) ==
    Check \o Maybe(wolfTPM2_UnloadHandle(ecdhKey))
    \o ExportNew(ecdhKey, Call(wolfTPM2_ECDHGenKey(ecdhKey, "")))

CbEcdsaSign(key) == Call(wolfTPM2_SignHash(key)) \o Check

\* A signature that does not verify is a result (res = 0), not a failure;
\* nothing but the release follows either.
CbEcdsaVerify ==
    Zero("lp") \o Check \o Call(wolfTPM2_EccKey_WolfToTpm("lp"))
    \o WithOwn("lp", Call(wolfTPM2_VerifyHash("lp")))

\* The ephemeral key is used once.
CbEcdh(ecdhKey) ==
    Block("loaded", ecdhKey, Check \o Call(wolfTPM2_ECDHGenZ(ecdhKey))
                             \o Always(Ignored(wolfTPM2_UnloadHandle(ecdhKey))))

-----------------------------------------------------------------------------
(* wolfTPM2_CryptoDevCb: ciphers, hashes, HMAC.                            *)

CbCipher ==
    Zero("lp") \o Call(wolfTPM2_LoadSymmetricKey("lp"))
    \o WithOwn("lp", Call(wolfTPM2_EncryptDecrypt("lp")))

\* hash.handle is the handle the context has, and a new one is saved there.
HashBegin(ctx) == Zero("lh") \o Copy("lh", ctx, {"hndl"})
HashStarted(ctx) ==
    IfNot("held", "lh", Call(wolfTPM2_HashStart("lh", "")) \o Copy(ctx, "lh", {"hndl"}))

HashUpdateAbandoned(ctx) ==     \* a slip: the context is freed, the sequence is not
    HashBegin(ctx) \o Check
    \o Call(HashStarted(ctx) \o Call(wolfTPM2_HashUpdate("lh"))
            \o OnFail(Put(ctx, [hndl |-> "0"])))
CbHashUpdate(ctx) ==
    HashBegin(ctx) \o Check
    \o Call(HashStarted(ctx) \o Call(wolfTPM2_HashUpdate("lh"))
            \o OnFail(Put(ctx, [hndl |-> "0"])) \o OnFail(Ignored(wolfTPM2_UnloadHandle("lh"))))

\* Behind the digest the context is gone, and so is the sequence.
HashEnd(ctx, body) == WithOwn("lh", body \o Always(Put(ctx, [hndl |-> "0"])))
CbHashFinal(ctx) == HashBegin(ctx) \o HashEnd(ctx, Call(wolfTPM2_HashFinish("lh")))

\* Data and digest in one call, without a context.
CbHashOnce ==
    Zero("lh")
    \o WithOwn("lh", Call(wolfTPM2_HashStart("lh", "")) \o Call(wolfTPM2_HashUpdate("lh"))
                     \o Call(wolfTPM2_HashFinish("lh")))

\* With WC_HASH_FLAG_WILLCOPY the data waits in a buffer of the context
\* (wolfTPM2_HashUpdateCache, module HashCache) and goes to the TPM at the end.
CbHashCached(ctx) ==
    HashBegin(ctx)
    \o HashEnd(ctx, HashStarted(ctx) \o Call(wolfTPM2_HashUpdate("lh"))
                    \o Call(wolfTPM2_HashFinish("lh")))

\* The context (hash and key) is released after a failure and with the digest.
HmacRelease(mac, mkey, when) ==
    LET Then(s) == <<[s[1] EXCEPT !.when = when]>>
    IN  Then(Ignored(wolfTPM2_UnloadHandle(mac))) \o Then(Ignored(wolfTPM2_UnloadHandle(mkey)))
        \o Then(Zero(mac)) \o Then(Zero(mkey))
CbHmacUpdate(mac, mkey, srk) ==
    IfNot("held", mac, Check)
    \o Call(IfNot("held", mac, Call(wolfTPM2_HmacStart(mac, mkey, srk, "")))
            \o Call(wolfTPM2_HmacUpdate(mac)) \o HmacRelease(mac, mkey, "fail"))
CbHmacFinal(mac, mkey) ==
    Call(wolfTPM2_HmacFinish(mac, mkey, FALSE)) \o HmacRelease(mac, mkey, "always")

-----------------------------------------------------------------------------
(* The PK callbacks of the TLS layer: a key is decoded and the digest      *)
(* padded on the host, the TPM does the private operation.                 *)

RsaPadPkcsv15Type1 == Check
wolfTPM2_PK_RsaSign(rsaKey) ==
    Check \o Check \o RsaPadPkcsv15Type1 \o Call(wolfTPM2_RsaDecrypt(rsaKey))

\* The salt is from the generator of the device, the hash never from the TPM.
RsaMGF1 == Check
RsaPadPss == Check \o Check \o Check \o Check \o RsaMGF1
wolfTPM2_PK_RsaPssSign(rsaKey) ==
    Check \o Check \o RsaPadPss \o Call(wolfTPM2_RsaDecrypt(rsaKey))

wolfTPM2_PK_EccSign(eccKey) ==
    Check \o Check \o Call(wolfTPM2_SignHash(eccKey)) \o Check
=============================================================================

---------------------------- MODULE KeyTemplates ----------------------------
(***************************************************************************)
(* The public templates the wrapper hands out.  A template is the part of  *)
(* a TPMT_PUBLIC a TPM judges: algorithm, name hash, attributes, size or   *)
(* curve, scheme, the symmetric algorithm of a parent, the sizes of policy *)
(* and unique field.  A getter that returns an error yields NoTemplate.    *)
(***************************************************************************)
EXTENDS Integers, FiniteSets

CONSTANT MaxRsaBytes            \* MAX_RSA_KEY_BYTES, the size of RSA buffers
ASSUME RsaAssumption == MaxRsaBytes \in Nat \ {0}

WrapDigest == "SHA256"          \* WOLFTPM2_WRAP_DIGEST
MaxDigest  == 64                \* the largest digest, WOLFSSL_SHA512
MaxEccBytes == 66               \* MAX_ECC_KEY_BYTES

Smaller(a, b) == IF a < b THEN a ELSE b

\* Sizes in bytes, 0 for what the tables do not know.
TPM2_GetHashDigestSize(h) ==
    CASE h = "SHA1" -> 20 [] h = "SHA256" -> 32 [] h = "SHA384" -> 48
      [] h = "SHA512" -> 64 [] OTHER -> 0
TPM2_GetCurveSize(c) ==
    CASE c = "P192" -> 24 [] c = "P224" -> 28 [] c \in {"P256", "BN256", "SM2"} -> 32
      [] c = "P384" -> 48 [] c = "P521" -> 66 [] c = "BN638" -> 80 [] OTHER -> 0
\* TPM2_GetWolfCurve: the curves wolfCrypt can compute with.
WolfCurves == {"P192", "P224", "P256", "P384", "P521", "BN256"}

NoTemplate == [type |-> "none"]
Template(type, nameAlg, attrs, bits, curve, scheme, sym, unique) ==
    [type |-> type, nameAlg |-> nameAlg, attrs |-> attrs, bits |-> bits,
     curve |-> curve, scheme |-> scheme, sym |-> sym, unique |-> unique, policy |-> 0]

\* Only a restricted decryption key, a parent, has a symmetric algorithm.
IsParent(attrs) == {"decrypt", "restricted"} \subseteq attrs

ParentSymAlways(attrs, strong) == IF strong THEN 256 ELSE 128   \* a slip
ParentSym(attrs, strong) ==
    IF ~IsParent(attrs) THEN 0 ELSE IF strong THEN 256 ELSE 128

GetKeyTemplateRSA(nameAlg, attrs, bits, scheme) ==
    Template("RSA", nameAlg, attrs, bits, "none", scheme,
             ParentSym(attrs, bits > 2048), bits \div 8)
GetKeyTemplateECC(nameAlg, attrs, curve, scheme) ==
    LET size == TPM2_GetCurveSize(curve)
    IN  IF size = 0 THEN NoTemplate
        ELSE Template("ECC", nameAlg, attrs, 0, curve, scheme,
                      ParentSym(attrs, size >= 48), size)

wolfTPM2_GetKeyTemplate_RSA(attrs) ==
    GetKeyTemplateRSA(WrapDigest, attrs, MaxRsaBytes * 8, "none")
wolfTPM2_GetKeyTemplate_ECC(attrs, curve, scheme) ==
    GetKeyTemplateECC(WrapDigest, attrs, curve, scheme)
wolfTPM2_GetKeyTemplate_Symmetric(bits, uses) ==
    Template("SYMCIPHER", WrapDigest, {"origin", "userWithAuth", "noDA"} \cup uses, bits,
             "none", "none", bits, bits \div 8)
wolfTPM2_GetKeyTemplate_KeyedHash(uses) ==
    Template("KEYEDHASH", WrapDigest, {"userWithAuth", "noDA"} \cup uses, 0, "none",
             "HMAC", 0, 0)
wolfTPM2_GetKeyTemplate_KeySeal(nameAlg) ==
    Template("KEYEDHASH", nameAlg, {"fixedTPM", "fixedParent", "noDA"}, 0, "none",
             "none", 0, 0)

-----------------------------------------------------------------------------
(* Endorsement, storage and attestation keys.                              *)

Fixed == {"fixedTPM", "fixedParent", "origin"}

\* The policy a template carries is the constant of its name hash.
PolicyOf(nameAlg) == TPM2_GetHashDigestSize(nameAlg)

wolfTPM2_GetKeyTemplate_EK(alg, bits, curve, nameAlg, high) ==
    LET attrs == Fixed \cup {"adminWithPolicy", "restricted", "decrypt"}
                       \cup (IF high THEN {"userWithAuth"} ELSE {})
        t     == CASE alg = "RSA" -> GetKeyTemplateRSA(nameAlg, attrs, bits, "none")
                   [] alg = "ECC" -> GetKeyTemplateECC(nameAlg, attrs, curve, "none")
                   [] OTHER -> NoTemplate
    IN  IF t = NoTemplate THEN t
        ELSE [t EXCEPT !.policy = IF nameAlg \in {"SHA256", "SHA384", "SHA512"}
                                  THEN PolicyOf(nameAlg) ELSE 0,
                       !.unique = IF high THEN 0 ELSE @]

\* Offsets into the TCG's NV space: RSA 2048 at 2 and ECC P256 at 10 are the
\* low range, 18 and above the high range.  SM2 has an entry and no template.
wolfTPM2_GetKeyTemplate_EKIndex(offset) ==
    LET EK(alg, bits, curve, nameAlg) ==
            wolfTPM2_GetKeyTemplate_EK(alg, bits, curve, nameAlg, offset >= 18)
    IN  CASE offset \in {2, 18}  -> EK("RSA", 2048, "none", "SHA256")
          [] offset = 28         -> EK("RSA", 3072, "none", "SHA384")
          [] offset = 30         -> EK("RSA", 4096, "none", "SHA512")
          [] offset \in {10, 20} -> EK("ECC", 0, "P256", "SHA256")
          [] offset = 22         -> EK("ECC", 0, "P384", "SHA384")
          [] offset = 24         -> EK("ECC", 0, "P521", "SHA512")
          [] offset = 26         -> EK("SM2", 0, "SM2", "SHA256")
          [] OTHER               -> EK("none", 0, "none", "none")

\* The storage root keys.
wolfTPM2_GetKeyTemplate_SRK(alg) ==
    LET attrs == Fixed \cup {"userWithAuth", "restricted", "decrypt", "noDA"}
    IN  IF alg = "RSA" THEN GetKeyTemplateRSA("SHA256", attrs, 2048, "none")
        ELSE GetKeyTemplateECC("SHA256", attrs, "P256", "none")
\* The attestation identity keys.
wolfTPM2_GetKeyTemplate_AIK(alg) ==
    LET attrs == Fixed \cup {"userWithAuth", "restricted", "sign", "noDA"}
        t     == IF alg = "RSA" THEN GetKeyTemplateRSA("SHA256", attrs, 2048, "RSASSA")
                 ELSE GetKeyTemplateECC("SHA256", attrs, "P256", "ECDSA")
    IN  [t EXCEPT !.sym = 0]

GetKeyTemplateSize(t) ==
    CASE t.type = "RSA" -> t.bits \div 8
      [] t.type = "ECC" -> TPM2_GetCurveSize(t.curve)
      [] t.type = "SYMCIPHER" -> t.bits \div 8
      [] OTHER -> 0
\* The unique field is n bytes of the caller's, for ECC split into X and Y, and
\* never more than the key; n = 0 stands for as many zeros as the key has.
wolfTPM2_SetKeyTemplate_Unique(t, n) ==
    LET size == GetKeyTemplateSize(t)
        whole == IF t.type = "ECC" THEN size * 2 ELSE size
        used  == IF n = 0 THEN whole ELSE Smaller(n, whole)
    IN  IF size <= 0 THEN NoTemplate
        ELSE [t EXCEPT !.unique =
                 CASE t.type = "RSA" -> Smaller(used, MaxRsaBytes)
                   [] t.type = "ECC" -> Smaller(used \div 2, MaxEccBytes)
                   [] OTHER -> Smaller(used, MaxDigest)]

\* The device identity keys of provisioning: wolfTPM2_SetKeyTemplate_IAK and
\* _IDevID set policy and unique field, "IAK" or "IDEVID".
Provisioned(t, hash, n) ==
    IF hash \notin {"SHA256", "SHA384", "SHA512"} THEN NoTemplate
    ELSE wolfTPM2_SetKeyTemplate_Unique([t EXCEPT !.sym = 0, !.policy = PolicyOf(hash)], n)
IdentityAttrs == Fixed \cup {"userWithAuth", "adminWithPolicy", "sign"}
wolfTPM2_GetKeyTemplate_IAK(alg, bits, curve, hash) ==
    LET attrs == IdentityAttrs \cup {"restricted"}
    IN  Provisioned(IF alg = "RSA" THEN GetKeyTemplateRSA(hash, attrs, bits, "RSASSA")
                    ELSE GetKeyTemplateECC(hash, attrs, curve, "ECDSA"), hash, 3)
wolfTPM2_GetKeyTemplate_IDevID(alg, bits, curve, hash) ==
    Provisioned(IF alg = "RSA" THEN GetKeyTemplateRSA(hash, IdentityAttrs, bits, "none")
                ELSE GetKeyTemplateECC(hash, IdentityAttrs, curve, "ECDSA"), hash, 6)

\* wolfTPM2_CopyPubT, out of an answer: sizes are cut to the buffers.
CopyPubT(t) ==
    [t EXCEPT !.policy = Smaller(@, MaxDigest),
              !.unique = Smaller(@, IF t.type = "RSA" THEN MaxRsaBytes
                                    ELSE IF t.type = "ECC" THEN MaxEccBytes ELSE MaxDigest)]

-----------------------------------------------------------------------------
(* What a TPM asks of a template when it creates a key (external).         *)

Schemes(t) ==
    LET signs == "sign" \in t.attrs
    IN  CASE t.type = "RSA"       -> IF signs THEN {"RSASSA", "RSAPSS"} ELSE {"RSAES", "OAEP"}
          [] t.type = "ECC"       -> IF signs THEN {"ECDSA"} ELSE {"ECDH"}
          [] t.type = "KEYEDHASH" -> IF signs THEN {"HMAC"} ELSE {}
          [] OTHER                -> {}
TpmCreates(t) ==
    LET uses == t.attrs \cap {"sign", "decrypt"}
        restricted == "restricted" \in t.attrs
    IN  /\ TPM2_GetHashDigestSize(t.nameAlg) > 0
        /\ "fixedTPM" \in t.attrs => "fixedParent" \in t.attrs
        /\ restricted => Cardinality(uses) = 1
        /\ uses = {} => t.type = "KEYEDHASH"
        /\ t.policy \in {0, TPM2_GetHashDigestSize(t.nameAlg)}
        /\ "adminWithPolicy" \in t.attrs => t.policy > 0
        /\ t.type \in {"RSA", "ECC"} => (t.sym > 0 <=> IsParent(t.attrs))
        /\ t.scheme # "none" => Cardinality(uses) = 1 /\ t.scheme \in Schemes(t)
        /\ restricted /\ "sign" \in uses => t.scheme # "none"
        /\ IsParent(t.attrs) => t.scheme = "none"
        /\ t.type \in {"RSA", "ECC", "SYMCIPHER"} =>
              t.unique <= GetKeyTemplateSize(t)
=============================================================================

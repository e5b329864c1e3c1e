---------------------------- MODULE MCSessionKeys ----------------------------
(***************************************************************************)
(* An instance of SessionKeys: the objects and templates the examples and  *)
(* tests of the library work with.                                         *)
(***************************************************************************)
EXTENDS SessionKeys

Object(id, auth, size, policyAuth, policy) ==
    [id |-> id, auth |-> auth, size |-> size, policyAuth |-> policyAuth, policy |-> policy]

\* A key with a password; the endorsement key; an object with PolicyAuthValue;
\* one with a policy and a value the policy does not ask for; one whose value
\* is too long to stand behind a session key.
MCObjects ==
    { Object("key", "a", 16, FALSE, "none"),
      Object("ek", "", 0, TRUE, "other"),
      Object("nv", "b", 32, TRUE, "authvalue"),
      Object("seal", "a", 16, FALSE, "other"),
      Object("long", "c", 48, TRUE, "authvalue") }

\* Both kinds of session, salted, bound, both and neither, with either way of
\* encrypting parameters.
Start(kind, salted, bind, sym) == [kind |-> kind, salted |-> salted, bind |-> bind, sym |-> sym]
MCStarts ==
    {Start("enc", TRUE, NoBind, "XOR"), Start("enc", FALSE, NoBind, "CFB"),
     Start("pol", TRUE, NoBind, "CFB"), Start("pol", FALSE, NoBind, "NULL")} \cup
    {Start("enc", salted, o, "XOR") : salted \in BOOLEAN, o \in {p \in MCObjects : p.id = "key"}}

Made(t, meant) == [made |-> t, meant |-> meant, kept |-> FALSE]
Kept(t, meant) == [made |-> t, meant |-> meant, kept |-> TRUE]
Hashes3 == {"SHA256", "SHA384", "SHA512"}

EKs ==
    {Kept(wolfTPM2_GetKeyTemplate_EKIndex(i), TRUE) : i \in {24, 30}} \cup
    {Made(wolfTPM2_GetKeyTemplate_EKIndex(i), TRUE) : i \in {2, 10, 18, 20, 22, 28}} \cup
    {Made(wolfTPM2_GetKeyTemplate_EKIndex(i), FALSE) : i \in {3, 26, 256, 32513}}
Roots ==
    {Kept(wolfTPM2_GetKeyTemplate_SRK(a), TRUE) : a \in {"RSA", "ECC"}} \cup
    {Made(wolfTPM2_GetKeyTemplate_AIK("RSA"), TRUE), Made(wolfTPM2_GetKeyTemplate_AIK("ECC"), TRUE),
     Kept(GetKeyTemplateRSA("SHA1", Storage, 2048, "none"), TRUE),
     Made(GetKeyTemplateECC("SHA256", Storage, "BN638", "none"), TRUE),
     Made(GetKeyTemplateECC("SHA256", Storage, "none", "none"), FALSE)}
Identities ==
    {Made(wolfTPM2_GetKeyTemplate_IAK("ECC", 0, c, h), TRUE) : c \in {"P256", "P384"}, h \in Hashes3} \cup
    {Made(wolfTPM2_GetKeyTemplate_IDevID("RSA", 2048, "none", h), h # "SHA1")
       : h \in Hashes3 \cup {"SHA1"}} \cup
    {Made(wolfTPM2_GetKeyTemplate_IAK("RSA", 3072, "none", "SHA384"), TRUE),
     Made(wolfTPM2_GetKeyTemplate_IDevID("ECC", 0, "P384", "SHA384"), TRUE)}
Leaves ==
    {Made(wolfTPM2_GetKeyTemplate_RSA(Leaf \cup u), TRUE)
       : u \in {{"sign"}, {"decrypt"}, {"sign", "decrypt"}}} \cup
    {Made(wolfTPM2_GetKeyTemplate_ECC(Leaf \cup {"sign"}, c, "ECDSA"), TRUE) : c \in {"P256", "P521"}} \cup
    {Made(wolfTPM2_GetKeyTemplate_ECC(Leaf \cup {"decrypt"}, "P256", "ECDH"), TRUE)} \cup
    {Made(wolfTPM2_GetKeyTemplate_Symmetric(b, u), TRUE)
       : b \in {128, 256}, u \in {{"sign", "decrypt"}, {"decrypt"}}} \cup
    {Made(wolfTPM2_GetKeyTemplate_KeyedHash(u), u = {"sign"})
       : u \in SUBSET {"sign", "decrypt"}} \cup
    {Made(wolfTPM2_GetKeyTemplate_KeySeal(h), TRUE) : h \in Hashes3}
Uniques ==
    {Made(wolfTPM2_SetKeyTemplate_Unique(t, n), t.type # "KEYEDHASH")
       : t \in {wolfTPM2_GetKeyTemplate_SRK("RSA"), wolfTPM2_GetKeyTemplate_SRK("ECC"),
                wolfTPM2_GetKeyTemplate_Symmetric(128, {"decrypt"}),
                wolfTPM2_GetKeyTemplate_KeyedHash({"sign"})},
         n \in {0, 1, 17, 66, 300}}

MCTemplates == EKs \cup Roots \cup Identities \cup Leaves \cup Uniques
=============================================================================

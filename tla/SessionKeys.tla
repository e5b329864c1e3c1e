----------------------------- MODULE SessionKeys -----------------------------
(***************************************************************************)
(* The keys the library and the TPM have to agree on without showing them: *)
(* the key of a session, derived from a salt and a bind value; the key of  *)
(* an HMAC, extended by the authorisation value of an object; the key and  *)
(* mask of an encrypted parameter; the keys that protect an imported       *)
(* object.  Cryptography is symbolic: a derived value is the record of all *)
(* that went into it, byte by byte where the code copies in blocks.  The   *)
(* library's values are computed as its loops and buffers do, the TPM's as *)
(* the TPM 2.0 library specification defines them.                         *)
(*                                                                         *)
(* Nonces are CommandAuth's subject: here they only have an order.         *)
(***************************************************************************)
EXTENDS KeyTemplates, SessionSlots, SequencesExt

CONSTANTS Objects,      \* entities to authorise: [id, auth, size, policyAuth, policy]
          Templates,    \* what CreatePrimary is asked for: [made, meant, kept]
          Starts,       \* arguments of StartSession: [kind, salted, bind, sym]
          ParamSize     \* bytes of the first parameter

Kinds     == {"enc", "pol"}             \* one HMAC and one policy session
Both      == {"decrypt", "encrypt"}
AuthMax   == 64                         \* sizeof(TPM2B_AUTH.buffer)
DataMax   == 66                         \* sizeof(TPM2B_DATA.buffer)
NoBind    == [id |-> "none", auth |-> "", size |-> 0, policyAuth |-> FALSE, policy |-> "none"]

ASSUME ParamAssumption == ParamSize \in 1 .. 1024
\* The value of an entity is a TPM2B_AUTH; a name has one entity.
ASSUME ObjectAssumption ==
    /\ Objects \subseteq [id : STRING \ {"none"}, auth : STRING, size : 0 .. AuthMax,
                          policyAuth : BOOLEAN, policy : {"none", "authvalue", "other"}]
    /\ \A o, p \in Objects : o.id = p.id => o = p
ASSUME StartAssumption ==
    Starts \subseteq [kind : Kinds, salted : BOOLEAN, bind : Objects \cup {NoBind},
                     sym : {"NULL", "XOR", "CFB"}]
\* The fields of a TPMT_PUBLIC; the symmetric algorithm is AES or none.
TemplateRecords ==
    [type : {"RSA", "ECC", "SYMCIPHER", "KEYEDHASH"}, nameAlg : STRING, attrs : SUBSET STRING,
     bits : Nat, curve : STRING, scheme : STRING, sym : {0, 128, 192, 256}, unique : Nat,
     policy : Nat]
ASSUME TemplateAssumption ==
    Templates \subseteq [made : TemplateRecords \cup {NoTemplate}, meant : BOOLEAN, kept : BOOLEAN]

\* What the getters return for the arguments their documentation names, any
\* size of an RSA or symmetric key included, and what a caller's unique field
\* makes of it: the templates that are meant to be created.
Curves  == {"P192", "P224", "P256", "P384", "P521", "BN256", "BN638", "SM2"}
Hashes  == {"SHA1", "SHA256", "SHA384", "SHA512"}
Leaf    == {"origin", "userWithAuth", "noDA"}
Storage == Leaf \cup {"restricted", "decrypt"}
Gotten(t) ==
    \/ \E i \in {2, 10, 18, 20, 22, 24, 28, 30} : t = wolfTPM2_GetKeyTemplate_EKIndex(i)
    \/ \E a \in {"RSA", "ECC"} :
          \/ t = wolfTPM2_GetKeyTemplate_SRK(a)
          \/ t = wolfTPM2_GetKeyTemplate_AIK(a)
          \/ \E c \in Curves, h \in Hashes \ {"SHA1"} :
                \/ t = wolfTPM2_GetKeyTemplate_IAK(a, t.bits, c, h)
                \/ t = wolfTPM2_GetKeyTemplate_IDevID(a, t.bits, c, h)
    \/ \E h \in Hashes :
          \/ t = GetKeyTemplateRSA(h, Storage, t.bits, "none")
          \/ \E c \in Curves : t = GetKeyTemplateECC(h, Storage, c, "none")
          \/ t = wolfTPM2_GetKeyTemplate_KeySeal(h)
    \/ \E u \in {{"sign"}, {"decrypt"}, {"sign", "decrypt"}} :
          \/ t = wolfTPM2_GetKeyTemplate_RSA(Leaf \cup u)
          \/ t = wolfTPM2_GetKeyTemplate_Symmetric(t.bits, u)
    \/ \E c \in Curves :
          \/ t = wolfTPM2_GetKeyTemplate_ECC(Leaf \cup {"sign"}, c, "ECDSA")
          \/ t = wolfTPM2_GetKeyTemplate_ECC(Leaf \cup {"decrypt"}, c, "ECDH")
    \/ t = wolfTPM2_GetKeyTemplate_KeyedHash({"sign"})
WithUnique(t) ==
    \E n \in 0 .. 2 * MaxRsaBytes :
       LET got == [t EXCEPT !.unique = GetKeyTemplateSize(t)]
       IN  Gotten(got) /\ t = wolfTPM2_SetKeyTemplate_Unique(got, n)
ASSUME MeantAssumption ==
    \A r \in Templates : r.meant => r.made # NoTemplate /\ (Gotten(r.made) \/ WithUnique(r.made))

VARIABLES key,          \* the TPM key created last, for salts and imports
          sess,         \* the application's WOLFTPM2_SESSIONs
          tpm,          \* the sessions of the TPM
          slots,        \* dev->session
          last          \* what the last call came to
vars == <<key, sess, tpm, slots, last>>

-----------------------------------------------------------------------------
(* Buffers are sequences of pieces [v, n], n the number of bytes.          *)

Piece(v, n) == IF n = 0 THEN <<>> ELSE << [v |-> v, n |-> n] >>
Zeros       == Piece(<<"zeros">>, 32)
AuthOf(o)   == Piece(<<"auth", o.auth>>, o.size)
First(b)    == IF b = <<>> THEN <<>> ELSE << b[1] >>
Size(b)     == FoldSeq(LAMBDA p, s : s + p.n, 0, b)

\* HMAC fills a short key up with zeros: zeros at its end do not count.
HmacKey(b) == IF b # <<>> /\ Last(b).v = <<"zeros">> THEN Front(b) ELSE b

\* The bytes a counter-mode derivation takes from each block: as the loops copy
\* them, and as byte i of the stream belongs to block i \div h.
Blocks(h, n) ==
    LET pos(k) == (k - 1) * h
    IN  [k \in 1 .. (n + h - 1) \div h |-> IF h > n - pos(k) THEN n - pos(k) ELSE h]
Stream(h, n) ==
    [k \in 1 .. 1 + ((n - 1) \div h) |-> Cardinality({i \in 0 .. n - 1 : i \div h = k - 1})]

Derived(name, hash, in, label, u, v, bits, bytes) ==
    Piece(<<name, [hash |-> hash, in |-> in, label |-> label, u |-> u, v |-> v,
                   bits |-> bits, bytes |-> bytes]>>, FoldSeq(+, 0, bytes))
TPM2_KDFa(hash, in, label, u, v, n) ==
    Derived("kdfa", hash, HmacKey(in), label, u, v, n * 8,
            Blocks(TPM2_GetHashDigestSize(hash), n))
TPM2_KDFe(hash, z, label, u, v, n) ==
    Derived("kdfe", hash, z, label, u, v, 0, Blocks(TPM2_GetHashDigestSize(hash), n))
TpmKDFa(hash, in, label, u, v, n) ==
    Derived("kdfa", hash, HmacKey(in), label, u, v, n * 8,
            Stream(TPM2_GetHashDigestSize(hash), n))
TpmKDFe(hash, z, label, u, v, n) ==
    Derived("kdfe", hash, z, label, u, v, 0, Stream(TPM2_GetHashDigestSize(hash), n))

-----------------------------------------------------------------------------
(* Secrets shared with a TPM key.  z is the number of leading zero bytes   *)
(* of the shared point's x, which wolfCrypt exports without them.          *)

Fail == [ok |-> FALSE, data |-> <<>>, secret |-> <<>>]

SharedUnpadded(size, z) == [pad |-> 0, rest |-> size - z]       \* a slip
SharedX(size, z) == LET n == size - z IN [pad |-> size - n, rest |-> n]

wolfTPM2_EncryptSecret_ECC(k, z, label) ==
    LET data == TPM2_KDFe(k.nameAlg, SharedX(TPM2_GetCurveSize(k.curve), z), label,
                          "ephemeral", "key", TPM2_GetHashDigestSize(k.nameAlg))
    IN  IF k.curve \notin WolfCurves THEN Fail
        ELSE [ok |-> TRUE, data |-> data, secret |-> <<"point", z>>]
\* RSA: n bytes of random, or a digest of the key's name hash when n = 0; the
\* key has to fit the buffer of wolfTPM2_RsaKey_TpmToWolf.
wolfTPM2_EncryptSecret_RSA(k, n, label) ==
    LET data == Piece(<<"random", label>>,
                      IF n = 0 THEN TPM2_GetHashDigestSize(k.nameAlg) ELSE n)
    IN  IF k.nameAlg \notin {"SHA1", "SHA256", "SHA384"} \/ k.bits > MaxRsaBytes * 8
        THEN Fail
        ELSE [ok |-> TRUE, data |-> data, secret |-> <<"oaep", k.nameAlg, label, data>>]
wolfTPM2_EncryptSecret(k, n, z, label) ==
    CASE k.type = "none" -> [ok |-> TRUE, data |-> <<>>, secret |-> <<>>]
      [] k.type = "ECC"  -> wolfTPM2_EncryptSecret_ECC(k, z, label)
      [] k.type = "RSA"  -> wolfTPM2_EncryptSecret_RSA(k, n, label)
      [] OTHER -> Fail

\* The TPM's side (external): only a decryption key takes a secret, an RSA
\* secret may not be longer than the key's name hash.
TpmSecret(k, secret, label) ==
    CASE k.type = "none" -> [ok |-> TRUE, data |-> <<>>]
      [] k.type = "ECC"  ->
            [ok |-> "decrypt" \in k.attrs,
             data |-> TpmKDFe(k.nameAlg,
                              [pad |-> secret[2], rest |-> TPM2_GetCurveSize(k.curve) - secret[2]],
                              label, "ephemeral", "key", TPM2_GetHashDigestSize(k.nameAlg))]
      [] k.type = "RSA"  ->
            [ok |-> /\ "decrypt" \in k.attrs
                    /\ secret[2] = k.nameAlg /\ secret[3] = label
                    /\ Size(secret[4]) <= TPM2_GetHashDigestSize(k.nameAlg),
             data |-> secret[4]]

-----------------------------------------------------------------------------
(* Sessions and slots.                                                     *)

NoSess == [open |-> FALSE, auth |-> <<>>, sym |-> "NULL", bind |-> NoBind,
           policyAuth |-> FALSE, policyPass |-> FALSE]
NoTpm  == [open |-> FALSE, key |-> <<>>, asserts |-> {}, plain |-> FALSE]

\* A slot: user is the object whose handle was put on it, stale that the
\* application has since changed the session or got an error.
KeySlot(kind, auth, name) ==
    [kind |-> kind, auth |-> auth, name |-> name, attrs |-> {}, hash |-> "none",
     sym |-> "NULL", bind |-> NoBind, policyAuth |-> FALSE, policyPass |-> FALSE,
     user |-> "none", stale |-> FALSE]
EmptySlot == KeySlot("none", <<>>, "")

Init ==
    /\ key = NoTemplate
    /\ sess = [s \in Kinds |-> NoSess]
    /\ tpm = [s \in Kinds |-> NoTpm]
    /\ slots = <<EmptySlot, EmptySlot>>
    /\ last = [op |-> "none", meant |-> FALSE, ok |-> TRUE]

Returns(op, meant, ok) == last' = [op |-> op, meant |-> meant, ok |-> ok]
Quiet == Returns("none", FALSE, TRUE)
Outdated(f, s) == [i \in 1 .. 2 |-> IF f[i].kind = s THEN [f[i] EXCEPT !.stale = TRUE] ELSE f[i]]

\* wolfTPM2_CreatePrimaryKey: slot 1 gets the empty password, the TPM judges the
\* template and fills in the unique field; the application may keep the key to
\* salt sessions with or to import under.  Bound: keys are created before
\* sessions, which do not depend on them once they are started.
CreatePrimary(t) ==
    LET made == t.made # NoTemplate /\ TpmCreates(t.made)
    IN  /\ \A s \in Kinds : ~sess[s].open /\ ~tpm[s].open
        /\ key' = IF t.kept /\ made
                  THEN CopyPubT([t.made EXCEPT !.unique = GetKeyTemplateSize(t.made)]) ELSE key
        /\ slots' = [slots EXCEPT ![1] = KeySlot("pw", <<>>, "")]
        /\ Returns("create", t.meant, made)
        /\ UNCHANGED <<sess, tpm>>

\* The session key is derived from bindAuthValue || salt.
KeyIn(bind, salt) == bind \o salt

AthNonces(s) == <<<<"tpm", s>>, <<"caller", s>>>>

\* wolfTPM2_StartSession.  The session is cleared and slot 1 overwritten
\* whatever follows: with the handle of the salting key, which is no session,
\* or with an empty password.  Bound: one session of each kind is started.
StartSession(s, salted, bind, sym, z) ==
    LET k      == IF salted THEN key ELSE NoTemplate
        salt   == wolfTPM2_EncryptSecret(k, 32, z, "SECRET")
        theirs == TpmSecret(k, salt.secret, "SECRET")
        in     == KeyIn(AuthOf(bind), salt.data)
        nonces == AthNonces(s)
        ours   == IF in = <<>> THEN <<>>
                  ELSE TPM2_KDFa(WrapDigest, in, "ATH", nonces[1], nonces[2], 32)
        before == [slots EXCEPT ![1] = KeySlot(IF salted THEN "obj" ELSE "pw", <<>>, "")]
    IN  /\ ~tpm[s].open
        /\ salted => key # NoTemplate
        /\ slots' = Outdated(before, s)
        /\ IF salt.ok /\ theirs.ok
           THEN /\ tpm' = [tpm EXCEPT ![s] =
                     [NoTpm EXCEPT !.open = TRUE,
                        !.key = IF ~salted /\ bind = NoBind THEN <<>>
                                ELSE TpmKDFa(WrapDigest, AuthOf(bind) \o theirs.data, "ATH",
                                             <<"tpm", s>>, <<"caller", s>>, 32)]]
                /\ sess' = [sess EXCEPT ![s] =
                     IF Size(in) > DataMax THEN NoSess
                     ELSE [NoSess EXCEPT !.open = TRUE, !.auth = ours, !.sym = sym,
                                         !.bind = bind]]
                /\ Quiet
           ELSE /\ sess' = [sess EXCEPT ![s] = NoSess]
                /\ Quiet
                /\ UNCHANGED tpm
        /\ UNCHANGED key

\* The authorisation value goes behind the room of one digest, whether or not
\* a session key is there.
BehindAuth(auth, o) == auth \o AuthOf(o)            \* a slip
BehindKey(auth, o) ==
    (CASE auth = <<>> -> Zeros [] auth # <<>> /\ auth[1].n = 32 -> First(auth)
       [] OTHER -> Piece(<<"mixed">>, 32)) \o AuthOf(o)      \* after PolicyPassword
FitsBehind(o) == 32 + o.size <= AuthMax

\* Bound: policies of one assertion.
Undecided == sess["pol"].open /\ tpm["pol"].asserts = {}

wolfTPM2_PolicyAuthValue(o) ==
    /\ Undecided
    /\ IF FitsBehind(o)
       THEN /\ sess' = [sess EXCEPT !["pol"].auth = BehindKey(@, o), !["pol"].policyAuth = TRUE]
            /\ tpm' = [tpm EXCEPT !["pol"].asserts = @ \cup {"authvalue"}, !["pol"].plain = FALSE]
            /\ slots' = Outdated(slots, "pol")
            /\ Quiet
       ELSE /\ Quiet
            /\ UNCHANGED <<sess, tpm, slots>>
    /\ UNCHANGED key
wolfTPM2_PolicyPassword(o) ==
    /\ Undecided
    /\ sess' = [sess EXCEPT !["pol"].auth = AuthOf(o), !["pol"].policyPass = TRUE]
    /\ tpm' = [tpm EXCEPT !["pol"].asserts = @ \cup {"authvalue"}, !["pol"].plain = TRUE]
    /\ slots' = Outdated(slots, "pol")
    /\ Quiet
    /\ UNCHANGED key
\* Any other assertion, such as PolicyPCR or PolicySecret.
PolicyOther ==
    /\ Undecided
    /\ tpm' = [tpm EXCEPT !["pol"].asserts = @ \cup {"other"}]
    /\ Quiet
    /\ UNCHANGED <<key, sess, slots>>

wolfTPM2_SetAuthSession(i, s, attrs) ==
    /\ sess[s].open
    /\ slots' = [slots EXCEPT ![i] =
          [KeySlot(s, sess[s].auth, "") EXCEPT
              !.attrs = attrs, !.hash = WrapDigest, !.sym = sess[s].sym, !.bind = sess[s].bind,
              !.policyAuth = sess[s].policyAuth, !.policyPass = sess[s].policyPass]]
    /\ Quiet
    /\ UNCHANGED <<key, sess, tpm>>

\* The handle's name goes with it; an error leaves what was done before it.
HandleSlot(slot, o) ==
    IF ~o.policyAuth THEN [KeySlot("pw", AuthOf(o), o.id) EXCEPT !.user = o.id]
    ELSE IF slot.hash = "none" \/ ~FitsBehind(o)
         THEN [slot EXCEPT !.policyAuth = TRUE, !.stale = TRUE]
         ELSE [slot EXCEPT !.policyAuth = TRUE, !.auth = BehindKey(@, o),
                           !.name = o.id, !.user = o.id]
wolfTPM2_SetAuthHandle(i, o) ==
    /\ slots' = [slots EXCEPT ![i] = HandleSlot(@, o)]
    /\ Quiet
    /\ UNCHANGED <<key, sess, tpm>>

\* A handle with an empty value leaves the value of the handle before it in the
\* slot, be it a password or behind a session key: no use of it is meant.
NameSlot(slot, o) ==
    LET kept == [slot EXCEPT !.name = o.id, !.user = o.id]
    IN  IF o.size = 0
        THEN [kept EXCEPT !.stale = slot.stale \/ slot.user \notin {"none", o.id}]
        ELSE IF slot.kind = "pw" THEN [kept EXCEPT !.auth = AuthOf(o)]
        ELSE IF ~o.policyAuth THEN kept
        ELSE IF slot.hash = "none" \/ ~FitsBehind(o) THEN [slot EXCEPT !.stale = TRUE]
        ELSE [kept EXCEPT !.auth = BehindKey(@, o), !.policyAuth = TRUE]
wolfTPM2_SetAuthHandleName(i, o) ==
    /\ slots[i].kind \in {"pw", "pol"}
    /\ slots' = [slots EXCEPT ![i] = NameSlot(@, o)]
    /\ Quiet
    /\ UNCHANGED <<key, sess, tpm>>

wolfTPM2_UnsetAuth(i) ==
    /\ slots' = [slots EXCEPT ![i] = EmptySlot]
    /\ Quiet
    /\ UNCHANGED <<key, sess, tpm>>

-----------------------------------------------------------------------------
(* A command that authorises object o, with an encryptable first parameter *)
(* in the request, the answer, both or neither.                            *)

SentAttrs(slot, f) ==
    slot.attrs \ ((IF "ENC2" \in f THEN {} ELSE {"decrypt"})
                  \cup (IF "DEC2" \in f THEN {} ELSE {"encrypt"}))

\* The key of a parameter, from session key and bind value, for the nonces in
\* the order newer, older; <<>> when the library gives up.
Caller(slot)  == <<"caller", slot.kind>>
Tpm(slot)     == <<"tpm", slot.kind>>
CryptIn(slot) == slot.auth \o AuthOf(slot.bind)
Crypt(slot, label, newer, older, n) ==
    IF Size(CryptIn(slot)) > DataMax THEN <<>>
    ELSE TPM2_KDFa(slot.hash, CryptIn(slot), label, newer, older, n)
TPM2_ParamEnc_XOR(slot)    == Crypt(slot, "XOR", Caller(slot), Tpm(slot), ParamSize)
TPM2_ParamDec_XOR(slot)    == Crypt(slot, "XOR", Tpm(slot), Caller(slot), ParamSize)
TPM2_ParamEnc_AESCFB(slot) == Crypt(slot, "CFB", Caller(slot), Tpm(slot), 16 + 16)
TPM2_ParamDec_AESCFB(slot) == Crypt(slot, "CFB", Tpm(slot), Caller(slot), 16 + 16)
TPM2_ParamEnc_CmdRequest(slot) ==
    CASE slot.sym = "XOR" -> TPM2_ParamEnc_XOR(slot)
      [] slot.sym = "CFB" -> TPM2_ParamEnc_AESCFB(slot) [] OTHER -> <<>>
DecAsSent(slot) == TPM2_ParamEnc_CmdRequest(slot)       \* a slip: the request's nonces
TPM2_ParamDec_CmdResponse(slot) ==
    CASE slot.sym = "XOR" -> TPM2_ParamDec_XOR(slot)
      [] slot.sym = "CFB" -> TPM2_ParamDec_AESCFB(slot) [] OTHER -> <<>>
TpmCrypt(slot, in, newer, older) ==
    CASE slot.sym = "XOR" -> TpmKDFa(WrapDigest, in, "XOR", newer, older, ParamSize)
      [] slot.sym = "CFB" -> TpmKDFa(WrapDigest, in, "CFB", newer, older, 16 + 16)
      [] OTHER -> <<>>

\* The authorisation area is laid out by TPM2_Packet_AppendAuth before the
\* HMACs are computed: a size it did not foresee fails the command.
Foreseen(slot) ==
    IF slot.kind = "pw" \/ (~slot.policyAuth /\ Size(slot.auth) > 0) THEN Size(slot.auth)
    ELSE TPM2_GetHashDigestSize(slot.hash)
Written(slot) ==
    IF slot.kind = "pw" THEN Size(slot.auth) ELSE TPM2_GetHashDigestSize(slot.hash)
Areas(Of(_), sent) == FoldFunctionOnSet(+, 0, [i \in 1 .. 2 |-> Of(slots[i])], sent)

\* TPM2_CalcHmac over TPM2_CalcCpHash: the names of the handles, the parameters
\* as they are now, nonces and attributes.
CalcHmac(slot, name, covered, attrs) ==
    [key |-> HmacKey(slot.auth), name |-> name, covered |-> covered,
     nonces |-> <<Caller(slot), Tpm(slot)>>, attrs |-> attrs]

\* The TPM's side (external): only the session that authorises an object takes
\* its value, into the HMAC if the policy says so, into parameters always.
TpmHmac(i, slot, o, covered, attrs) ==
    LET in == tpm[slot.kind].key \o
              (IF i = 1 /\ "authvalue" \in tpm[slot.kind].asserts THEN AuthOf(o) ELSE <<>>)
    IN  [key |-> HmacKey(in), name |-> o.id, covered |-> covered,
         nonces |-> <<Caller(slot), Tpm(slot)>>, attrs |-> attrs]
TpmIn(i, slot, o) == tpm[slot.kind].key \o (IF i = 1 THEN AuthOf(o) ELSE <<>>)
Allows(o) == ~tpm["pol"].plain /\ o.policy \in {"authvalue", "other"}
                               /\ tpm["pol"].asserts = {o.policy}

\* What the interface is meant for: the handle of o was put on slot 1 after the
\* session there, which fits the policy of o, and nothing was changed since;
\* slot 2 has a session for parameters or none.  Left out are the uses the
\* library does not get right: bound sessions, PolicyPassword, an
\* authorisation value behind the zeros of an unsalted session, a policy
\* session encrypting for an object whose value it was not given, a policy
\* HMAC followed by a session that encrypts.
Meant(o, f) ==
    LET one == slots[1]  two == slots[2]
    IN  /\ one.user = o.id /\ ~one.stale /\ ~two.stale
        /\ one.bind = NoBind /\ two.bind = NoBind
        /\ \/ one.kind = "pw"
           \/ /\ one.kind = "pol" /\ Allows(o)
              /\ o.policy = "authvalue" <=> o.policyAuth /\ o.size > 0
              /\ o.policy = "authvalue" => one.policyAuth /\ tpm["pol"].key # <<>>
              /\ ~one.policyPass /\ (one.policyAuth => o.policyAuth)
              /\ one.attrs # {} => one.sym # "NULL" /\ two.kind = "none"
              /\ one.attrs # {} /\ o.size > 0 => o.policyAuth
        /\ \/ two.kind = "none"
           \/ /\ two.kind = "enc" /\ two.sym # "NULL"
              /\ one.kind = "pol" => "ENC2" \notin f

Command(o, f) ==
    LET n      == AuthCount({"USER1"} \cup f, [i \in 1 .. 2 |-> slots[i].kind])
        sent   == 1 .. n
        timed  == {i \in sent : slots[i].kind # "pw"}
        Attrs(i) == SentAttrs(slots[i], f)
        crypts == {i \in timed : "decrypt" \in Attrs(i)}
        opens  == {i \in timed : "encrypt" \in Attrs(i)}
        \* The parameter once the slots up to i have encrypted it.
        After(i) == {<<j, TPM2_ParamEnc_CmdRequest(slots[j])>> : j \in {c \in crypts : c <= i}}
        local  == /\ \A i \in crypts : TPM2_ParamEnc_CmdRequest(slots[i]) # <<>>
                  /\ Areas(Foreseen, sent) = Areas(Written, sent)
        taken  == /\ n > 0
                  /\ Cardinality(crypts) <= 1 /\ Cardinality(opens) <= 1
                  /\ \A i \in timed : tpm[slots[i].kind].open
                  /\ slots[1].kind = "pw" => HmacKey(slots[1].auth) = AuthOf(o)
                  /\ slots[1].kind = "pol" => Allows(o)
                  /\ \A i \in timed :
                        CalcHmac(slots[i], slots[1].name, After(i), Attrs(i))
                        = TpmHmac(i, slots[i], o, After(n), Attrs(i))
                  /\ \A i \in crypts :
                        TPM2_ParamEnc_CmdRequest(slots[i])
                        = TpmCrypt(slots[i], TpmIn(i, slots[i], o), Caller(slots[i]), Tpm(slots[i]))
        \* A slot behind the one that decrypts checks its HMAC over clear text.
        heard  == \A i \in opens :
                        /\ \A j \in timed : j <= i
                        /\ TPM2_ParamDec_CmdResponse(slots[i]) # <<>>
                        /\ TPM2_ParamDec_CmdResponse(slots[i])
                           = TpmCrypt(slots[i], TpmIn(i, slots[i], o), Tpm(slots[i]), Caller(slots[i]))
    IN  /\ Returns("command", Meant(o, f), local /\ taken /\ heard)
        /\ UNCHANGED <<key, sess, tpm, slots>>

-----------------------------------------------------------------------------
(* Import of a private key under a parent.                                 *)

NameOf(nameAlg) == IF nameAlg = "none" THEN <<>> ELSE <<nameAlg, "public">>  \* wolfTPM2_ComputeName

\* SensitiveToPrivate: the outer wrap, with the parent's hash and key size.
WrapHashOwn(parent, nameAlg) == nameAlg                 \* a slip: the new object's hash
WrapHash(parent, nameAlg) == parent.nameAlg
SensitiveToPrivate(parent, nameAlg, seed) ==
    LET h     == WrapHash(parent, nameAlg)
        name  == NameOf(nameAlg)
        n     == TPM2_GetHashDigestSize(h)
        crypt == TPM2_KDFa(h, seed, "STORAGE", name, <<>>, (parent.sym + 7) \div 8)
    IN  [crypt |-> crypt, size |-> n,
         hmac |-> <<h, TPM2_KDFa(h, seed, "INTEGRITY", <<>>, <<>>, n), crypt, name>>]
\* What the TPM expects of a duplicate (external).
TpmDuplicate(parent, nameAlg, seed) ==
    LET h     == parent.nameAlg
        name  == NameOf(nameAlg)
        n     == TPM2_GetHashDigestSize(h)
        crypt == TpmKDFa(h, seed, "STORAGE", name, <<>>, parent.sym \div 8)
    IN  [crypt |-> crypt, size |-> n,
         hmac |-> <<h, TpmKDFa(h, seed, "INTEGRITY", <<>>, <<>>, n), crypt, name>>]

\* wolfTPM2_ImportPrivateKey, the created key as parent, its handle in slot 1.
ImportPrivateKey(nameAlg, z) ==
    LET seed   == wolfTPM2_EncryptSecret(key, 0, z, "DUPLICATE")
        theirs == TpmSecret(key, seed.secret, "DUPLICATE")
    IN  /\ key # NoTemplate
        /\ slots' = [slots EXCEPT ![1] = KeySlot("pw", <<>>, "key")]
        /\ Returns("import", seed.ok /\ IsParent(key.attrs),
                   /\ seed.ok /\ theirs.ok /\ IsParent(key.attrs)
                   /\ SensitiveToPrivate(key, nameAlg, seed.data)
                      = TpmDuplicate(key, nameAlg, theirs.data))
        /\ UNCHANGED <<key, sess, tpm>>

Next ==
    \/ \E t \in Templates : CreatePrimary(t)
    \/ \E a \in Starts, z \in 0 .. 1 : StartSession(a.kind, a.salted, a.bind, a.sym, z)
    \/ \E o \in {p \in Objects : p.policy = "authvalue"} :
          wolfTPM2_PolicyAuthValue(o) \/ wolfTPM2_PolicyPassword(o)
    \/ PolicyOther
    \/ \E attrs \in {{}, Both} : wolfTPM2_SetAuthSession(1, "pol", attrs)
    \/ wolfTPM2_SetAuthSession(2, "enc", Both)
    \/ \E o \in Objects : wolfTPM2_SetAuthHandle(1, o) \/ wolfTPM2_SetAuthHandleName(1, o)
    \/ \E i \in 1 .. 2 : wolfTPM2_UnsetAuth(i)
    \/ \E o \in Objects, f \in {{}, {"DEC2"}, {"ENC2", "DEC2"}} : Command(o, f)
    \/ \E nameAlg \in {"SHA1", "SHA256", "SHA384"}, z \in 0 .. 1 : ImportPrivateKey(nameAlg, z)

Spec == Init /\ [][Next]_vars

-----------------------------------------------------------------------------
(* Properties.                                                             *)

\* Keys and values fit the buffers the code copies them into, whatever order
\* the setters are called in.
TypeOK ==
    /\ key = NoTemplate \/ key.type \in {"RSA", "ECC", "SYMCIPHER", "KEYEDHASH"}
    /\ \A s \in Kinds : Size(sess[s].auth) <= AuthMax /\ Size(tpm[s].key) \in {0, 32}
    /\ \A i \in 1 .. 2 : /\ slots[i].kind \in {"none", "pw", "pol", "enc", "obj"}
                          /\ Size(slots[i].auth) <= AuthMax

\* A session both sides have opened has one key: salt and bind value went
\* through wolfTPM2_EncryptSecret and TPM2_KDFa as the TPM computes them.
\* (Not so when the session is bound to an entity with an empty value and not
\* salted, where the library has no key, and after wolfTPM2_PolicyPassword,
\* which overwrites it.)
SessionKeysAgree ==
    \A s \in Kinds :
        sess[s].open /\ tpm[s].open /\ ~sess[s].policyPass
            /\ (sess[s].bind # NoBind /\ sess[s].bind.size = 0 => HmacKey(First(sess[s].auth)) # <<>>)
        => HmacKey(First(sess[s].auth)) = tpm[s].key

\* A command used as the interface is meant is authorised by the TPM, and its
\* parameters are understood on both sides (TPM2_CommandProcess,
\* TPM2_ResponseProcess).
MeantUseWorks == last.op = "command" /\ last.meant => last.ok

\* A private key wrapped for a storage key unwraps in the TPM
\* (wolfTPM2_ImportPrivateKey, SensitiveToPrivate).
ImportUnwraps == last.op = "import" /\ last.meant => last.ok

\* Every template of the wrapper that has a use is one a TPM creates.
TemplateAccepted == last.op = "create" /\ last.meant => last.ok
=============================================================================

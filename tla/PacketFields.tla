---------------------------- MODULE PacketFields ----------------------------
(***************************************************************************)
(* The fields of TPM commands and responses: how tpm2_packet.c writes and  *)
(* reads them, beside the structures of tpm2.h that the TPM goes by.  A    *)
(* packet is a sequence of cells, each what one Append or Parse call       *)
(* handles: "u8" .. "u64"; "2B", a UINT16 size and its bytes; "sel", a     *)
(* UINT8 size and the bytes of a PCR selection; "dig", a digest whose size *)
(* follows from the algorithm before it; "bytes", the rest of the packet.  *)
(*                                                                         *)
(* What a union or a list holds is chosen by the variant v: type (of an    *)
(* object), sym, scheme, sig, attest, cap (the selectors), private (whether*)
(* LoadExternal is given a private area), count (the entries of a list).   *)
(***************************************************************************)
EXTENDS Integers, Sequences

CONSTANT ListCap    \* entries that a list of tpm2.h holds

ASSUME ListCapAssumption == ListCap \in Nat \ {0}

\* n times the cells s.
Times(n, s) == [i \in 1 .. n * Len(s) |-> s[((i - 1) % Len(s)) + 1]]
Fitting(v)  == IF v.count > ListCap THEN ListCap ELSE v.count

-----------------------------------------------------------------------------
(* The structures of tpm2.h, as the TPM marshals them.                     *)

TPMT_SYM_DEF(v) == CASE v.sym = "NULL" -> <<"u16">>
                     [] v.sym = "XOR"  -> <<"u16", "u16">>
                     [] OTHER          -> <<"u16", "u16", "u16">>
TPMT_SCHEME(v)  == IF v.scheme = "HASH" THEN <<"u16", "u16">> ELSE <<"u16">>
TPMT_TK         == <<"u16", "u32", "2B">>
TPMT_HA         == <<"u16", "dig">>
TPMS_ECC_POINT  == <<"2B", "2B">>
TPM2B_ECC_POINT == <<"u16">> \o TPMS_ECC_POINT
TPML(v, entry)  == <<"u32">> \o Times(v.count, entry)
TPML_PCR_SELECTION(v) == TPML(v, <<"u16", "sel">>)

TPMU_SIGNATURE(v) == CASE v.sig = "ECDSA"  -> <<"u16", "2B", "2B">>
                       [] v.sig = "RSASSA" -> <<"u16", "2B">>
                       [] v.sig = "HMAC"   -> TPMT_HA
                       [] OTHER            -> <<>>
TPMT_SIGNATURE(v) == <<"u16">> \o TPMU_SIGNATURE(v)

TPMU_PUBLIC_PARMS(v) ==
    CASE v.type = "KEYEDHASH" -> TPMT_SCHEME(v)
      [] v.type = "SYMCIPHER" -> TPMT_SYM_DEF(v)
      [] v.type = "RSA" -> TPMT_SYM_DEF(v) \o TPMT_SCHEME(v) \o <<"u16", "u32">>
      [] v.type = "ECC" -> TPMT_SYM_DEF(v) \o TPMT_SCHEME(v) \o <<"u16">> \o TPMT_SCHEME(v)
TPMU_PUBLIC_ID(v) == IF v.type = "ECC" THEN TPMS_ECC_POINT ELSE <<"2B">>
TPMT_PUBLIC(v) == <<"u16", "u16", "u32", "2B">> \o TPMU_PUBLIC_PARMS(v)
                  \o TPMU_PUBLIC_ID(v)
TPM2B_PUBLIC(v) == <<"u16">> \o TPMT_PUBLIC(v)

TPM2B_SENSITIVE_CREATE == <<"u16", "2B", "2B">>
TPM2B_SENSITIVE(v)  == <<"u16">> \o IF v.private THEN <<"u16", "2B", "2B", "2B">> ELSE <<>>
TPM2B_CREATION_DATA(v) == <<"u16">> \o TPML_PCR_SELECTION(v)
                          \o <<"2B", "u8", "u16", "2B", "2B", "2B">>
TPM2B_NV_PUBLIC == <<"u16", "u32", "u16", "u32", "2B", "u16">>
TPMS_CONTEXT    == <<"u64", "u32", "u32", "2B">>
TPMS_CLOCK_INFO == <<"u64", "u32", "u32", "u8">>
TPMS_TIME_INFO  == <<"u64">> \o TPMS_CLOCK_INFO
TPMS_ALGORITHM_DETAIL_ECC(v) ==
    <<"u16", "u16">> \o TPMT_SCHEME(v) \o TPMT_SCHEME(v) \o Times(7, <<"2B">>)

TPMU_CAPABILITIES(v) ==
    CASE v.cap = "ALGS"            -> TPML(v, <<"u16", "u32">>)
      [] v.cap \in {"HANDLES", "COMMANDS", "PP_COMMANDS"} -> TPML(v, <<"u32">>)
      [] v.cap = "PCRS"            -> TPML_PCR_SELECTION(v)
      [] v.cap = "TPM_PROPERTIES"  -> TPML(v, <<"u32", "u32">>)
      [] v.cap = "PCR_PROPERTIES"  -> TPML(v, <<"u32", "sel">>)
      [] v.cap = "ECC_CURVES"      -> TPML(v, <<"u16">>)
      [] v.cap = "AUTH_POLICIES"   -> TPML(v, <<"u32">> \o TPMT_HA)
      [] v.cap = "ACT"             -> TPML(v, <<"u32", "u32", "u32">>)
      [] v.cap = "VENDOR_PROPERTY" -> <<"bytes">>

TPMU_ATTEST(v) ==
    CASE v.attest \in {"CERTIFY", "CREATION"} -> <<"2B", "2B">>
      [] v.attest = "QUOTE"         -> TPML_PCR_SELECTION(v) \o <<"2B">>
      [] v.attest = "COMMAND_AUDIT" -> <<"u64", "u16", "2B", "2B">>
      [] v.attest = "SESSION_AUDIT" -> <<"u8", "2B">>
      [] v.attest = "TIME"          -> TPMS_TIME_INFO \o <<"u64">>
      [] v.attest = "NV"            -> <<"2B", "u16", "2B">>
TPMS_ATTEST(v) == <<"u32", "u16", "2B", "2B">> \o TPMS_CLOCK_INFO \o <<"u64">>
                  \o TPMU_ATTEST(v)

\* The cells of a field of type t in the X_In and X_Out structures.
WireField(t, v) ==
    CASE t = "U8" -> <<"u8">> [] t = "U16" -> <<"u16">> [] t = "U64" -> <<"u64">>
      [] t \in {"U32", "HANDLE"} -> <<"u32">>
      [] t = "2B"      -> <<"2B">>
      [] t = "BYTES"   -> <<"bytes">>
      [] t = "SYM_DEF" -> TPMT_SYM_DEF(v)
      [] t \in {"SIG_SCHEME", "RSA_DECRYPT"} -> TPMT_SCHEME(v)
      [] t = "TK"      -> TPMT_TK
      [] t = "HA"      -> TPMT_HA
      [] t = "SIGNATURE" -> TPMT_SIGNATURE(v)
      [] t = "ECC_POINT" -> TPM2B_ECC_POINT
      [] t = "PUBLIC"  -> TPM2B_PUBLIC(v)
      [] t = "PUBLIC_PARMS" -> <<"u16">> \o TPMU_PUBLIC_PARMS(v)
      [] t = "SENSITIVE_CREATE" -> TPM2B_SENSITIVE_CREATE
      [] t = "SENSITIVE" -> TPM2B_SENSITIVE(v)
      [] t = "CREATION_DATA" -> TPM2B_CREATION_DATA(v)
      [] t = "NV_PUBLIC" -> TPM2B_NV_PUBLIC
      [] t = "CONTEXT" -> TPMS_CONTEXT
      [] t = "TIME_INFO" -> TPMS_TIME_INFO
      [] t = "ALGORITHM_DETAIL_ECC" -> TPMS_ALGORITHM_DETAIL_ECC(v)
      [] t = "MODE_SET" -> <<"u8", "u8", "u8", "u8">>
      [] t = "PCR_SELECTIONS" -> TPML_PCR_SELECTION(v)
      [] t = "DIGESTS" -> TPML(v, <<"2B">>)
      [] t = "DIGEST_VALUES" -> TPML(v, TPMT_HA)
      [] t = "ALGS"    -> TPML(v, <<"u16">>)
      [] t = "CCS"     -> TPML(v, <<"u32">>)
      [] t = "GPIO_CONFIGS" -> TPML(v, <<"u32", "u32", "u32">>)
      [] t = "CAPABILITY_DATA" -> <<"u32">> \o TPMU_CAPABILITIES(v)
      [] t = "ATTEST"  -> TPMS_ATTEST(v)

\* The types that begin with a UINT16 size, which parameter encryption needs.
Sized == {"2B", "ECC_POINT", "PUBLIC", "SENSITIVE_CREATE", "SENSITIVE", "NV_PUBLIC",
          "CREATION_DATA"}

-----------------------------------------------------------------------------
(* TPM2_Packet_Append*.                                                    *)

AppendSymmetric(v) == CASE v.sym = "XOR"  -> <<"u16", "u16">>
                        [] v.sym = "AES"  -> <<"u16", "u16", "u16">>
                        [] v.sym = "NULL" -> <<"u16">>
                        [] OTHER          -> <<"u16", "u16", "u16">>
\* AppendEccScheme, AppendRsaScheme, AppendKeyedHashScheme, AppendKdfScheme,
\* AppendAsymScheme.
AppendScheme(v) == <<"u16">> \o IF v.scheme # "NULL" THEN <<"u16">> ELSE <<>>
AppendEccPoint == <<"2B", "2B">>
AppendPoint == <<"u16">> \o AppendEccPoint
\* The count is cut to HASH_COUNT together with the entries.
AppendPCR(v) == <<"u32">> \o Times(Fitting(v), <<"u16", "sel">>)
AppendSensitiveCreate == <<"u16", "2B", "2B">>
AppendPublicParms(v) ==
    CASE v.type = "KEYEDHASH" -> AppendScheme(v)
      [] v.type = "SYMCIPHER" -> AppendSymmetric(v)
      [] v.type = "RSA" -> AppendSymmetric(v) \o AppendScheme(v) \o <<"u16", "u32">>
      [] v.type = "ECC" -> AppendSymmetric(v) \o AppendScheme(v) \o <<"u16">> \o AppendScheme(v)
AppendPublicArea(v) ==
    <<"u16", "u16", "u32", "2B">> \o AppendPublicParms(v)
    \o (CASE v.type \in {"KEYEDHASH", "SYMCIPHER", "RSA"} -> <<"2B">>
          [] v.type = "ECC" -> AppendEccPoint)
AppendPublic(v) == <<"u16">> \o AppendPublicArea(v)
AppendSignature(v) ==
    <<"u16">> \o (CASE v.sig = "ECDSA"  -> <<"u16", "2B", "2B">>
                    [] v.sig = "RSASSA" -> <<"u16", "2B">>
                    [] v.sig = "HMAC"   -> <<"u16", "dig">>
                    [] OTHER            -> <<>>)

\* A call, or the calls, that a command makes for a field.
AppendField(t, v) ==
    CASE t = "U8" -> <<"u8">> [] t = "U16" -> <<"u16">> [] t = "U32" -> <<"u32">>
      [] t = "U64" -> <<"u64">> [] t = "2B" -> <<"2B">> [] t = "BYTES" -> <<"bytes">>
      [] t = "SYM" -> AppendSymmetric(v)
      [] t = "SCHEME" -> AppendScheme(v)
      [] t = "RSA_DECRYPT" -> <<"u16">> \o IF v.scheme = "HASH" THEN <<"u16">> ELSE <<>>
      [] t = "POINT" -> AppendPoint
      [] t = "PCR" -> AppendPCR(v)
      [] t = "PUBLIC" -> AppendPublic(v)
      [] t = "PARMS" -> AppendPublicParms(v)
      [] t = "SENSITIVE_CREATE" -> AppendSensitiveCreate
      [] t = "SENSITIVE" -> <<"u16">> \o IF v.private THEN <<"u16", "2B", "2B", "2B">>
                                         ELSE <<>>
      [] t = "SIGNATURE" -> AppendSignature(v)
      [] t = "L.2B"  -> <<"u32">> \o Times(v.count, <<"2B">>)
      [] t = "L.HA"  -> <<"u32">> \o Times(v.count, <<"u16", "dig">>)
      [] t = "L.U16" -> <<"u32">> \o Times(v.count, <<"u16">>)
      [] t = "L.U32" -> <<"u32">> \o Times(v.count, <<"u32">>)
      [] t = "L.GPIO" -> <<"u32">> \o Times(v.count, <<"u32", "u32", "u32">>)

-----------------------------------------------------------------------------
(* TPM2_Packet_Parse*.  A sized buffer is cut to the room in the structure *)
(* and the rest of its bytes is passed over; "2B-" passes over none.       *)

ParseSymmetric(v) == CASE v.sym = "XOR"  -> <<"u16", "u16">>
                       [] v.sym = "AES"  -> <<"u16", "u16", "u16">>
                       [] v.sym = "NULL" -> <<"u16">>
                       [] OTHER          -> <<"u16", "u16", "u16">>
ParseScheme(v) == <<"u16">> \o IF v.scheme # "NULL" THEN <<"u16">> ELSE <<>>
ParseEccPoint  == <<"2B", "2B">>
ParsePoint     == <<"u16">> \o ParseEccPoint
\* Entries beyond HASH_COUNT are read and dropped.
ParsePCRFitting(v) == <<"u32">> \o Times(Fitting(v), <<"u16", "sel">>)
ParsePCR(v)    == <<"u32">> \o Times(v.count, <<"u16", "sel">>)
ParsePublicParms(v) ==
    CASE v.type = "KEYEDHASH" -> ParseScheme(v)
      [] v.type = "SYMCIPHER" -> ParseSymmetric(v)
      [] v.type = "RSA" -> ParseSymmetric(v) \o ParseScheme(v) \o <<"u16", "u32">>
      [] v.type = "ECC" -> ParseSymmetric(v) \o ParseScheme(v) \o <<"u16">> \o ParseScheme(v)
ParsePublic(v) ==
    <<"u16", "u16", "u16", "u32", "2B">> \o ParsePublicParms(v)
    \o (CASE v.type \in {"KEYEDHASH", "SYMCIPHER", "RSA"} -> <<"2B">>
          [] v.type = "ECC" -> ParseEccPoint)
ParseSignature(v) ==
    <<"u16">> \o (CASE v.sig = "ECDSA"  -> <<"u16", "2B", "2B">>
                    [] v.sig = "RSASSA" -> <<"u16", "2B">>
                    [] v.sig = "HMAC"   -> <<"u16", "dig">>
                    [] OTHER            -> <<>>)
\* The switch of TPM2_GetCapability.
ParseCapability(v) ==
    <<"u32">> \o
    (CASE v.cap = "ALGS" -> <<"u32">> \o Times(Fitting(v), <<"u16", "u32">>)
       [] v.cap \in {"HANDLES", "COMMANDS", "PP_COMMANDS"} ->
              <<"u32">> \o Times(Fitting(v), <<"u32">>)
       [] v.cap = "PCRS" -> ParsePCR(v)
       [] v.cap = "TPM_PROPERTIES" -> <<"u32">> \o Times(Fitting(v), <<"u32", "u32">>)
       [] v.cap = "PCR_PROPERTIES" -> <<"u32">> \o Times(v.count, <<"u32", "sel">>)
       [] v.cap = "ECC_CURVES" -> <<"u32">> \o Times(Fitting(v), <<"u16">>)
       [] v.cap = "AUTH_POLICIES" -> <<"u32">> \o Times(Fitting(v), <<"u32", "u16", "dig">>)
       [] v.cap = "ACT" -> <<"u32">> \o Times(Fitting(v), <<"u32", "u32", "u32">>)
       [] v.cap = "VENDOR_PROPERTY" -> <<"bytes">>)
ParseAttested(v) ==
    CASE v.attest = "CERTIFY"       -> <<"2B", "2B">>
      [] v.attest = "CREATION"      -> <<"2B", "2B">>
      [] v.attest = "QUOTE"         -> ParsePCR(v) \o <<"2B">>
      [] v.attest = "COMMAND_AUDIT" -> <<"u64", "u16", "2B", "2B">>
      [] v.attest = "SESSION_AUDIT" -> <<"u8", "2B">>
      [] v.attest = "TIME"          -> <<"u64", "u64", "u32", "u32", "u8", "u64">>
      [] v.attest = "NV"            -> <<"2B", "u16", "2B">>
ParseAttest(v) ==
    <<"u32", "u16", "2B", "2B", "u64", "u32", "u32", "u8", "u64">> \o ParseAttested(v)

\* The calls that a command makes for a field of the response.
ParseField(t, v) ==
    CASE t = "U8" -> <<"u8">> [] t = "U16" -> <<"u16">> [] t = "U32" -> <<"u32">>
      [] t = "U64" -> <<"u64">> [] t = "2B" -> <<"2B">> [] t = "BYTES" -> <<"bytes">>
      [] t = "HA" -> <<"u16", "dig">>
      [] t = "SCHEME" -> ParseScheme(v)
      [] t = "POINT" -> ParsePoint
      [] t = "PCR" -> ParsePCR(v)
      [] t = "PUBLIC" -> ParsePublic(v)
      [] t = "SIGNATURE" -> ParseSignature(v)
      [] t = "CAPABILITY" -> ParseCapability(v)
      [] t = "L.2B-" -> <<"u32">> \o Times(Fitting(v), <<"2B-">>)
      [] t = "L.HA"  -> <<"u32">> \o Times(Fitting(v), <<"u16", "dig">>)
      [] t = "L.U16" -> <<"u32">> \o Times(Fitting(v), <<"u16">>)
      [] t = "ATTEST" -> ParseAttest(v)
=============================================================================

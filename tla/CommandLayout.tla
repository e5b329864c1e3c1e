--------------------------- MODULE CommandLayout ---------------------------
(***************************************************************************)
(* One TPM command from the TPM2_ function that marshals it to the fields  *)
(* it hands back: the packet the function builds, the places where         *)
(* TPM2_CommandProcess and TPM2_ResponseProcess look into it by counting   *)
(* handles, what the TPM reads in it by the command's interface, and what  *)
(* the function reads in the response.  Host and TPM never tell each other *)
(* where a field begins: they have to agree cell by cell.                  *)
(***************************************************************************)
EXTENDS PacketFields, CommandTable, SessionSlots, SequencesExt

CONSTANTS
    Sent,       \* the commands that are sent
    Slots       \* the contents of ctx->session: for each slot "none", "pw",
                \* "pol" (a policy session), "enc" (an HMAC session with both
                \* attributes of parameter encryption)

VARIABLES
    phase,      \* where the command is
    cmd, v,     \* the command and the variant of its fields
    slots,      \* ctx->session
    tag, authCnt,
    packet,     \* the cells of ctx->cmdBuf behind the header
    host,       \* where the host found the parameters, and which it en- or
                \* decrypts there
    reads       \* the last reading of the packet: pairs of cells, expected and met

vars == <<phase, cmd, v, slots, tag, authCnt, packet, host, reads>>

Fn == Command[cmd].fn

-----------------------------------------------------------------------------
(* The variants a command can meet.                                        *)

Has(c, types) == types \cap (Range(Command[c].in) \cup Range(Command[c].out)) # {}
Given(c, types, values, default) == IF Has(c, types) THEN values ELSE {default}

\* What an attestation command attests to.
Attest == [Certify |-> "CERTIFY", CertifyCreation |-> "CREATION", Quote |-> "QUOTE",
           GetCommandAuditDigest |-> "COMMAND_AUDIT", GetTime |-> "TIME",
           GetSessionAuditDigest |-> "SESSION_AUDIT", NV_Certify |-> "NV"]

Lists == {"PCR_SELECTIONS", "CREATION_DATA", "DIGESTS", "DIGEST_VALUES", "ALGS", "CCS",
          "GPIO_CONFIGS", "CAPABILITY_DATA"}
Caps == {"ALGS", "HANDLES", "COMMANDS", "PP_COMMANDS", "PCRS", "TPM_PROPERTIES",
         "PCR_PROPERTIES", "ECC_CURVES", "AUTH_POLICIES", "ACT", "VENDOR_PROPERTY"}

\* Schemes with other details than one hash (ECDAA, an RSAES object) are left out.
Variants(c) ==
    [type    : Given(c, {"PUBLIC", "PUBLIC_PARMS"},
                     {"RSA", "ECC", "KEYEDHASH", "SYMCIPHER"}, "RSA"),
     sym     : Given(c, {"PUBLIC", "PUBLIC_PARMS", "SYM_DEF"},
                     {"AES", "XOR", "NULL", "other"}, "NULL"),
     scheme  : Given(c, {"PUBLIC", "PUBLIC_PARMS", "SIG_SCHEME", "ALGORITHM_DETAIL_ECC"},
                     {"NULL", "HASH"}, "NULL")
               \cup Given(c, {"RSA_DECRYPT"}, {"RSAES", "HASH"}, "NULL"),
     sig     : Given(c, {"SIGNATURE"}, {"ECDSA", "RSASSA", "HMAC", "NULL"}, "NULL"),
     cap     : Given(c, {"CAPABILITY_DATA"}, Caps, "ALGS"),
     private : Given(c, {"SENSITIVE"}, BOOLEAN, FALSE),
     count   : IF Has(c, Lists) \/ c \in DOMAIN Attest THEN 0 .. ListCap + 1 ELSE {0},
     attest  : {IF c \in DOMAIN Attest THEN Attest[c] ELSE "QUOTE"}]

-----------------------------------------------------------------------------
(* The host.                                                               *)

\* TPM2_Packet_AppendAuth: the size and the entries, or nothing.
AppendAuth(n) == IF n = 0 THEN <<>> ELSE <<"authSz">> \o Times(n, <<"auth">>)

\* The caller's structures hold no more entries than they have room for.
Asked(w) == [w EXCEPT !.count = Fitting(w)]

Request(fn, w, n) ==
    FlattenSeq([i \in DOMAIN fn.request |->
        IF fn.request[i] = "AUTH" THEN AppendAuth(n) ELSE AppendField(fn.request[i], w)])

Nowhere == [param |-> 0, names |-> 0, first |-> 0]

\* No function is running, and what one kept on its stack has gone.
NoCall == /\ phase = "idle" /\ cmd = "none" /\ v = "none" /\ tag = "NO_SESSIONS"
          /\ authCnt = 0 /\ packet = <<>> /\ host = Nowhere /\ reads = <<>>

Init == slots \in Slots /\ NoCall

EndCall == /\ phase' = "idle" /\ cmd' = "none" /\ v' = "none" /\ tag' = "NO_SESSIONS"
           /\ authCnt' = 0 /\ packet' = <<>> /\ host' = Nowhere /\ reads' = <<>>

\* A TPM2_ function up to TPM2_Packet_Finalize.
Marshal(c, w) ==
    /\ phase = "idle" /\ phase' = "marshalled"
    /\ cmd' = c /\ v' = w
    /\ LET fn == Command[c].fn
           n  == IF "AUTH" \in Range(fn.request) THEN AuthCount(fn.flags, slots) ELSE 0
       IN  /\ authCnt' = n
           /\ tag' = IF fn.tag # "st" THEN fn.tag
                     ELSE IF n > 0 THEN "SESSIONS" ELSE "NO_SESSIONS"
           /\ packet' = Request(fn, Asked(w), n)
    /\ reads' = <<>> /\ host' = Nowhere /\ UNCHANGED slots

\* TPM2_SendCommandAuth returns TPM_RC_AUTH_MISSING.
AuthMissing ==
    /\ phase = "marshalled" /\ tag = "SESSIONS" /\ authCnt < 1
    /\ EndCall /\ UNCHANGED slots

\* A session that travels and has both attributes of parameter encryption.
Encrypting == \E i \in 1 .. authCnt : slots[i] = "enc"

\* TPM2_CommandProcess: behind inHandleCnt handles it takes a UINT32 for the
\* size of the authorisations and steps over them; the parameters begin there.
ParamStart == IF Fn.inHandleCnt < Len(packet) /\ packet[Fn.inHandleCnt + 1] = "authSz"
              THEN Fn.inHandleCnt + authCnt + 2 ELSE 0
CommandProcess ==
    [param |-> ParamStart, names |-> Fn.inHandleCnt,
     first |-> IF "ENC2" \in Fn.flags /\ Encrypting THEN ParamStart ELSE 0]

\* TPM2_SendCommandAuth up to the transport; TPM2_SendCommand has no sessions.
SendCommandAuth ==
    /\ phase = "marshalled" /\ (tag = "SESSIONS" => authCnt >= 1)
    /\ phase' = "sent"
    /\ host' = IF tag = "SESSIONS" THEN CommandProcess ELSE Nowhere
    /\ UNCHANGED <<cmd, v, slots, tag, authCnt, packet, reads>>

-----------------------------------------------------------------------------
(* The TPM (external): it reads the command, and writes the response, by   *)
(* the interface.  One sized buffer of the response may hold more than the *)
(* host's structure has room for ("2B+").                                  *)

Handles(types) == Len(SelectSeq(types, LAMBDA t : t = "HANDLE"))
Fields(types, w) == FlattenSeq([i \in DOMAIN types |-> WireField(types[i], w)])
InHandles  == Handles(Command[cmd].in)
OutHandles == Handles(Command[cmd].out)
FirstIn  == Command[cmd].in[InHandles + 1]
FirstOut == Command[cmd].out[OutHandles + 1]

TpmReads == Times(InHandles, <<"u32">>) \o AppendAuth(authCnt)
            \o Fields(SubSeq(Command[cmd].in, InHandles + 1, Len(Command[cmd].in)), Asked(v))

TpmWrites ==
    Times(OutHandles, <<"u32">>)
    \o (IF tag = "SESSIONS" THEN <<"paramSz">> ELSE <<>>)
    \o Fields(SubSeq(Command[cmd].out, OutHandles + 1, Len(Command[cmd].out)), v)
    \o (IF tag = "SESSIONS" THEN Times(authCnt, <<"auth">>) ELSE <<>>)

\* What is expected against what is there; "end" is the end of the packet.
Against(expected, cells) ==
    [i \in 1 .. Len(expected) |->
        <<expected[i], IF i <= Len(cells) THEN cells[i] ELSE "end">>]

TpmExecutes ==
    /\ phase = "sent" /\ phase' = "answered"
    /\ reads' = Against(TpmReads \o <<"end">>, packet)
    /\ LET answer == TpmWrites
       IN  \E big \in {0} \cup {i \in DOMAIN answer : answer[i] = "2B"} :
              packet' = [i \in DOMAIN answer |-> IF i = big THEN "2B+" ELSE answer[i]]
    /\ UNCHANGED <<cmd, v, slots, tag, authCnt, host>>

-----------------------------------------------------------------------------
(* TPM2_ResponseProcess, and the rest of the function.                     *)

RespStart == IF Fn.outHandleCnt < Len(packet) /\ packet[Fn.outHandleCnt + 1] = "paramSz"
             THEN Fn.outHandleCnt + 2 ELSE 0
ResponseProcess ==
    [param |-> RespStart, names |-> 0,
     first |-> IF "DEC2" \in Fn.flags /\ Encrypting THEN RespStart ELSE 0]

ParseSize(t) == IF t = "PARAMSZ" \/ tag = "SESSIONS" THEN <<"paramSz">> ELSE <<>>
HostReads ==
    FlattenSeq([i \in DOMAIN Fn.response |->
        IF Fn.response[i] \in {"PARAMSZ", "PARAMSZ?"} THEN ParseSize(Fn.response[i])
        ELSE ParseField(Fn.response[i], v)])

Return ==
    /\ phase = "answered" /\ phase' = "returned"
    /\ host' = IF tag = "SESSIONS" THEN ResponseProcess ELSE Nowhere
    /\ reads' = Against(HostReads, packet)
    /\ UNCHANGED <<cmd, v, slots, tag, authCnt, packet>>

\* TPM2_ParseAttest on what an attestation command returned.
ParseAttestation ==
    /\ phase = "returned" /\ cmd \in DOMAIN Attest /\ phase' = "attest"
    /\ packet' = WireField("ATTEST", v)
    /\ reads' = Against(ParseField("ATTEST", v), packet')
    /\ UNCHANGED <<cmd, v, slots, tag, authCnt, host>>

\* The caller goes on, with other sessions in the slots.
Finish == phase \in {"returned", "attest"} /\ EndCall /\ slots' \in Slots

Next == \/ \E c \in Sent : \E w \in Variants(c) : Marshal(c, w)
        \/ AuthMissing \/ SendCommandAuth \/ TpmExecutes \/ Return
        \/ ParseAttestation \/ Finish

Spec == Init /\ [][Next]_vars

-----------------------------------------------------------------------------
(* Properties.                                                             *)

Agree(pair) == \/ pair[1] = pair[2]
               \/ pair[1] \in {"2B", "2B-"} /\ pair[2] \in {"2B", "2B+"}
\* The reading never leaves step: every cell is the expected one, and behind an
\* oversized buffer that is not passed over nothing more is read.
InStep(r) == \A i \in DOMAIN r :
    Agree(r[i]) /\ (r[i] = <<"2B-", "2B+">> => i = Len(r))

\* Also: no more authorisations are announced than slots are filled.
TypeOK ==
    /\ phase \in {"idle", "marshalled", "sent", "answered", "returned", "attest"}
    /\ phase # "idle" => cmd \in Sent /\ v \in Variants(cmd)
    /\ slots \in Slots
    /\ tag \in {"SESSIONS", "NO_SESSIONS"} 
    /\ authCnt \in 0 .. Cardinality({i \in DOMAIN slots : slots[i] # "none"})

\* The TPM reads in the command that a TPM2_ function marshals exactly the
\* fields of its X_In structure, none missing, in another order or of another
\* width, and none left over, whatever sessions are in the slots.
RequestInStep == phase = "answered" => InStep(reads)

\* A TPM2_ function reads the response field by field as the TPM wrote it, the
\* ones behind an oversized buffer or an overlong list included, and leaves
\* out only list entries that do not fit.
ResponseInStep ==
    phase \in {"returned", "attest"} =>
        /\ InStep(reads)
        /\ phase = "returned" /\ v.count <= ListCap /\ Len(HostReads) > 0 =>
              Len(reads) + (IF tag = "SESSIONS" THEN authCnt ELSE 0) = Len(packet)

\* cpHash and rpHash cover what the TPM's cover: as many names as the command
\* has handles, and the parameters from the first one on.
HashesAgree ==
    /\ phase = "sent" /\ tag = "SESSIONS" =>
          host.names = InHandles /\ host.param = InHandles + authCnt + 2
    /\ phase = "returned" /\ tag = "SESSIONS" => host.param = OutHandles + 2

\* What parameter encryption changes is the first parameter, and that is a
\* sized buffer, in both directions.
EncryptsFirstParameter ==
    host.first # 0 =>
        /\ phase = "sent" =>
              /\ host.first = InHandles + authCnt + 2
              /\ InHandles < Len(Command[cmd].in) /\ FirstIn \in Sized
        /\ phase = "returned" =>
              /\ host.first = OutHandles + 2
              /\ OutHandles < Len(Command[cmd].out) /\ FirstOut \in Sized
=============================================================================

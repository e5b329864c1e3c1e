---------------------------- MODULE SpdmSession ----------------------------
(***************************************************************************)
(* The SPDM requester of wolfTPM (src/src/spdm): a WOLFSPDM_CTX, the       *)
(* handshakes that wolfSPDM_Connect runs over it (identity key and PSK),   *)
(* the secured exchanges of an established session, and the calls that     *)
(* configure, end and free it.  The peer is the TPM's SPDM responder,      *)
(* which is not in the repository: it is modelled as far as the requester  *)
(* depends on it.                                                          *)
(*                                                                         *)
(* I/O is one synchronous callback (ctx->ioCb), so an exchange is one      *)
(* step: the request may be lost or refused, the answer may be lost, and   *)
(* one message of a clear exchange may arrive altered.  Each costs a unit  *)
(* of MaxFaults, and so does a TPM reset, which falls between two steps.   *)
(*                                                                         *)
(* Cryptography is symbolic.  A transcript hash is the transcript, a       *)
(* signature or HMAC verifies iff both sides computed it over the same     *)
(* transcript, and a key is what it was derived from.                      *)
(***************************************************************************)
EXTENDS Integers, Sequences

CONSTANTS
    Psks, NoPsk,        \* pre-shared keys, and "none set" (pskSz = 0)
    SessionIds,         \* session ids a responder may pick
    TpmVersions,        \* versions the responder offers
    MinVersion,         \* WOLFSPDM_MIN_SPDM_VERSION
    MaxVersion,         \* ctx->maxVersion, or WOLFSPDM_MAX_SPDM_VERSION
    Modes,              \* the modes compiled in
    HostKeys,           \* what the application sets: "pair", "tpmt"
    MutAuth,            \* values of MutAuthRequested the responder may send
    MaxTranscript,      \* WOLFSPDM_MAX_TRANSCRIPT, in messages
    MaxFaults,          \* bound: lost, refused or altered messages, resets
    MaxEpoch,           \* bound: key exchanges started
    MaxSeq              \* bound: records of one session

ModeNames == {"NUVOTON", "NATIONS", "NATIONS_PSK"}

ASSUME PskAssumption == NoPsk \notin Psks /\ "ecdhe" \notin Psks
ASSUME SessionIdAssumption == SessionIds \subseteq Nat \ {0}
ASSUME VersionAssumption ==
    /\ MinVersion \in Nat \ {0} /\ MaxVersion \in Nat
    /\ TpmVersions \subseteq Nat \ {0}
ASSUME ModeAssumption ==
    /\ Modes \subseteq ModeNames /\ MutAuth \subseteq BOOLEAN
    /\ HostKeys \subseteq {"pair", "tpmt"}
ASSUME BoundAssumption ==
    MaxTranscript \in Nat /\ MaxFaults \in Nat /\ MaxEpoch \in Nat /\ MaxSeq \in Nat

VARIABLES
    \* WOLFSPDM_CTX
    state, pc, initialized, ioCb, mode, hasReqKeyPair, hasReqTpmt, psk,
    spdmVersion, transcript, dataKey, sessionId, reqSeqNum, rspSeqNum, mutAuth,
    \* the responder
    tpmTranscript, tpmKey, tpmSession, tpmReqSeq, tpmRspSeq, tpmMut,
    tpmHasPub, tpmPsk,
    \* history
    epoch,      \* key exchanges started: the requester's fresh randomness
    sealed,     \* <<key, sequence number>> pairs used to encrypt a record
    ivReused,   \* a derived key encrypted two records with one number
    attempt,    \* how the last Connect started: see Connect
    faults

config   == <<initialized, ioCb, mode, hasReqKeyPair, hasReqTpmt>>
session  == <<dataKey, sessionId, reqSeqNum, rspSeqNum>>
tpmVars  == <<tpmTranscript, tpmKey, tpmSession, tpmReqSeq, tpmRspSeq, tpmMut,
              tpmHasPub, tpmPsk>>
records  == <<sealed, ivReused>>
vars == <<state, pc, config, psk, spdmVersion, transcript, session, mutAuth,
          tpmVars, epoch, records, attempt, faults>>

-----------------------------------------------------------------------------
(* Messages, transcripts and keys.                                         *)

States == {"INIT", "VERSION", "CERT", "KEY_EX", "FINISH", "CONNECTED", "ERROR"}
Steps  == {"version", "caps", "algo", "pubk", "keyex", "givepub", "finish",
           "pskex", "pskfin", "vca_version", "vca_caps", "vca_algo", "vca_clear"}

MessageNames == {"GET_VERSION", "VERSION", "GET_CAPABILITIES", "CAPABILITIES",
    "NEGOTIATE_ALGORITHMS", "ALGORITHMS", "Ct", "KEY_EXCHANGE",
    "KEY_EXCHANGE_RSP", "Signature", "ResponderVerifyData", "PSK_EXCHANGE",
    "PSK_EXCHANGE_RSP", "Cm", "FINISH", "RequesterVerifyData", "FINISH_RSP"}

\* A message is its name and the numbers in it that matter here.
Message(name, body) == <<name, body>>
Bare(name) == Message(name, {})
Messages == MessageNames \X SUBSET Nat
Transcripts == Seq(Messages)

\* What may arrive when m was sent, with a bus that may corrupt it: of a
\* VERSION answer some of the entries, of another message a garbled form.
Garbled == 0
Altered(m) == IF m[1] = "VERSION"
              THEN {Message("VERSION", b) : b \in SUBSET m[2] \ {m[2]}}
              ELSE {Message(m[1], m[2] \cup {Garbled})}
Wire(m) == {m} \cup Altered(m)

Keys == [phase : {"zero", "hs", "app"}, source : Psks \cup {NoPsk, "ecdhe"},
         nonce : Nat, th : Transcripts]
\* reqDataKey as wolfSPDM_Init and wolfSPDM_Disconnect leave it: all zero.
ZeroKey == [phase |-> "zero", source |-> NoPsk, nonce |-> 0, th |-> << >>]
\* wolfSPDM_DeriveFromHandshakeSecret: the secret (ECDHE or PSK) and TH1.
HandshakeKey(source, nonce, th1) ==
    [phase |-> "hs", source |-> source, nonce |-> nonce, th |-> th1]
\* wolfSPDM_DeriveAppDataKeys: the handshake secret and TH2.
AppKeyStale(hs, th2) == hs
AppKey(hs, th2) ==
    [phase |-> "app", source |-> hs.source, nonce |-> hs.nonce, th |-> th2]

Mutual(versions) == {v \in versions : MinVersion <= v /\ v <= MaxVersion}
Highest(versions) == CHOOSE v \in versions : \A w \in versions : w <= v

-----------------------------------------------------------------------------
(* What the bus does to an exchange.                                       *)

NoFault == UNCHANGED <<faults, attempt>>
Fault   == faults < MaxFaults /\ faults' = faults + 1 /\ attempt' = "none"

\* A clear exchange that gives the requester no usable answer: the request
\* was lost, or answered and the answer lost, or refused by the responder.
NoAnswer(accepts, refuses, handles) ==
    \/ Fault /\ UNCHANGED tpmVars
    \/ accepts /\ Fault /\ handles
    \/ refuses /\ NoFault /\ UNCHANGED tpmVars

\* Of a clear exchange at most one message arrives altered.
Arrives(request, gotRequest, answer, gotAnswer) ==
    \/ gotRequest = request /\ gotAnswer = answer /\ NoFault
    \/ gotRequest # request /\ gotAnswer = answer /\ Fault
    \/ gotRequest = request /\ gotAnswer # answer /\ Fault

\* wolfSPDM_EncryptInternal.
Seal == /\ sealed' = sealed \cup {<<dataKey, reqSeqNum>>}
        /\ ivReused' = (ivReused \/ (/\ dataKey # ZeroKey
                                     /\ <<dataKey, reqSeqNum>> \in sealed))

\* The responder accepts the requester's next record.
TpmAccepts == /\ tpmKey # ZeroKey
              /\ tpmKey = dataKey
              /\ tpmSession = sessionId
              /\ tpmReqSeq = reqSeqNum
\* wolfSPDM_DecryptInternal accepts the responder's answer to it.
DecryptOkAny == rspSeqNum <= tpmRspSeq
DecryptOk == rspSeqNum = tpmRspSeq

SecuredOk(accepts, handles) == accepts /\ DecryptOk /\ NoFault /\ handles
SecuredFails(accepts, handles) ==
    \/ Fault /\ UNCHANGED tpmVars
    \/ accepts /\ Fault /\ handles
    \/ accepts /\ ~DecryptOk /\ NoFault /\ handles
    \/ ~accepts /\ NoFault /\ UNCHANGED tpmVars

-----------------------------------------------------------------------------
(* The responder's side of each exchange.                                  *)

\* GET_VERSION restarts the connection; a live session ends.
TpmGetVersion(request) ==
    /\ tpmTranscript' = <<request, Message("VERSION", TpmVersions)>>
    /\ tpmKey' = ZeroKey /\ tpmSession' = 0
    /\ tpmReqSeq' = 0 /\ tpmRspSeq' = 0 /\ tpmHasPub' = FALSE /\ tpmMut' = FALSE
    /\ UNCHANGED tpmPsk

TpmNegotiates(request, answer) ==
    /\ tpmTranscript' = tpmTranscript \o <<request, answer>>
    /\ UNCHANGED <<tpmKey, tpmSession, tpmReqSeq, tpmRspSeq, tpmMut, tpmHasPub, tpmPsk>>

\* The responder enters the handshake phase of a new session, with the
\* sequence numbers of both directions at zero.
TpmOpens(source, nonce, th1, sid, mut) ==
    /\ tpmTranscript' = Append(th1, Bare("ResponderVerifyData"))
    /\ tpmKey' = HandshakeKey(source, nonce, th1)
    /\ tpmSession' = sid /\ tpmMut' = mut
    /\ tpmReqSeq' = 0 /\ tpmRspSeq' = 0 /\ tpmHasPub' = FALSE
    /\ UNCHANGED tpmPsk

\* An accepted record is answered by one record.
TpmAnswers == /\ tpmReqSeq' = tpmReqSeq + 1 /\ tpmRspSeq' = tpmRspSeq + 1
              /\ UNCHANGED <<tpmTranscript, tpmKey, tpmSession, tpmMut, tpmPsk>>

\* FINISH or PSK_FINISH accepted: the application phase, numbers at zero.
TpmFinishes(finish) ==
    LET th2 == tpmTranscript \o finish \o <<Bare("FINISH_RSP")>>
    IN  /\ tpmTranscript' = th2
        /\ tpmKey' = AppKey(tpmKey, th2)
        /\ tpmReqSeq' = 0 /\ tpmRspSeq' = 0
        /\ UNCHANGED <<tpmSession, tpmMut, tpmHasPub, tpmPsk>>

TpmForgets == /\ tpmTranscript' = << >> /\ tpmKey' = ZeroKey /\ tpmSession' = 0
              /\ tpmReqSeq' = 0 /\ tpmRspSeq' = 0
              /\ tpmMut' = FALSE /\ tpmHasPub' = FALSE
              /\ UNCHANGED tpmPsk

-----------------------------------------------------------------------------
(* Context management and configuration.                                   *)

Idle == pc = "idle"

Init ==
    /\ state = "INIT" /\ pc = "idle" /\ initialized = FALSE /\ ioCb = FALSE
    /\ mode = "none" /\ hasReqKeyPair = FALSE /\ hasReqTpmt = FALSE
    /\ psk = NoPsk /\ spdmVersion = 0 /\ transcript = << >>
    /\ dataKey = ZeroKey /\ sessionId = 0 /\ reqSeqNum = 0 /\ rspSeqNum = 0
    /\ mutAuth = FALSE
    /\ tpmTranscript = << >> /\ tpmKey = ZeroKey /\ tpmSession = 0
    /\ tpmReqSeq = 0 /\ tpmRspSeq = 0 /\ tpmMut = FALSE /\ tpmHasPub = FALSE
    /\ tpmPsk \in Psks \cup {NoPsk}
    /\ epoch = 0 /\ sealed = {} /\ ivReused = FALSE /\ attempt = "none"
    /\ faults = 0

\* wolfSPDM_InitStatic / wolfSPDM_New with wolfTPM2_SPDM_InitCtx, which
\* leaves ioCb NULL when no callback is given.
InitCtx(cb) ==
    /\ Idle /\ ~initialized
    /\ initialized' = TRUE /\ ioCb' = cb
    /\ UNCHANGED <<state, pc, mode, hasReqKeyPair, hasReqTpmt, psk, spdmVersion,
                   transcript, session, mutAuth, tpmVars, epoch, records,
                   attempt, faults>>

\* The part of the context that wolfSPDM_Disconnect and wolfSPDM_Free erase.
EraseKeepsNumbers ==
    /\ state' = "INIT" /\ sessionId' = 0 /\ dataKey' = ZeroKey
    /\ UNCHANGED <<reqSeqNum, rspSeqNum>>
Erase == /\ state' = "INIT" /\ sessionId' = 0 /\ dataKey' = ZeroKey
         /\ reqSeqNum' = 0 /\ rspSeqNum' = 0

\* wolfSPDM_Free: the whole structure is zeroed, without END_SESSION.
Free ==
    /\ Idle /\ initialized
    /\ Erase /\ initialized' = FALSE /\ ioCb' = FALSE /\ mode' = "none"
    /\ hasReqKeyPair' = FALSE /\ hasReqTpmt' = FALSE /\ psk' = NoPsk
    /\ spdmVersion' = 0 /\ transcript' = << >> /\ mutAuth' = FALSE
    /\ UNCHANGED <<pc, tpmVars, epoch, records, attempt, faults>>

Configured(parts) ==
    /\ Idle /\ initialized
    /\ UNCHANGED <<state, pc, initialized, spdmVersion, transcript, session,
                   mutAuth, tpmVars, epoch, records, attempt, faults>>
    /\ UNCHANGED parts

SetIO == ioCb' = TRUE /\ Configured(<<mode, hasReqKeyPair, hasReqTpmt, psk>>)

SetMode(m) == mode' = m /\ Configured(<<ioCb, hasReqKeyPair, hasReqTpmt, psk>>)

SetRequesterKeyPair ==
    "pair" \in HostKeys /\ hasReqKeyPair' = TRUE /\ Configured(<<ioCb, mode, hasReqTpmt, psk>>)

SetRequesterKeyTPMT ==
    "tpmt" \in HostKeys /\ hasReqTpmt' = TRUE /\ Configured(<<ioCb, mode, hasReqKeyPair, psk>>)

SetPSK(p) ==
    psk' = p /\ Configured(<<ioCb, mode, hasReqKeyPair, hasReqTpmt>>)

-----------------------------------------------------------------------------
(* wolfSPDM_Connect and the steps of its two flows.                        *)

\* wolfSPDM_TranscriptReset.
TranscriptResetMissing == UNCHANGED transcript
TranscriptReset == transcript' = << >>

\* The sequence numbers that wolfSPDM_DeriveAppDataKeys restarts.
RestartMissing == reqSeqNum' = reqSeqNum + 1 /\ rspSeqNum' = rspSeqNum + 1
RestartBelow == reqSeqNum' = 0 /\ rspSeqNum' = rspSeqNum - 1
Restart == reqSeqNum' = 0 /\ rspSeqNum' = 0

\* A step that fails ends the call.  wolfSPDM_Nations_PskClearWithVCA shares
\* the first three steps; a failed GET_VERSION or PSK_CLR_ of its own leaves
\* ctx->state as it is.
StepFailsRetry ==
    /\ pc' = IF pc = "vca_version" THEN pc ELSE "idle"
    /\ state' = IF pc \in {"vca_version", "vca_clear"} THEN state ELSE "ERROR"
StepFails ==
    /\ pc' = "idle"
    /\ state' = IF pc \in {"vca_version", "vca_clear"} THEN state ELSE "ERROR"

\* The step after pc, by flow.
NextStep ==
    CASE pc = "version" -> IF mode = "NATIONS" THEN "caps"
                           ELSE IF mode = "NUVOTON" THEN "pubk" ELSE "pskex"
      [] pc = "caps" -> "algo"
      [] pc = "algo" -> "pubk"
      [] pc = "pubk" -> "keyex"
      [] pc = "keyex" -> IF hasReqKeyPair /\ hasReqTpmt THEN "givepub" ELSE "finish"
      [] pc = "givepub" -> "finish"
      [] pc = "pskex" -> "pskfin"
      [] pc = "vca_version" -> "vca_caps"
      [] pc = "vca_caps" -> "vca_algo"
      [] pc = "vca_algo" -> "vca_clear"
      [] OTHER -> "idle"

\* Whether the call about to start can succeed against the responder as it
\* is: a responder without SPDM state, matching credentials.  attempt
\* remembers it together with the requester's sequence numbers.
TpmFresh == tpmTranscript = << >> /\ tpmKey = ZeroKey
Suitable == /\ TpmFresh /\ Mutual(TpmVersions) # {}
            /\ IF mode = "NATIONS_PSK" THEN psk = tpmPsk
               ELSE hasReqKeyPair /\ hasReqTpmt

\* wolfSPDM_Connect up to the first message: state and transcript are reset,
\* keys and sequence numbers are not.
Connect ==
    /\ Idle /\ initialized /\ ioCb /\ mode # "none"
    /\ mode = "NATIONS_PSK" => psk # NoPsk
    /\ epoch < MaxEpoch
    /\ state' = "INIT" /\ TranscriptReset /\ pc' = "version"
    /\ attempt' = IF ~Suitable THEN "none"
                  ELSE IF reqSeqNum = 0 /\ rspSeqNum = 0 THEN "clean" ELSE "stale"
    /\ UNCHANGED <<config, psk, spdmVersion, session, mutAuth, tpmVars, epoch,
                   records, faults>>

\* Random generator, allocation and cipher failures: nothing is sent.
StepAborts ==
    /\ pc \in Steps
    /\ Fault /\ StepFails
    /\ UNCHANGED <<config, psk, spdmVersion, transcript, session, mutAuth,
                   tpmVars, epoch, records>>

\* wolfSPDM_GetVersion: ExchangeMsg with wolfSPDM_ParseVersion.  A responder
\* with a session refuses; its ERROR answer enters the transcript before it is
\* parsed, as one without entries.
GetVersion ==
    LET request == Bare("GET_VERSION")
        answer  == Message("VERSION", TpmVersions)
        room    == MaxTranscript - Len(transcript)
        quiet   == UNCHANGED <<config, psk, session, mutAuth, epoch, records>>
    IN
    /\ pc \in {"version", "vca_version"} /\ quiet
    /\ \/ /\ room < 1 /\ StepFails /\ NoFault
          /\ UNCHANGED <<transcript, spdmVersion, tpmVars>>
       \/ /\ room >= 1 /\ StepFails
          /\ NoAnswer(TRUE, room = 1 /\ tpmKey # ZeroKey, TpmGetVersion(request))
          /\ transcript' = Append(transcript, request)
          /\ UNCHANGED spdmVersion
       \/ /\ room >= 2 /\ tpmKey # ZeroKey /\ StepFails /\ NoFault
          /\ transcript' = transcript \o <<request, Message("VERSION", {})>>
          /\ UNCHANGED <<spdmVersion, tpmVars>>
       \/ /\ room = 1 /\ StepFails /\ NoFault
          /\ TpmGetVersion(request)
          /\ transcript' = Append(transcript, request)
          /\ UNCHANGED spdmVersion
       \/ /\ room >= 2
          /\ \E q \in Wire(request), r \in Wire(answer) :
                /\ Arrives(request, q, answer, r)
                /\ TpmGetVersion(q)
                /\ transcript' = transcript \o <<request, r>>
                /\ \/ /\ Mutual(r[2]) = {}
                      /\ StepFails /\ UNCHANGED spdmVersion
                   \/ /\ Mutual(r[2]) # {}
                      /\ spdmVersion' = Highest(Mutual(r[2]))
                      /\ state' = "VERSION" /\ pc' = NextStep

\* The exchange of wolfSPDM_TCG_GetCapabilities and NegotiateAlgorithms: the
\* answer goes to the transcript unread, an ERROR answer too.
Negotiate(request, answer) ==
    LET room == MaxTranscript - Len(transcript) IN
    /\ UNCHANGED <<config, psk, spdmVersion, session, mutAuth, epoch, records>>
    /\ \/ /\ room < 1 /\ StepFails /\ NoFault
          /\ UNCHANGED <<transcript, tpmVars>>
       \/ /\ room >= 1 /\ StepFails
          /\ NoAnswer(tpmTranscript # << >>, FALSE, TpmNegotiates(request, answer))
          /\ transcript' = Append(transcript, request)
       \/ /\ room = 1 /\ StepFails /\ NoFault
          /\ IF tpmTranscript = << >> THEN UNCHANGED tpmVars
             ELSE TpmNegotiates(request, answer)
          /\ transcript' = Append(transcript, request)
       \/ /\ room >= 2 /\ pc' = NextStep /\ UNCHANGED state
          /\ \/ /\ tpmTranscript # << >>
                /\ \E q \in Wire(request), r \in Wire(answer) :
                      /\ Arrives(request, q, answer, r)
                      /\ TpmNegotiates(q, answer)
                      /\ transcript' = transcript \o <<request, r>>
             \/ /\ tpmTranscript = << >> /\ NoFault /\ UNCHANGED tpmVars
                /\ \E r \in Altered(answer) :
                      transcript' = transcript \o <<request, r>>

GetCapabilities ==
    /\ pc \in {"caps", "vca_caps"}
    /\ Negotiate(Bare("GET_CAPABILITIES"), Bare("CAPABILITIES"))

NegotiateAlgorithms ==
    /\ pc \in {"algo", "vca_algo"}
    /\ Negotiate(Bare("NEGOTIATE_ALGORITHMS"), Bare("ALGORITHMS"))

\* wolfSPDM_TCG_GetPubKey inside ConnectTCG: the vendor messages stay out of
\* the transcript; Ct, the hash of the key received, goes in.
GetPubKey ==
    /\ pc = "pubk"
    /\ UNCHANGED <<config, psk, spdmVersion, session, mutAuth, tpmVars, epoch, records>>
    /\ \/ StepFails /\ Fault /\ UNCHANGED transcript
       \/ \E ct \in Wire(Bare("Ct")) :
             /\ IF ct = Bare("Ct") THEN NoFault ELSE Fault
             /\ transcript' = Append(transcript, ct)
             /\ state' = "CERT" /\ pc' = NextStep

\* wolfSPDM_BuildKeyExchange: a fresh ephemeral key and random each time.
BuildKeyExchange == Message("KEY_EXCHANGE", {epoch + 1})
KeyExchangeRsp(sid) == Message("KEY_EXCHANGE_RSP", {sid})
\* TH1 as the responder computes it, having received q.
TpmTh1(q, answer) == tpmTranscript \o <<Bare("Ct"), q, answer, Bare("Signature")>>

KeyExchangeLost(sid, mut) ==
    LET accepts == tpmTranscript # << >> IN
    /\ StepFails
    /\ NoAnswer(accepts, ~accepts,
          TpmOpens("ecdhe", epoch + 1, TpmTh1(BuildKeyExchange, KeyExchangeRsp(sid)), sid, mut))
    /\ transcript' = Append(transcript, BuildKeyExchange)
    /\ UNCHANGED <<dataKey, sessionId, mutAuth>>

\* wolfSPDM_ParseKeyExchangeRsp of r, the answer to q: session id and
\* MutAuthRequested are stored at once, of an altered answer whatever it says;
\* then the signature and, the handshake keys derived, the HMAC are checked.
ParseKeyExchangeRsp(sid, mut, damage, q, r) ==
    LET answer  == KeyExchangeRsp(sid)
        body    == transcript \o <<BuildKeyExchange, r>>
        sigOk   == /\ damage # "sig"
                   /\ body = tpmTranscript \o <<Bare("Ct"), q, answer>>
        th1     == Append(body, Bare("Signature"))
        key     == HandshakeKey("ecdhe", epoch + 1, th1)
        hmacOk  == damage # "hmac" /\ key = tpmKey'
    IN
    /\ tpmTranscript # << >>
    /\ IF damage = "none" THEN Arrives(BuildKeyExchange, q, answer, r)
       ELSE Fault /\ q = BuildKeyExchange /\ r = answer
    /\ TpmOpens("ecdhe", epoch + 1, TpmTh1(q, answer), sid, mut)
    /\ sessionId' \in IF r = answer THEN {sid} ELSE SessionIds
    /\ mutAuth' \in IF r = answer THEN {mut} ELSE MutAuth
    /\ \/ /\ ~sigOk
          /\ StepFails /\ transcript' = body /\ UNCHANGED dataKey
       \/ /\ sigOk /\ ~hmacOk
          /\ StepFails /\ transcript' = th1 /\ dataKey' = key
       \/ /\ sigOk /\ hmacOk
          /\ transcript' = Append(th1, Bare("ResponderVerifyData"))
          /\ dataKey' = key
          /\ state' = "KEY_EX" /\ pc' = NextStep

KeyExchange ==
    /\ pc = "keyex"
    /\ epoch' = epoch + 1
    /\ UNCHANGED <<config, psk, spdmVersion, reqSeqNum, rspSeqNum, records>>
    /\ \E sid \in SessionIds, mut \in MutAuth :
          \/ KeyExchangeLost(sid, mut)
          \/ \E damage \in {"none", "sig", "hmac"},
                q \in Wire(BuildKeyExchange), r \in Wire(KeyExchangeRsp(sid)) :
                ParseKeyExchangeRsp(sid, mut, damage, q, r)

\* PSK_EXCHANGE of wolfSPDM_ConnectPsk: no signature.
BuildPskExchange == Message("PSK_EXCHANGE", {epoch + 1})
PskExchangeRsp(sid) == Message("PSK_EXCHANGE_RSP", {sid})

PskExchangeLost(sid) ==
    LET accepts == tpmTranscript # << >> /\ tpmPsk # NoPsk
        th1     == tpmTranscript \o <<BuildPskExchange, PskExchangeRsp(sid)>>
    IN
    /\ StepFails
    /\ NoAnswer(accepts, ~accepts, TpmOpens(tpmPsk, epoch + 1, th1, sid, FALSE))
    /\ transcript' = Append(transcript, BuildPskExchange)
    /\ UNCHANGED <<psk, dataKey, sessionId>>

\* wolfSPDM_ParsePskExchangeRsp: the PSK is zeroed with the derivation of the
\* handshake keys, before the HMAC is checked.
ParsePskExchangeRsp(sid, damage, q, r) ==
    LET answer  == PskExchangeRsp(sid)
        th1     == transcript \o <<BuildPskExchange, r>>
        key     == HandshakeKey(psk, epoch + 1, th1)
        hmacOk  == damage # "hmac" /\ key = tpmKey'
    IN
    /\ tpmTranscript # << >> /\ tpmPsk # NoPsk
    /\ IF damage = "none" THEN Arrives(BuildPskExchange, q, answer, r)
       ELSE Fault /\ q = BuildPskExchange /\ r = answer
    /\ TpmOpens(tpmPsk, epoch + 1, tpmTranscript \o <<q, answer>>, sid, FALSE)
    /\ sessionId' \in IF r = answer THEN {sid} ELSE SessionIds
    /\ dataKey' = key /\ psk' = NoPsk
    /\ \/ /\ ~hmacOk
          /\ StepFails /\ transcript' = th1
       \/ /\ hmacOk
          /\ transcript' = Append(th1, Bare("ResponderVerifyData"))
          /\ state' = "KEY_EX" /\ pc' = NextStep

PskExchange ==
    /\ pc = "pskex"
    /\ epoch' = epoch + 1
    /\ UNCHANGED <<config, spdmVersion, reqSeqNum, rspSeqNum, mutAuth, records>>
    /\ \E sid \in SessionIds :
          \/ PskExchangeLost(sid)
          \/ \E damage \in {"none", "hmac"},
                q \in Wire(BuildPskExchange), r \in Wire(PskExchangeRsp(sid)) :
                ParsePskExchangeRsp(sid, damage, q, r)

-----------------------------------------------------------------------------
(* Secured exchanges.                                                      *)

TpmTakesPub == TpmAnswers /\ tpmHasPub' = TRUE

\* The responder answers with an ERROR in a record of its own, which both ends
\* count before the requester looks inside.
Refused == /\ TpmAccepts /\ DecryptOk /\ Fault /\ TpmAnswers /\ UNCHANGED tpmHasPub
           /\ rspSeqNum' = rspSeqNum + 1

\* wolfSPDM_TCG_GivePubKey as a step of ConnectTCG.
GivePubStep ==
    /\ pc = "givepub"
    /\ Seal /\ reqSeqNum' = reqSeqNum + 1
    /\ UNCHANGED <<config, psk, spdmVersion, transcript, dataKey, sessionId,
                   mutAuth, epoch>>
    /\ \/ /\ SecuredOk(TpmAccepts, TpmTakesPub)
          /\ rspSeqNum' = rspSeqNum + 1
          /\ pc' = NextStep /\ UNCHANGED state
       \/ /\ SecuredFails(TpmAccepts, TpmTakesPub)
          /\ StepFails /\ UNCHANGED rspSeqNum
       \/ Refused /\ StepFails

\* The common end of wolfSPDM_Finish and of PSK_FINISH: the message is built
\* into the transcript, sealed and sent; on a good answer the application
\* keys replace the handshake keys and both sequence numbers restart.
Finishes(message, verified) ==
    LET accepts == TpmAccepts /\ verified
        built   == transcript \o message
        th2     == Append(built, Bare("FINISH_RSP"))
    IN
    /\ Seal
    /\ UNCHANGED <<config, psk, spdmVersion, sessionId, mutAuth, epoch>>
    /\ \/ /\ SecuredOk(accepts, TpmFinishes(message))
          /\ transcript' = th2 /\ dataKey' = AppKey(dataKey, th2)
          /\ Restart
          /\ state' = "CONNECTED" /\ pc' = "idle"
       \/ /\ SecuredFails(accepts, TpmFinishes(message))
          /\ transcript' = built /\ reqSeqNum' = reqSeqNum + 1
          /\ StepFails /\ UNCHANGED <<dataKey, rspSeqNum>>
       \/ /\ Refused
          /\ transcript' = built /\ reqSeqNum' = reqSeqNum + 1
          /\ StepFails /\ UNCHANGED dataKey

\* wolfSPDM_BuildFinish signs when the responder asked for it and a key pair
\* is set; Cm enters the transcript when the public key is known as well.
\* The responder that asked insists on the signature and on having the key.
Finish ==
    LET signs == mutAuth /\ hasReqKeyPair
        message == (IF signs /\ hasReqTpmt THEN <<Bare("Cm")>> ELSE << >>)
                   \o <<Bare("FINISH")>>
                   \o (IF signs THEN <<Bare("Signature")>> ELSE << >>)
                   \o <<Bare("RequesterVerifyData")>>
    IN  /\ pc = "finish"
        /\ Finishes(message, tpmMut => signs /\ tpmHasPub)

PskFinish ==
    /\ pc = "pskfin"
    /\ Finishes(<<Bare("FINISH"), Bare("RequesterVerifyData")>>, TRUE)

\* One wolfSPDM_SecuredExchange outside a handshake; no state is checked and
\* none is changed, whatever the outcome.
SecuredCall(handles) ==
    /\ Idle /\ initialized /\ ioCb /\ reqSeqNum < MaxSeq
    /\ Seal /\ reqSeqNum' = reqSeqNum + 1
    /\ UNCHANGED <<state, pc, config, psk, spdmVersion, transcript, dataKey,
                   sessionId, mutAuth, epoch>>
    /\ \/ SecuredOk(TpmAccepts, handles) /\ rspSeqNum' = rspSeqNum + 1
       \/ SecuredFails(TpmAccepts, handles) /\ UNCHANGED rspSeqNum

\* A TPM command (TPM2_SPDM_SendCommand, wolfTPM2_SPDM_SecuredExchange).
TpmCommand ==
    state = "CONNECTED" /\ SecuredCall(TpmAnswers /\ UNCHANGED tpmHasPub)

\* wolfSPDM_Nuvoton_SetOnlyMode, wolfSPDM_Nations_SetOnlyMode.
SetOnlyMode ==
    state = "CONNECTED" /\ SecuredCall(TpmAnswers /\ UNCHANGED tpmHasPub)

\* wolfSPDM_TCG_GivePubKey by itself: state >= KEY_EX, which ERROR satisfies.
GivePubKey ==
    state \in {"KEY_EX", "FINISH", "CONNECTED", "ERROR"} /\ SecuredCall(TpmTakesPub)

\* wolfSPDM_Disconnect: END_SESSION, then the reset whatever came of it.
Disconnect ==
    /\ Idle /\ state = "CONNECTED"
    /\ Seal
    /\ \/ SecuredOk(TpmAccepts, TpmForgets)
       \/ SecuredFails(TpmAccepts, TpmForgets)
    /\ Erase
    /\ UNCHANGED <<pc, config, psk, spdmVersion, transcript, mutAuth, epoch>>

-----------------------------------------------------------------------------
(* PSK provisioning (Nations).  The vendor commands travel in the clear.   *)

\* Compiled in with WOLFSPDM_NATIONS only.
NationsBuild == Modes \cap {"NATIONS", "NATIONS_PSK"} # {}

Provisioning ==
    /\ NationsBuild
    /\ UNCHANGED <<config, psk, spdmVersion, transcript, session, mutAuth, epoch,
                   records, tpmTranscript, tpmKey, tpmSession, tpmReqSeq,
                   tpmRspSeq, tpmMut, tpmHasPub>>

\* wolfSPDM_Nations_PskSet; a responder with a PSK answers Vd_PSKAlreadySet.
PskSet(p) ==
    /\ Idle /\ initialized /\ ioCb /\ tpmPsk = NoPsk
    /\ tpmPsk' = p
    /\ UNCHANGED <<state, pc>> /\ NoFault /\ Provisioning

\* wolfSPDM_Nations_PskClearWithVCA: GetVersion without TranscriptReset.
PskClearWithVCA ==
    /\ Idle /\ initialized /\ ioCb
    /\ pc' = "vca_version" /\ attempt' = "none"
    /\ UNCHANGED <<state, faults, tpmPsk>> /\ Provisioning

\* wolfSPDM_Nations_PskClear, as its last step or by itself.
PskClear ==
    /\ initialized /\ ioCb
    /\ Provisioning
    /\ \/ /\ pc \in {"idle", "vca_clear"} /\ tpmPsk # NoPsk
          /\ tpmPsk' = NoPsk /\ pc' = "idle" /\ UNCHANGED state
          /\ NoFault
       \/ /\ pc = "vca_clear"
          /\ StepFails /\ UNCHANGED tpmPsk
          /\ IF tpmPsk = NoPsk THEN NoFault ELSE Fault

\* A power cycle or GPIO reset of the TPM, between two exchanges.
TpmReset ==
    /\ Fault /\ TpmForgets
    /\ UNCHANGED <<state, pc, config, psk, spdmVersion, transcript, session,
                   mutAuth, epoch, records>>

-----------------------------------------------------------------------------
Step == \/ StepAborts \/ GetVersion \/ GetCapabilities \/ NegotiateAlgorithms
        \/ GetPubKey \/ KeyExchange \/ GivePubStep \/ Finish
        \/ PskExchange \/ PskFinish
        \/ (pc = "vca_clear" /\ PskClear)

Call == \/ \E cb \in BOOLEAN : InitCtx(cb)
        \/ Free \/ SetIO
        \/ \E m \in Modes : SetMode(m)
        \/ SetRequesterKeyPair \/ SetRequesterKeyTPMT
        \/ \E p \in Psks : SetPSK(p) \/ PskSet(p)
        \/ Connect \/ TpmCommand \/ SetOnlyMode \/ GivePubKey \/ Disconnect
        \/ PskClearWithVCA
        \/ (Idle /\ PskClear)

Next == Step \/ Call \/ TpmReset

\* A call in progress returns: every wait of the transport is bounded.
Spec == Init /\ [][Next]_vars /\ WF_vars(Step)

-----------------------------------------------------------------------------
(* Properties.                                                             *)

TypeOK ==
    /\ state \in States /\ pc \in Steps \cup {"idle"}
    /\ initialized \in BOOLEAN /\ ioCb \in BOOLEAN
    /\ mode \in Modes \cup {"none"}
    /\ hasReqKeyPair \in BOOLEAN /\ hasReqTpmt \in BOOLEAN
    /\ psk \in Psks \cup {NoPsk} /\ spdmVersion \in Nat
    /\ transcript \in Transcripts /\ dataKey \in Keys
    /\ sessionId \in SessionIds \cup {0}
    /\ reqSeqNum \in Nat /\ rspSeqNum \in Nat /\ mutAuth \in BOOLEAN
    /\ tpmTranscript \in Transcripts /\ tpmKey \in Keys
    /\ tpmSession \in SessionIds \cup {0}
    /\ tpmReqSeq \in Nat /\ tpmRspSeq \in Nat /\ tpmMut \in BOOLEAN
    /\ tpmHasPub \in BOOLEAN /\ tpmPsk \in Psks \cup {NoPsk}
    /\ epoch \in Nat /\ sealed \subseteq Keys \X Nat /\ ivReused \in BOOLEAN
    /\ attempt \in {"none", "clean", "stale"} /\ faults \in Nat

\* A derived AES-GCM key never encrypts two records with one sequence number
\* (wolfSPDM_EncryptInternal builds the IV from it): not across the phase
\* change, a failed handshake, a lost answer or a reconnect.
NonceUnique == ~ivReused

\* When Connect reports a session, the responder is in the application phase
\* of the same one: same keys, hence same transcript, same session id, both
\* directions numbered alike, and no altered VERSION answer has lowered the
\* negotiated version.
Agreement ==
    /\ dataKey.phase = "app" /\ tpmKey = dataKey
    /\ tpmSession = sessionId
    /\ tpmReqSeq = reqSeqNum /\ tpmRspSeq = rspSeqNum
    /\ spdmVersion = Highest(Mutual(TpmVersions))
ConnectAgrees == [][state # "CONNECTED" /\ state' = "CONNECTED" => Agreement']_vars

Erased == dataKey = ZeroKey /\ sessionId = 0 /\ reqSeqNum = 0 /\ rspSeqNum = 0

\* Outside calls a context in state INIT holds no session: the keys, the
\* session id and the numbers of an earlier one are gone, also when
\* END_SESSION was never answered.
ErasedWhenClosed ==
    Idle /\ state = "INIT" => Erased

\* The transcript Connect empties has room for the whole of either flow, also
\* after PskClearWithVCA calls that filled it: the additions from Ct on, which
\* are unconditional here, never meet WOLFSPDM_E_BUFFER_SMALL.
TranscriptFits == Len(transcript) <= MaxTranscript

\* From sequence numbers at zero, a Connect with matching credentials against
\* a TPM just reset, with nothing lost or altered, never ends in ERROR.
CleanConnectSucceeds == ~(Idle /\ state = "ERROR" /\ attempt = "clean")

\* Every call returns.
CallReturns == ~Idle ~> Idle

\* What makes NonceUnique inductive.  A key belongs to the exchange that made
\* it; the key in use has sealed only numbers below the next one; and while a
\* handshake is under way its key is the newest, with no record sealed yet
\* under the application key that will follow it.
KeysInOrder ==
    /\ ~ivReused
    /\ dataKey.nonce <= epoch
    /\ \A r \in sealed : r[1].nonce <= epoch
    /\ \A r \in sealed : r[1] = dataKey /\ dataKey # ZeroKey => r[2] < reqSeqNum
    /\ pc \in {"givepub", "finish", "pskfin"} =>
          /\ dataKey.phase = "hs" /\ dataKey.nonce = epoch
          /\ \A r \in sealed : r[1].phase = "app" => r[1].nonce < epoch

\* What makes ErasedWhenClosed inductive: state is INIT between calls or while
\* the first message of one is exchanged, and only wolfSPDM_Connect sets INIT
\* without erasing.
InitMeansErased ==
    state = "INIT" => /\ pc \in {"idle", "version", "vca_version"}
                      /\ pc # "version" => Erased

\* The session seen from above: see SpdmChannel.
InStep == tpmKey = dataKey /\ tpmSession = sessionId
          /\ tpmReqSeq = reqSeqNum /\ tpmRspSeq = rspSeqNum
Channel == INSTANCE SpdmChannel WITH
    status  <- IF state # "CONNECTED" THEN "closed"
               ELSE IF InStep THEN "open" ELSE "broken",
    carried <- IF state = "CONNECTED" THEN rspSeqNum ELSE 0

\* Requester, bus and responder together behave as a channel that carries
\* exchanges only while both ends agree, and that, once it lost a record,
\* carries nothing until it is closed and opened again.
ChannelSafe == Channel!Spec
=============================================================================

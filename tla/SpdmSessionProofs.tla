------------------------- MODULE SpdmSessionProofs -------------------------
(***************************************************************************)
(* Proofs about SpdmSession, for every value of its constants: the type    *)
(* invariant, that no derived key encrypts two records with one sequence   *)
(* number, that a closed context holds no session; that a Connect that     *)
(* succeeds leaves both ends agreeing, that requester, bus and responder   *)
(* together implement SpdmChannel, that either flow fits in the            *)
(* transcript, and that an undisturbed Connect succeeds.                   *)
(***************************************************************************)
EXTENDS SpdmSession, WellFoundedInduction, TLAPS

-----------------------------------------------------------------------------
(* Versions, messages and transcripts.                                     *)

\* A nonempty set of naturals has a least element.
LEMMA Smallest ==
    ASSUME NEW D \in SUBSET Nat, D # {}
    PROVE  \E d \in D : \A e \in D : d <= e
<1> DEFINE R == OpToRel(<, Nat)
<1>1. IsWellFoundedOn(R, Nat)
  BY NatLessThanWellFounded
<1>2. \A x, y \in Nat : x < y => <<x, y>> \in R
  BY DEF OpToRel
<1> HIDE DEF R
<1>3. PICK d \in D : \A e \in D : ~ (<<e, d>> \in R)
  BY <1>1, WFMin
<1>4. \A e \in D : ~ (e < d)
  BY <1>2, <1>3
<1>. QED
  BY <1>4

\* The version wolfSPDM_ParseVersion picks is one of the mutual ones.
LEMMA HighestType ==
    ASSUME NEW versions \in SUBSET Nat, Mutual(versions) # {}
    PROVE  Highest(Mutual(versions)) \in Nat
<1> DEFINE V == Mutual(versions)
           D == {MaxVersion - v : v \in V}
<1>1. V \subseteq Nat /\ V # {} /\ \A v \in V : v <= MaxVersion
  BY DEF Mutual
<1> HIDE DEF V
<1>2. D \subseteq Nat /\ D # {}
  <2>1. \A v \in V : MaxVersion - v \in Nat
    BY <1>1, VersionAssumption
  <2>2. PICK v \in V : TRUE
    BY <1>1
  <2>. QED  BY <2>1, <2>2
<1>3. PICK d \in D : \A e \in D : d <= e
  BY <1>2, Smallest
<1>4. PICK v \in V : d = MaxVersion - v
  BY <1>3
<1>5. \A w \in V : w <= v
  <2> TAKE w \in V
  <2>1. MaxVersion - v <= MaxVersion - w
    BY <1>3, <1>4
  <2>. QED  BY <1>1, <2>1, VersionAssumption
<1>6. Highest(V) \in V
  BY <1>5 DEF Highest
<1>. QED
  BY <1>1, <1>6 DEF V

\* A message as it arrives, altered or not, is a message.
LEMMA WireType ==
    ASSUME NEW m \in Messages, NEW w \in Wire(m)
    PROVE  w \in Messages
BY DEF Messages, Wire, Altered, Message, Garbled

LEMMA MessageType ==
    ASSUME NEW name \in MessageNames, NEW body \in SUBSET Nat
    PROVE  /\ Bare(name) \in Messages
           /\ Message(name, body) \in Messages
BY DEF Bare, Message, Messages

LEMMA HandshakeKeyType ==
    ASSUME NEW source \in Psks \cup {NoPsk, "ecdhe"}, NEW nonce \in Nat,
           NEW th \in Transcripts
    PROVE  HandshakeKey(source, nonce, th) \in Keys
BY DEF HandshakeKey, Keys

LEMMA AppKeyType ==
    ASSUME NEW hs \in Keys, NEW th \in Transcripts
    PROVE  AppKey(hs, th) \in Keys
BY DEF AppKey, Keys

LEMMA EmptyTranscript == << >> \in Transcripts
BY DEF Transcripts

LEMMA TranscriptType ==
    ASSUME NEW t \in Transcripts
    PROVE  /\ \A m \in Messages : Append(t, m) \in Transcripts
           /\ \A u \in Transcripts : t \o u \in Transcripts
           /\ \A m, n \in Messages : t \o <<m, n>> \in Transcripts
           /\ \A m, n, o, p \in Messages : t \o <<m, n, o, p>> \in Transcripts
BY DEF Transcripts

LEMMA ZeroKeyType == ZeroKey \in Keys
BY EmptyTranscript DEF ZeroKey, Keys

LEMMA NextStepType == pc \in Steps => NextStep \in Steps \cup {"idle"}
BY DEF NextStep, Steps

-----------------------------------------------------------------------------
(* The type invariant.                                                     *)

\* TypeOK in three parts: the requester, the responder, the history.
CtxType ==
    /\ state \in States /\ pc \in Steps \cup {"idle"}
    /\ initialized \in BOOLEAN /\ ioCb \in BOOLEAN
    /\ mode \in Modes \cup {"none"}
    /\ hasReqKeyPair \in BOOLEAN /\ hasReqTpmt \in BOOLEAN
    /\ psk \in Psks \cup {NoPsk} /\ spdmVersion \in Nat
    /\ transcript \in Transcripts /\ dataKey \in Keys
    /\ sessionId \in SessionIds \cup {0}
    /\ reqSeqNum \in Nat /\ rspSeqNum \in Nat /\ mutAuth \in BOOLEAN
TpmType ==
    /\ tpmTranscript \in Transcripts /\ tpmKey \in Keys
    /\ tpmSession \in SessionIds \cup {0}
    /\ tpmReqSeq \in Nat /\ tpmRspSeq \in Nat /\ tpmMut \in BOOLEAN
    /\ tpmHasPub \in BOOLEAN /\ tpmPsk \in Psks \cup {NoPsk}
HistoryType ==
    /\ epoch \in Nat /\ sealed \subseteq Keys \X Nat /\ ivReused \in BOOLEAN
    /\ attempt \in {"none", "clean", "stale"} /\ faults \in Nat

LEMMA TypeParts == TypeOK <=> CtxType /\ TpmType /\ HistoryType
BY DEF TypeOK, CtxType, TpmType, HistoryType

LEMMA TypeInit == Init => TypeOK
<1> SUFFICES ASSUME Init PROVE CtxType /\ TpmType /\ HistoryType
  BY TypeParts
<1>1. CtxType
  BY ZeroKeyType, EmptyTranscript DEF Init, CtxType, States
<1>2. TpmType
  BY ZeroKeyType, EmptyTranscript DEF Init, TpmType
<1>3. HistoryType
  BY DEF Init, HistoryType
<1>. QED  BY <1>1, <1>2, <1>3

\* What the responder does to its own state is well typed.
LEMMA TpmHandlersType ==
    ASSUME TpmType
    PROVE  /\ \A q \in Messages : TpmGetVersion(q) => TpmType'
           /\ \A q, a \in Messages : TpmNegotiates(q, a) => TpmType'
           /\ \A source \in Psks \cup {NoPsk, "ecdhe"}, nonce \in Nat,
                 th \in Transcripts, sid \in SessionIds, mut \in BOOLEAN :
                 TpmOpens(source, nonce, th, sid, mut) => TpmType'
           /\ TpmAnswers /\ UNCHANGED tpmHasPub => TpmType'
           /\ TpmTakesPub => TpmType'
           /\ \A f \in Transcripts : TpmFinishes(f) => TpmType'
           /\ TpmForgets => TpmType'
           /\ UNCHANGED tpmVars => TpmType'
<1> USE DEF TpmType
<1>1. ASSUME NEW q \in Messages, TpmGetVersion(q) PROVE TpmType'
  <2>1. Message("VERSION", TpmVersions) \in Messages
    BY VersionAssumption, MessageType DEF MessageNames
  <2>2. tpmTranscript' \in Transcripts
    BY <1>1, <2>1 DEF TpmGetVersion, Transcripts
  <2>. QED  BY <1>1, <2>2, ZeroKeyType DEF TpmGetVersion
<1>2. ASSUME NEW q \in Messages, NEW a \in Messages, TpmNegotiates(q, a) PROVE TpmType'
  <2>1. tpmTranscript' \in Transcripts
    BY <1>2 DEF TpmNegotiates, Transcripts
  <2>. QED  BY <1>2, <2>1 DEF TpmNegotiates
<1>3. ASSUME NEW source \in Psks \cup {NoPsk, "ecdhe"}, NEW nonce \in Nat,
             NEW th \in Transcripts, NEW sid \in SessionIds, NEW mut \in BOOLEAN,
             TpmOpens(source, nonce, th, sid, mut)
      PROVE  TpmType'
  <2>1. Bare("ResponderVerifyData") \in Messages
    BY MessageType DEF MessageNames
  <2>2. tpmTranscript' \in Transcripts
    BY <1>3, <2>1 DEF TpmOpens, Transcripts
  <2>. QED  BY <1>3, <2>2, HandshakeKeyType DEF TpmOpens
<1>4. TpmAnswers /\ UNCHANGED tpmHasPub => TpmType'
  BY DEF TpmAnswers
<1>5. TpmTakesPub => TpmType'
  BY DEF TpmAnswers, TpmTakesPub
<1>6. ASSUME NEW f \in Transcripts, TpmFinishes(f) PROVE TpmType'
  <2>1. Bare("FINISH_RSP") \in Messages
    BY MessageType DEF MessageNames
  <2>2. tpmTranscript' \in Transcripts /\ tpmKey' = AppKey(tpmKey, tpmTranscript')
    BY <1>6, <2>1 DEF TpmFinishes, Transcripts
  <2>. QED  BY <1>6, <2>2, AppKeyType DEF TpmFinishes
<1>7. ASSUME TpmForgets PROVE TpmType'
  BY <1>7, ZeroKeyType, EmptyTranscript DEF TpmForgets
<1>8. UNCHANGED tpmVars => TpmType'
  BY DEF tpmVars
<1>. QED  BY <1>1, <1>2, <1>3, <1>4, <1>5, <1>6, <1>7, <1>8

LEMMA FaultType ==
    ASSUME HistoryType, NoFault \/ Fault
    PROVE  attempt' \in {"none", "clean", "stale"} /\ faults' \in Nat
BY DEF HistoryType, NoFault, Fault

LEMMA SealType ==
    ASSUME CtxType, HistoryType, Seal
    PROVE  sealed' \subseteq Keys \X Nat /\ ivReused' \in BOOLEAN
<1>1. sealed' \subseteq Keys \X Nat
  BY DEF CtxType, HistoryType, Seal
<1>2. ivReused' \in BOOLEAN
  BY DEF Seal
<1>. QED  BY <1>1, <1>2

LEMMA StepFailsType ==
    ASSUME CtxType, StepFails
    PROVE  state' \in States /\ pc' \in Steps \cup {"idle"}
BY DEF CtxType, StepFails, States

\* The calls that configure, free or start, and a reset of the TPM.
LEMMA ConfigType ==
    ASSUME CtxType, TpmType, HistoryType,
           \/ \E cb \in BOOLEAN : InitCtx(cb)
           \/ Free \/ SetIO
           \/ \E m \in Modes : SetMode(m)
           \/ SetRequesterKeyPair \/ SetRequesterKeyTPMT
           \/ \E p \in Psks : SetPSK(p)
           \/ Connect \/ StepAborts \/ TpmReset
    PROVE  CtxType' /\ TpmType' /\ HistoryType'
<1> USE DEF config, session, records
<1>1. ASSUME NEW cb \in BOOLEAN, InitCtx(cb) PROVE CtxType' /\ TpmType' /\ HistoryType'
  BY <1>1 DEF InitCtx, CtxType, TpmType, HistoryType, tpmVars
<1>2. CASE Free
  BY <1>2, ZeroKeyType, EmptyTranscript
  DEF Free, Erase, CtxType, TpmType, HistoryType, tpmVars, States
<1>3. CASE SetIO
  BY <1>3 DEF SetIO, Configured, CtxType, TpmType, HistoryType, tpmVars
<1>4. ASSUME NEW m \in Modes, SetMode(m) PROVE CtxType' /\ TpmType' /\ HistoryType'
  BY <1>4 DEF SetMode, Configured, CtxType, TpmType, HistoryType, tpmVars
<1>5. CASE SetRequesterKeyPair
  BY <1>5 DEF SetRequesterKeyPair, Configured, CtxType, TpmType, HistoryType, tpmVars
<1>6. CASE SetRequesterKeyTPMT
  BY <1>6 DEF SetRequesterKeyTPMT, Configured, CtxType, TpmType, HistoryType, tpmVars
<1>7. ASSUME NEW p \in Psks, SetPSK(p) PROVE CtxType' /\ TpmType' /\ HistoryType'
  BY <1>7 DEF SetPSK, Configured, CtxType, TpmType, HistoryType, tpmVars
<1>8. CASE Connect
  <2>1. CtxType'
    BY <1>8, EmptyTranscript DEF Connect, TranscriptReset, CtxType, States, Steps
  <2>2. TpmType' /\ HistoryType'
    BY <1>8 DEF Connect, TpmType, HistoryType, tpmVars
  <2>. QED  BY <2>1, <2>2
<1>9. CASE StepAborts
  BY <1>9, StepFailsType, FaultType DEF StepAborts, CtxType, TpmType, HistoryType, tpmVars
<1>10. CASE TpmReset
  <2>1. TpmType'
    BY <1>10, TpmHandlersType DEF TpmReset
  <2>2. CtxType' /\ HistoryType'
    BY <1>10, FaultType DEF TpmReset, CtxType, HistoryType
  <2>. QED  BY <2>1, <2>2
<1>. QED
  BY <1>1, <1>2, <1>3, <1>4, <1>5, <1>6, <1>7, <1>8, <1>9, <1>10

\* A clear exchange leaves responder and history well typed, given that the
\* responder's handler does.
LEMMA ExchangeType ==
    ASSUME TpmType, HistoryType, NEW accepts, NEW refuses, NEW handles,
           handles => TpmType', NoAnswer(accepts, refuses, handles)
    PROVE  TpmType' /\ attempt' \in {"none", "clean", "stale"} /\ faults' \in Nat
BY FaultType, TpmHandlersType DEF NoAnswer

LEMMA ArrivesType ==
    ASSUME HistoryType, NEW q, NEW gotQ, NEW a, NEW gotA, Arrives(q, gotQ, a, gotA)
    PROVE  attempt' \in {"none", "clean", "stale"} /\ faults' \in Nat
BY FaultType DEF Arrives

LEMMA GetVersionType ==
    ASSUME CtxType, TpmType, HistoryType, GetVersion
    PROVE  CtxType' /\ TpmType' /\ HistoryType'
<1> DEFINE request == Bare("GET_VERSION")
           answer  == Message("VERSION", TpmVersions)
           room    == MaxTranscript - Len(transcript)
<1>1. request \in Messages /\ answer \in Messages
  BY MessageType, VersionAssumption DEF MessageNames
<1>2. /\ pc \in {"version", "vca_version"}
      /\ UNCHANGED <<config, psk, session, mutAuth, epoch, records>>
  BY DEF GetVersion
<1>3. SUFFICES /\ TpmType' /\ attempt' \in {"none", "clean", "stale"} /\ faults' \in Nat
               /\ transcript' \in Transcripts /\ spdmVersion' \in Nat
               /\ state' \in States /\ pc' \in Steps \cup {"idle"}
  BY <1>2 DEF CtxType, HistoryType, config, session, records
<1> HIDE DEF request, answer, room
<1>4. CASE room < 1 /\ StepFails /\ NoFault /\ UNCHANGED <<transcript, spdmVersion, tpmVars>>
  BY <1>4, StepFailsType, FaultType, TpmHandlersType DEF CtxType
<1>5. CASE /\ StepFails /\ transcript' = Append(transcript, request)
           /\ UNCHANGED spdmVersion
           /\ NoAnswer(TRUE, room = 1 /\ tpmKey # ZeroKey, TpmGetVersion(request))
  <2>1. TpmGetVersion(request) => TpmType'
    BY <1>1, TpmHandlersType
  <2>2. TpmType' /\ attempt' \in {"none", "clean", "stale"} /\ faults' \in Nat
    BY <1>5, <2>1, ExchangeType
  <2>. QED  BY <1>1, <1>5, <2>2, StepFailsType, TranscriptType DEF CtxType
<1>6. CASE /\ StepFails /\ NoFault /\ TpmGetVersion(request)
           /\ transcript' = Append(transcript, request) /\ UNCHANGED spdmVersion
  BY <1>1, <1>6, StepFailsType, FaultType, TpmHandlersType, TranscriptType DEF CtxType
<1>7. ASSUME NEW q \in Wire(request), NEW r \in Wire(answer),
             Arrives(request, q, answer, r), TpmGetVersion(q),
             transcript' = transcript \o <<request, r>>,
             \/ StepFails /\ UNCHANGED spdmVersion
             \/ /\ Mutual(r[2]) # {} /\ spdmVersion' = Highest(Mutual(r[2]))
                /\ state' = "VERSION" /\ pc' = NextStep
      PROVE  /\ TpmType' /\ attempt' \in {"none", "clean", "stale"} /\ faults' \in Nat
             /\ transcript' \in Transcripts /\ spdmVersion' \in Nat
             /\ state' \in States /\ pc' \in Steps \cup {"idle"}
  <2>1. q \in Messages /\ r \in Messages
    BY <1>1, WireType
  <2>2. TpmType' /\ attempt' \in {"none", "clean", "stale"} /\ faults' \in Nat
    BY <1>7, <2>1, ArrivesType, TpmHandlersType
  <2>3. transcript' \in Transcripts
    BY <1>1, <1>7, <2>1, TranscriptType DEF CtxType
  <2>4. CASE StepFails /\ UNCHANGED spdmVersion
    BY <2>2, <2>3, <2>4, StepFailsType DEF CtxType
  <2>5. CASE /\ Mutual(r[2]) # {} /\ spdmVersion' = Highest(Mutual(r[2]))
             /\ state' = "VERSION" /\ pc' = NextStep
    <3>1. r[2] \in SUBSET Nat
      BY <2>1 DEF Messages
    <3>2. spdmVersion' \in Nat
      BY <2>5, <3>1, HighestType
    <3>3. pc' \in Steps \cup {"idle"}
      BY <1>2, <2>5, NextStepType DEF Steps
    <3>. QED  BY <2>2, <2>3, <2>5, <3>2, <3>3 DEF States
  <2>. QED  BY <1>7, <2>4, <2>5
<1>8. CASE /\ StepFails /\ NoFault /\ UNCHANGED <<spdmVersion, tpmVars>>
           /\ transcript' = transcript \o <<request, Message("VERSION", {})>>
  <2>1. Message("VERSION", {}) \in Messages
    BY MessageType DEF MessageNames
  <2>. QED
    BY <1>1, <1>8, <2>1, StepFailsType, FaultType, TpmHandlersType, TranscriptType DEF CtxType
<1>. QED
  BY <1>4, <1>5, <1>6, <1>7, <1>8 DEF GetVersion, request, answer, room

LEMMA NegotiateType ==
    ASSUME CtxType, TpmType, HistoryType, pc \in Steps,
           NEW request \in Messages, NEW answer \in Messages,
           Negotiate(request, answer)
    PROVE  CtxType' /\ TpmType' /\ HistoryType'
<1>1. /\ UNCHANGED <<config, psk, spdmVersion, session, mutAuth, epoch, records>>
  BY DEF Negotiate
<1>2. SUFFICES /\ TpmType' /\ attempt' \in {"none", "clean", "stale"} /\ faults' \in Nat
               /\ transcript' \in Transcripts
               /\ state' \in States /\ pc' \in Steps \cup {"idle"}
  BY <1>1 DEF CtxType, HistoryType, config, session, records
<1>3. CASE StepFails /\ NoFault /\ UNCHANGED <<transcript, tpmVars>>
  BY <1>3, StepFailsType, FaultType, TpmHandlersType DEF CtxType
<1>4. CASE /\ StepFails /\ transcript' = Append(transcript, request)
           /\ NoAnswer(tpmTranscript # << >>, FALSE, TpmNegotiates(request, answer))
  <2>1. TpmNegotiates(request, answer) => TpmType'
    BY TpmHandlersType
  <2>2. TpmType' /\ attempt' \in {"none", "clean", "stale"} /\ faults' \in Nat
    BY <1>4, <2>1, ExchangeType
  <2>. QED  BY <1>4, <2>2, StepFailsType, TranscriptType DEF CtxType
<1>5. CASE /\ StepFails /\ NoFault /\ transcript' = Append(transcript, request)
           /\ UNCHANGED tpmVars \/ TpmNegotiates(request, answer)
  BY <1>5, StepFailsType, FaultType, TpmHandlersType, TranscriptType DEF CtxType
<1>6. CASE /\ pc' = NextStep /\ UNCHANGED state
           /\ \E q \in Wire(request), r \in Wire(answer) :
                 /\ Arrives(request, q, answer, r)
                 /\ TpmNegotiates(q, answer)
                 /\ transcript' = transcript \o <<request, r>>
  <2>1. PICK q \in Wire(request), r \in Wire(answer) :
                 /\ Arrives(request, q, answer, r)
                 /\ TpmNegotiates(q, answer)
                 /\ transcript' = transcript \o <<request, r>>
    BY <1>6
  <2>2. q \in Messages /\ r \in Messages
    BY WireType
  <2>3. TpmType' /\ attempt' \in {"none", "clean", "stale"} /\ faults' \in Nat
    BY <2>1, <2>2, ArrivesType, TpmHandlersType
  <2>. QED  BY <1>6, <2>1, <2>2, <2>3, NextStepType, TranscriptType DEF CtxType
<1>7. CASE /\ pc' = NextStep /\ UNCHANGED state /\ NoFault /\ UNCHANGED tpmVars
           /\ \E r \in Altered(answer) : transcript' = transcript \o <<request, r>>
  <2>1. PICK r \in Wire(answer) : transcript' = transcript \o <<request, r>>
    BY <1>7 DEF Wire
  <2>2. r \in Messages
    BY WireType
  <2>. QED
    BY <1>7, <2>1, <2>2, FaultType, TpmHandlersType, NextStepType, TranscriptType DEF CtxType
<1>. QED
  BY <1>3, <1>4, <1>5, <1>6, <1>7 DEF Negotiate

LEMMA GetPubKeyType ==
    ASSUME CtxType, TpmType, HistoryType, GetPubKey
    PROVE  CtxType' /\ TpmType' /\ HistoryType'
<1>1. TpmType' /\ attempt' \in {"none", "clean", "stale"} /\ faults' \in Nat
  BY FaultType, TpmHandlersType DEF GetPubKey
<1>2. \A ct \in Wire(Bare("Ct")) : Append(transcript, ct) \in Transcripts
  BY MessageType, WireType, TranscriptType DEF MessageNames, CtxType
<1>3. /\ transcript' \in Transcripts
      /\ state' \in States /\ pc' \in Steps \cup {"idle"}
  BY <1>2, StepFailsType, NextStepType DEF GetPubKey, CtxType, Steps, States
<1>. QED
  BY <1>1, <1>3 DEF GetPubKey, CtxType, HistoryType, config, session, records

\* The parts of the key exchanges.
LEMMA ExchangeMessages ==
    ASSUME HistoryType
    PROVE  /\ BuildKeyExchange \in Messages /\ BuildPskExchange \in Messages
           /\ \A sid \in SessionIds : /\ KeyExchangeRsp(sid) \in Messages
                                      /\ PskExchangeRsp(sid) \in Messages
           /\ epoch + 1 \in Nat
           /\ Bare("Ct") \in Messages /\ Bare("Signature") \in Messages
           /\ Bare("ResponderVerifyData") \in Messages
BY MessageType, SessionIdAssumption
DEF MessageNames, HistoryType, BuildKeyExchange, BuildPskExchange, KeyExchangeRsp,
    PskExchangeRsp

LEMMA KeyExchangeType ==
    ASSUME CtxType, TpmType, HistoryType, KeyExchange
    PROVE  CtxType' /\ TpmType' /\ HistoryType'
<1> DEFINE Goal == /\ TpmType'
                   /\ attempt' \in {"none", "clean", "stale"} /\ faults' \in Nat
                   /\ transcript' \in Transcripts /\ dataKey' \in Keys
                   /\ sessionId' \in SessionIds \cup {0} /\ mutAuth' \in BOOLEAN
                   /\ state' \in States /\ pc' \in Steps \cup {"idle"}
<1>1. PICK sid \in SessionIds, mut \in MutAuth :
         \/ KeyExchangeLost(sid, mut)
         \/ \E damage \in {"none", "sig", "hmac"},
               q \in Wire(BuildKeyExchange), r \in Wire(KeyExchangeRsp(sid)) :
               ParseKeyExchangeRsp(sid, mut, damage, q, r)
  BY DEF KeyExchange
<1>2. /\ pc = "keyex" /\ epoch' = epoch + 1
      /\ UNCHANGED <<config, psk, spdmVersion, reqSeqNum, rspSeqNum, records>>
  BY DEF KeyExchange
<1>3. SUFFICES Goal
  BY <1>2 DEF CtxType, HistoryType, config, records
<1>4. \A q \in Messages : TpmTh1(q, KeyExchangeRsp(sid)) \in Transcripts
  BY ExchangeMessages, TranscriptType DEF TpmType, TpmTh1
<1>5. \A q \in Messages :
         TpmOpens("ecdhe", epoch + 1, TpmTh1(q, KeyExchangeRsp(sid)), sid, mut) => TpmType'
  BY <1>4, ExchangeMessages, TpmHandlersType, ModeAssumption
<1>6. CASE KeyExchangeLost(sid, mut)
  <2>1. TpmType' /\ attempt' \in {"none", "clean", "stale"} /\ faults' \in Nat
    BY <1>5, <1>6, ExchangeMessages, ExchangeType DEF KeyExchangeLost
  <2>2. state' \in States /\ pc' \in Steps \cup {"idle"}
    BY <1>6, StepFailsType DEF KeyExchangeLost
  <2>. QED
    BY <1>6, <2>1, <2>2, ExchangeMessages, TranscriptType DEF CtxType, KeyExchangeLost
<1>7. ASSUME NEW damage, NEW q \in Wire(BuildKeyExchange),
             NEW r \in Wire(KeyExchangeRsp(sid)),
             ParseKeyExchangeRsp(sid, mut, damage, q, r)
      PROVE  Goal
  <2> DEFINE body == transcript \o <<BuildKeyExchange, r>>
             th1  == Append(body, Bare("Signature"))
             key  == HandshakeKey("ecdhe", epoch + 1, th1)
             full == Append(th1, Bare("ResponderVerifyData"))
  <2>1. q \in Messages /\ r \in Messages
    BY ExchangeMessages, WireType
  <2>2. TpmType'
    BY <1>5, <1>7, <2>1 DEF ParseKeyExchangeRsp
  <2>3. attempt' \in {"none", "clean", "stale"} /\ faults' \in Nat
    BY <1>7, ArrivesType, FaultType DEF ParseKeyExchangeRsp
  <2>4. body \in Transcripts
    BY <2>1, ExchangeMessages, TranscriptType DEF CtxType
  <2>5. th1 \in Transcripts
    BY <2>4, ExchangeMessages, TranscriptType
  <2>6. full \in Transcripts
    BY <2>5, ExchangeMessages, TranscriptType
  <2>7. key \in Keys
    BY <2>5, ExchangeMessages, HandshakeKeyType
  <2>8. \/ StepFails /\ transcript' = body /\ UNCHANGED dataKey
        \/ StepFails /\ transcript' = th1 /\ dataKey' = key
        \/ transcript' = full /\ dataKey' = key /\ state' = "KEY_EX" /\ pc' = NextStep
    BY <1>7, Zenon DEF ParseKeyExchangeRsp
  <2>9. sessionId' \in SessionIds \cup {0} /\ mutAuth' \in BOOLEAN
    BY <1>7, ModeAssumption DEF ParseKeyExchangeRsp
  <2> HIDE DEF body, th1, key, full
  <2>10. transcript' \in Transcripts /\ dataKey' \in Keys
    BY <2>4, <2>5, <2>6, <2>7, <2>8 DEF CtxType
  <2>11. state' \in States /\ pc' \in Steps \cup {"idle"}
    BY <1>2, <2>8, StepFailsType, NextStepType DEF States, Steps
  <2>. QED  BY <2>2, <2>3, <2>9, <2>10, <2>11
<1>. QED
  BY <1>1, <1>6, <1>7

LEMMA PskExchangeType ==
    ASSUME CtxType, TpmType, HistoryType, PskExchange
    PROVE  CtxType' /\ TpmType' /\ HistoryType'
<1> DEFINE Goal == /\ TpmType'
                   /\ attempt' \in {"none", "clean", "stale"} /\ faults' \in Nat
                   /\ transcript' \in Transcripts /\ dataKey' \in Keys
                   /\ sessionId' \in SessionIds \cup {0} /\ psk' \in Psks \cup {NoPsk}
                   /\ state' \in States /\ pc' \in Steps \cup {"idle"}
<1>1. PICK sid \in SessionIds :
         \/ PskExchangeLost(sid)
         \/ \E damage \in {"none", "hmac"},
               q \in Wire(BuildPskExchange), r \in Wire(PskExchangeRsp(sid)) :
               ParsePskExchangeRsp(sid, damage, q, r)
  BY DEF PskExchange
<1>2. /\ pc = "pskex" /\ epoch' = epoch + 1
      /\ UNCHANGED <<config, spdmVersion, reqSeqNum, rspSeqNum, mutAuth, records>>
  BY DEF PskExchange
<1>3. SUFFICES Goal
  BY <1>2 DEF CtxType, HistoryType, config, records
<1>4. \A q \in Messages : tpmTranscript \o <<q, PskExchangeRsp(sid)>> \in Transcripts
  BY ExchangeMessages, TranscriptType DEF TpmType
<1>5. \A q \in Messages :
         TpmOpens(tpmPsk, epoch + 1, tpmTranscript \o <<q, PskExchangeRsp(sid)>>, sid, FALSE)
            => TpmType'
  <2> TAKE q \in Messages
  <2>1. tpmPsk \in Psks \cup {NoPsk, "ecdhe"} /\ FALSE \in BOOLEAN
    BY DEF TpmType
  <2>. QED  BY <1>4, <2>1, ExchangeMessages, TpmHandlersType
<1>6. CASE PskExchangeLost(sid)
  <2>1. TpmType' /\ attempt' \in {"none", "clean", "stale"} /\ faults' \in Nat
    <3> DEFINE accepts == tpmTranscript # << >> /\ tpmPsk # NoPsk
               opens == TpmOpens(tpmPsk, epoch + 1,
                  tpmTranscript \o <<BuildPskExchange, PskExchangeRsp(sid)>>, sid, FALSE)
    <3>1. NoAnswer(accepts, ~accepts, opens)
      BY <1>6, Zenon DEF PskExchangeLost
    <3>2. opens => TpmType'
      BY <1>5, ExchangeMessages
    <3> HIDE DEF accepts, opens
    <3>. QED  BY <3>1, <3>2, ExchangeType
  <2>2. state' \in States /\ pc' \in Steps \cup {"idle"}
    BY <1>6, StepFailsType DEF PskExchangeLost
  <2>. QED
    BY <1>6, <2>1, <2>2, ExchangeMessages, TranscriptType DEF CtxType, PskExchangeLost
<1>7. ASSUME NEW damage, NEW q \in Wire(BuildPskExchange),
             NEW r \in Wire(PskExchangeRsp(sid)),
             ParsePskExchangeRsp(sid, damage, q, r)
      PROVE  Goal
  <2> DEFINE th1  == transcript \o <<BuildPskExchange, r>>
             full == Append(th1, Bare("ResponderVerifyData"))
  <2>1. q \in Messages /\ r \in Messages
    BY ExchangeMessages, WireType
  <2>2. TpmType'
    BY <1>5, <1>7, <2>1 DEF ParsePskExchangeRsp
  <2>3. attempt' \in {"none", "clean", "stale"} /\ faults' \in Nat
    BY <1>7, ArrivesType, FaultType DEF ParsePskExchangeRsp
  <2>4. th1 \in Transcripts
    BY <2>1, ExchangeMessages, TranscriptType DEF CtxType
  <2>5. full \in Transcripts
    BY <2>4, ExchangeMessages, TranscriptType
  <2>6. HandshakeKey(psk, epoch + 1, th1) \in Keys
    BY <2>4, ExchangeMessages, HandshakeKeyType DEF CtxType
  <2>7. /\ dataKey' = HandshakeKey(psk, epoch + 1, th1)
        /\ psk' = NoPsk
        /\ \/ StepFails /\ transcript' = th1
           \/ transcript' = full /\ state' = "KEY_EX" /\ pc' = NextStep
    BY <1>7, Zenon DEF ParsePskExchangeRsp
  <2> HIDE DEF th1, full
  <2>10. sessionId' \in SessionIds \cup {0}
    BY <1>7 DEF ParsePskExchangeRsp
  <2>8. transcript' \in Transcripts /\ dataKey' \in Keys
    BY <2>4, <2>5, <2>6, <2>7
  <2>9. state' \in States /\ pc' \in Steps \cup {"idle"}
    BY <1>2, <2>7, StepFailsType, NextStepType DEF States, Steps
  <2>. QED  BY <2>2, <2>3, <2>7, <2>8, <2>9, <2>10
<1>. QED
  BY <1>1, <1>6, <1>7

\* Secured exchanges.
LEMMA SecuredType ==
    ASSUME TpmType, HistoryType, NEW accepts, NEW handles, handles => TpmType',
           SecuredOk(accepts, handles) \/ SecuredFails(accepts, handles)
    PROVE  TpmType' /\ attempt' \in {"none", "clean", "stale"} /\ faults' \in Nat
BY FaultType, TpmHandlersType DEF SecuredOk, SecuredFails

LEMMA RefusedType ==
    ASSUME CtxType, TpmType, HistoryType, Refused
    PROVE  /\ TpmType' /\ attempt' \in {"none", "clean", "stale"} /\ faults' \in Nat
           /\ rspSeqNum' \in Nat
BY FaultType, TpmHandlersType DEF Refused, CtxType

LEMMA GivePubStepType ==
    ASSUME CtxType, TpmType, HistoryType, GivePubStep
    PROVE  CtxType' /\ TpmType' /\ HistoryType'
<1>1. \/ SecuredOk(TpmAccepts, TpmTakesPub) /\ rspSeqNum' = rspSeqNum + 1
      \/ SecuredFails(TpmAccepts, TpmTakesPub) /\ UNCHANGED rspSeqNum
      \/ Refused
  BY Zenon DEF GivePubStep
<1>2. /\ TpmType' /\ attempt' \in {"none", "clean", "stale"} /\ faults' \in Nat
      /\ rspSeqNum' \in Nat
  <2>1. TpmTakesPub => TpmType'
    BY TpmHandlersType
  <2>2. CASE SecuredOk(TpmAccepts, TpmTakesPub) /\ rspSeqNum' = rspSeqNum + 1
    BY <2>1, <2>2, SecuredType DEF CtxType
  <2>3. CASE SecuredFails(TpmAccepts, TpmTakesPub) /\ UNCHANGED rspSeqNum
    BY <2>1, <2>3, SecuredType DEF CtxType
  <2>. QED  BY <1>1, <2>2, <2>3, RefusedType
<1>3. sealed' \subseteq Keys \X Nat /\ ivReused' \in BOOLEAN
  BY SealType DEF GivePubStep
<1>4. reqSeqNum' \in Nat
  BY DEF GivePubStep, CtxType
<1>5. (pc' = NextStep /\ UNCHANGED state) \/ StepFails
  BY Zenon DEF GivePubStep
<1>6. state' \in States /\ pc' \in Steps \cup {"idle"}
  BY <1>5, StepFailsType, NextStepType DEF GivePubStep, CtxType, Steps
<1>7. UNCHANGED <<config, psk, spdmVersion, transcript, dataKey, sessionId, mutAuth, epoch>>
  BY DEF GivePubStep
<1>. QED
  BY <1>2, <1>3, <1>4, <1>6, <1>7 DEF CtxType, HistoryType, config

LEMMA FinishesType ==
    ASSUME CtxType, TpmType, HistoryType, NEW message \in Transcripts, NEW verified,
           Finishes(message, verified)
    PROVE  CtxType' /\ TpmType' /\ HistoryType'
<1> DEFINE built == transcript \o message
           th2   == Append(built, Bare("FINISH_RSP"))
           accepts == TpmAccepts /\ verified
           done  == /\ transcript' = th2 /\ dataKey' = AppKey(dataKey, th2)
                    /\ Restart /\ state' = "CONNECTED" /\ pc' = "idle"
           over  == transcript' = built /\ reqSeqNum' = reqSeqNum + 1 /\ StepFails
<1>1. \/ SecuredOk(accepts, TpmFinishes(message)) /\ done
      \/ /\ SecuredFails(accepts, TpmFinishes(message)) /\ over
         /\ UNCHANGED <<dataKey, rspSeqNum>>
      \/ Refused /\ over /\ UNCHANGED dataKey
  BY Zenon DEF Finishes
<1>2. /\ Seal /\ UNCHANGED <<config, psk, spdmVersion, sessionId, mutAuth, epoch>>
  BY Zenon DEF Finishes
<1>3. sealed' \subseteq Keys \X Nat /\ ivReused' \in BOOLEAN
  BY <1>2, SealType
<1>4. built \in Transcripts
  BY TranscriptType DEF CtxType
<1>5. th2 \in Transcripts
  BY <1>4, MessageType, TranscriptType DEF MessageNames
<1> HIDE DEF built, th2
<1>6. TpmFinishes(message) => TpmType'
  BY TpmHandlersType
<1>7. /\ TpmType' /\ attempt' \in {"none", "clean", "stale"} /\ faults' \in Nat
  <2> HIDE DEF accepts, done, over
  <2>. QED  BY <1>1, <1>6, SecuredType, RefusedType
<1>8. /\ transcript' \in Transcripts /\ dataKey' \in Keys
      /\ reqSeqNum' \in Nat /\ rspSeqNum' \in Nat
      /\ state' \in States /\ pc' \in Steps \cup {"idle"}
  <2> HIDE DEF accepts
  <2>1. CASE done
    BY <1>4, <1>5, <2>1, AppKeyType DEF CtxType, Restart, States
  <2>2. CASE over /\ UNCHANGED <<dataKey, rspSeqNum>>
    BY <1>4, <2>2, StepFailsType DEF CtxType
  <2>3. CASE Refused /\ over /\ UNCHANGED dataKey
    BY <1>4, <2>3, StepFailsType, RefusedType DEF CtxType
  <2> HIDE DEF done, over
  <2>. QED  BY <1>1, <2>1, <2>2, <2>3
<1>. QED
  BY <1>2, <1>3, <1>7, <1>8 DEF CtxType, HistoryType, config

LEMMA FinishType ==
    ASSUME CtxType, TpmType, HistoryType, Finish \/ PskFinish
    PROVE  CtxType' /\ TpmType' /\ HistoryType'
<1>1. /\ Bare("Cm") \in Messages /\ Bare("FINISH") \in Messages
      /\ Bare("Signature") \in Messages /\ Bare("RequesterVerifyData") \in Messages
  BY MessageType DEF MessageNames
<1>2. /\ << >> \in Transcripts /\ <<Bare("Cm")>> \in Transcripts
      /\ <<Bare("FINISH")>> \in Transcripts /\ <<Bare("Signature")>> \in Transcripts
      /\ <<Bare("RequesterVerifyData")>> \in Transcripts
      /\ <<Bare("FINISH"), Bare("RequesterVerifyData")>> \in Transcripts
  BY <1>1 DEF Transcripts
<1>3. CASE PskFinish
  BY <1>2, <1>3, FinishesType DEF PskFinish
<1>4. CASE Finish
  <2> DEFINE signs == mutAuth /\ hasReqKeyPair
             cm  == IF signs /\ hasReqTpmt THEN <<Bare("Cm")>> ELSE << >>
             sig == IF signs THEN <<Bare("Signature")>> ELSE << >>
             m1  == cm \o <<Bare("FINISH")>>
             m2  == m1 \o sig
             m3  == m2 \o <<Bare("RequesterVerifyData")>>
  <2>1. Finishes(m3, tpmMut => signs /\ tpmHasPub)
    BY <1>4, Zenon DEF Finish
  <2>2. cm \in Transcripts /\ sig \in Transcripts
    BY <1>2
  <2> HIDE DEF cm, sig
  <2>3. m1 \in Transcripts
    BY <1>2, <2>2, TranscriptType
  <2> HIDE DEF m1
  <2>4. m2 \in Transcripts
    BY <2>2, <2>3, TranscriptType
  <2> HIDE DEF m2
  <2>5. m3 \in Transcripts
    BY <1>2, <2>4, TranscriptType
  <2> HIDE DEF m3
  <2>. QED  BY <2>1, <2>5, FinishesType
<1>. QED  BY <1>3, <1>4

LEMMA SecuredCallType ==
    ASSUME CtxType, TpmType, HistoryType,
           TpmCommand \/ SetOnlyMode \/ GivePubKey \/ Disconnect
    PROVE  CtxType' /\ TpmType' /\ HistoryType'
<1>1. ASSUME NEW handles, handles => TpmType', SecuredCall(handles)
      PROVE  CtxType' /\ TpmType' /\ HistoryType'
  <2>1. TpmType' /\ attempt' \in {"none", "clean", "stale"} /\ faults' \in Nat
    BY <1>1, SecuredType DEF SecuredCall
  <2>2. sealed' \subseteq Keys \X Nat /\ ivReused' \in BOOLEAN
    BY <1>1, SealType DEF SecuredCall
  <2>3. reqSeqNum' \in Nat /\ rspSeqNum' \in Nat
    BY <1>1 DEF SecuredCall, CtxType
  <2>. QED
    BY <1>1, <2>1, <2>2, <2>3 DEF SecuredCall, CtxType, HistoryType, config
<1>2. CASE TpmCommand \/ SetOnlyMode
  BY <1>1, <1>2, TpmHandlersType DEF TpmCommand, SetOnlyMode
<1>3. CASE GivePubKey
  BY <1>1, <1>3, TpmHandlersType DEF GivePubKey
<1>4. CASE Disconnect
  <2>1. TpmType' /\ attempt' \in {"none", "clean", "stale"} /\ faults' \in Nat
    BY <1>4, SecuredType, TpmHandlersType DEF Disconnect
  <2>2. sealed' \subseteq Keys \X Nat /\ ivReused' \in BOOLEAN
    BY <1>4, SealType DEF Disconnect
  <2>. QED
    BY <1>4, <2>1, <2>2, ZeroKeyType
    DEF Disconnect, Erase, States, CtxType, HistoryType, config
<1>. QED  BY <1>2, <1>3, <1>4

LEMMA ProvisioningType ==
    ASSUME CtxType, TpmType, HistoryType,
           (\E p \in Psks : PskSet(p)) \/ PskClearWithVCA \/ PskClear
    PROVE  CtxType' /\ TpmType' /\ HistoryType'
<1> USE DEF Provisioning, CtxType, TpmType, HistoryType, config, session, records
<1>1. ASSUME NEW p \in Psks, PskSet(p) PROVE CtxType' /\ TpmType' /\ HistoryType'
  BY <1>1, FaultType DEF PskSet
<1>2. CASE PskClearWithVCA
  BY <1>2 DEF PskClearWithVCA, Steps
<1>3. CASE PskClear
  <2>1. attempt' \in {"none", "clean", "stale"} /\ faults' \in Nat
    BY <1>3, FaultType DEF PskClear
  <2>2. state' \in States /\ pc' \in Steps \cup {"idle"}
    BY <1>3, StepFailsType DEF PskClear
  <2>3. tpmPsk' \in Psks \cup {NoPsk}
    BY <1>3 DEF PskClear
  <2>. QED  BY <1>3, <2>1, <2>2, <2>3 DEF PskClear
<1>. QED  BY <1>1, <1>2, <1>3

LEMMA TypeNext == TypeOK /\ [Next]_vars => TypeOK'
<1> SUFFICES ASSUME CtxType, TpmType, HistoryType, [Next]_vars
             PROVE  CtxType' /\ TpmType' /\ HistoryType'
  BY TypeParts DEF TypeOK, CtxType, TpmType, HistoryType
<1>1. CASE GetCapabilities
  BY <1>1, NegotiateType, MessageType DEF GetCapabilities, MessageNames, Steps
<1>2. CASE NegotiateAlgorithms
  BY <1>2, NegotiateType, MessageType DEF NegotiateAlgorithms, MessageNames, Steps
<1>3. CASE Step
  BY <1>1, <1>2, <1>3, ConfigType, GetVersionType, GetPubKeyType, KeyExchangeType,
     PskExchangeType, GivePubStepType, FinishType, ProvisioningType DEF Step
<1>4. CASE Call
  BY <1>4, ConfigType, SecuredCallType, ProvisioningType DEF Call
<1>5. CASE TpmReset
  BY <1>5, ConfigType
<1>6. CASE UNCHANGED vars
  BY <1>6 DEF vars, config, session, tpmVars, records, CtxType, TpmType, HistoryType
<1>. QED  BY <1>3, <1>4, <1>5, <1>6 DEF Next

\* Every variable keeps its type: in particular the negotiated version, the
\* keys and the transcripts stay what the code's buffers hold.
THEOREM TypeCorrect == Spec => []TypeOK
BY TypeInit, TypeNext, PTL DEF Spec

-----------------------------------------------------------------------------
(* No derived key encrypts two records with one sequence number.           *)

\* Steps that touch neither keys nor records, and start no secured step.
LEMMA KeysQuiet ==
    ASSUME KeysInOrder, UNCHANGED <<dataKey, reqSeqNum, epoch, sealed, ivReused>>,
           pc' = pc \/ pc' \notin {"givepub", "finish", "pskfin"}
    PROVE  KeysInOrder'
BY DEF KeysInOrder

\* Sealing a record under the key in use.
LEMMA KeysSeal ==
    ASSUME TypeOK, KeysInOrder, Seal
    PROVE  /\ ~ivReused'
           /\ \A r \in sealed' : r[1].nonce <= epoch
           /\ \A r \in sealed' : r \in sealed \/ r = <<dataKey, reqSeqNum>>
<1>1. <<dataKey, reqSeqNum>> \notin sealed \/ dataKey = ZeroKey
  BY DEF KeysInOrder, TypeOK
<1>2. ~ivReused'
  BY <1>1 DEF Seal, KeysInOrder
<1>3. \A r \in sealed' : r \in sealed \/ r = <<dataKey, reqSeqNum>>
  BY DEF Seal
<1>4. \A r \in sealed' : r[1].nonce <= epoch
  BY <1>3 DEF KeysInOrder
<1>. QED  BY <1>2, <1>3, <1>4

\* A secured record that does not end a handshake.
LEMMA KeysRecord ==
    ASSUME TypeOK, KeysInOrder, Seal, reqSeqNum' = reqSeqNum + 1,
           UNCHANGED <<dataKey, epoch>>,
           pc' = pc \/ pc' = "idle" \/ (pc = "givepub" /\ pc' = "finish")
    PROVE  KeysInOrder'
<1>1. \A r \in sealed' : r[1] = dataKey /\ dataKey # ZeroKey => r[2] < reqSeqNum + 1
  BY KeysSeal DEF KeysInOrder, TypeOK
<1>2. ASSUME pc' \in {"givepub", "finish", "pskfin"}
      PROVE  /\ dataKey.phase = "hs" /\ dataKey.nonce = epoch
             /\ \A r \in sealed' : r[1].phase = "app" => r[1].nonce < epoch
  BY <1>2, KeysSeal DEF KeysInOrder
<1>. QED  BY <1>1, <1>2, KeysSeal DEF KeysInOrder

\* A key exchange: the number of the exchange is new, so is any key made.
LEMMA KeysExchange ==
    ASSUME TypeOK, KeysInOrder, epoch' = epoch + 1,
           UNCHANGED <<reqSeqNum, sealed, ivReused>>,
           \/ UNCHANGED dataKey /\ pc' = "idle"
           \/ \E source \in Psks \cup {NoPsk, "ecdhe"}, th \in Transcripts :
                 dataKey' = HandshakeKey(source, epoch + 1, th)
    PROVE  KeysInOrder'
<1>1. CASE UNCHANGED dataKey /\ pc' = "idle"
  BY <1>1 DEF KeysInOrder, TypeOK, Keys
<1>2. CASE \E source \in Psks \cup {NoPsk, "ecdhe"}, th \in Transcripts :
              dataKey' = HandshakeKey(source, epoch + 1, th)
  <2>1. dataKey'.nonce = epoch + 1 /\ dataKey'.phase = "hs"
    BY <1>2 DEF HandshakeKey
  <2>2. \A r \in sealed : r[1].nonce \in Nat /\ r[1].nonce < epoch + 1
    BY DEF KeysInOrder, TypeOK, Keys
  <2>. QED  BY <2>1, <2>2 DEF KeysInOrder, TypeOK
<1>. QED  BY <1>1, <1>2

\* The end of a handshake.
LEMMA KeysFinishes ==
    ASSUME TypeOK, KeysInOrder, pc \in {"finish", "pskfin"}, NEW message, NEW verified,
           Finishes(message, verified)
    PROVE  KeysInOrder'
<1>1. Seal /\ UNCHANGED epoch
  BY DEF Finishes
<1>2. CASE reqSeqNum' = reqSeqNum + 1 /\ StepFails /\ UNCHANGED dataKey
  BY <1>1, <1>2, KeysRecord DEF StepFails
<1>3. ASSUME NEW th2, dataKey' = AppKey(dataKey, th2), pc' = "idle"
      PROVE  KeysInOrder'
  <2>1. dataKey'.phase = "app" /\ dataKey'.nonce = epoch
    BY <1>3 DEF AppKey, KeysInOrder
  <2>2. \A r \in sealed' : r[1].phase = "app" => r[1].nonce < epoch
    BY <1>1, KeysSeal DEF KeysInOrder
  <2>3. \A r \in sealed' : r[1] # dataKey'
    BY <2>1, <2>2 DEF TypeOK
  <2>. QED  BY <1>1, <1>3, <2>1, <2>3, KeysSeal DEF KeysInOrder, TypeOK
<1>. QED  BY <1>2, <1>3 DEF Finishes

LEMMA KeysNext == TypeOK /\ KeysInOrder /\ [Next]_vars => KeysInOrder'
<1> SUFFICES ASSUME TypeOK, KeysInOrder, [Next]_vars PROVE KeysInOrder'
  OBVIOUS
<1> USE DEF session, records
<1>1. CASE StepAborts
  BY <1>1, KeysQuiet DEF StepAborts, StepFails
<1>2. CASE GetVersion
  <2>1. pc' = "idle" \/ pc' = NextStep
    BY <1>2 DEF GetVersion, StepFails
  <2>. QED  BY <1>2, <2>1, KeysQuiet DEF GetVersion, NextStep
<1>3. CASE GetCapabilities \/ NegotiateAlgorithms
  <2>1. PICK q, a : Negotiate(q, a)
    BY <1>3 DEF GetCapabilities, NegotiateAlgorithms
  <2>2. pc' = "idle" \/ pc' = NextStep
    BY <2>1 DEF Negotiate, StepFails
  <2>3. pc \in {"caps", "vca_caps", "algo", "vca_algo"}
    BY <1>3 DEF GetCapabilities, NegotiateAlgorithms
  <2>. QED  BY <2>1, <2>2, <2>3, KeysQuiet DEF Negotiate, NextStep
<1>4. CASE GetPubKey
  <2>1. pc' = "idle" \/ pc' = NextStep
    BY <1>4 DEF GetPubKey, StepFails
  <2>. QED  BY <1>4, <2>1, KeysQuiet DEF GetPubKey, NextStep
<1>5. CASE KeyExchange
  <2>1. PICK sid \in SessionIds, mut \in MutAuth :
           \/ KeyExchangeLost(sid, mut)
           \/ \E damage \in {"none", "sig", "hmac"},
                 q \in Wire(BuildKeyExchange), r \in Wire(KeyExchangeRsp(sid)) :
                 ParseKeyExchangeRsp(sid, mut, damage, q, r)
    BY <1>5 DEF KeyExchange
  <2>2. CASE KeyExchangeLost(sid, mut)
    BY <1>5, <2>2, KeysExchange DEF KeyExchange, KeyExchangeLost, StepFails
  <2>3. ASSUME NEW damage, NEW q \in Wire(BuildKeyExchange),
               NEW r \in Wire(KeyExchangeRsp(sid)),
               ParseKeyExchangeRsp(sid, mut, damage, q, r)
        PROVE  KeysInOrder'
    <3> DEFINE th1 == Append(transcript \o <<BuildKeyExchange, r>>, Bare("Signature"))
    <3>1. \/ UNCHANGED dataKey /\ StepFails
          \/ dataKey' = HandshakeKey("ecdhe", epoch + 1, th1)
      BY <2>3, Zenon DEF ParseKeyExchangeRsp
    <3>2. r \in Messages
      BY ExchangeMessages, WireType DEF TypeOK, HistoryType
    <3>3. transcript \o <<BuildKeyExchange, r>> \in Transcripts
      BY <3>2, ExchangeMessages, TranscriptType DEF TypeOK, HistoryType
    <3>4. th1 \in Transcripts
      BY <3>3, ExchangeMessages, TranscriptType DEF TypeOK, HistoryType
    <3> HIDE DEF th1
    <3>. QED  BY <1>5, <3>1, <3>4, KeysExchange DEF KeyExchange, StepFails
  <2>. QED  BY <2>1, <2>2, <2>3
<1>6. CASE PskExchange
  <2>1. PICK sid \in SessionIds :
           \/ PskExchangeLost(sid)
           \/ \E damage \in {"none", "hmac"},
                 q \in Wire(BuildPskExchange), r \in Wire(PskExchangeRsp(sid)) :
                 ParsePskExchangeRsp(sid, damage, q, r)
    BY <1>6 DEF PskExchange
  <2>2. CASE PskExchangeLost(sid)
    BY <1>6, <2>2, KeysExchange DEF PskExchange, PskExchangeLost, StepFails
  <2>3. ASSUME NEW damage, NEW q \in Wire(BuildPskExchange),
               NEW r \in Wire(PskExchangeRsp(sid)),
               ParsePskExchangeRsp(sid, damage, q, r)
        PROVE  KeysInOrder'
    <3> DEFINE th1 == transcript \o <<BuildPskExchange, r>>
    <3>1. dataKey' = HandshakeKey(psk, epoch + 1, th1)
      BY <2>3, Zenon DEF ParsePskExchangeRsp
    <3>2. r \in Messages
      BY ExchangeMessages, WireType DEF TypeOK, HistoryType
    <3>3. th1 \in Transcripts
      BY <3>2, ExchangeMessages, TranscriptType DEF TypeOK, HistoryType
    <3>4. psk \in Psks \cup {NoPsk, "ecdhe"}
      BY DEF TypeOK
    <3> HIDE DEF th1
    <3>. QED  BY <1>6, <3>1, <3>3, <3>4, KeysExchange DEF PskExchange
  <2>. QED  BY <2>1, <2>2, <2>3
<1>7. CASE GivePubStep
  <2>1. pc' = "idle" \/ (pc = "givepub" /\ pc' = "finish")
    BY <1>7 DEF GivePubStep, StepFails, NextStep
  <2>. QED  BY <1>7, <2>1, KeysRecord DEF GivePubStep
<1>8. CASE Finish \/ PskFinish
  BY <1>8, KeysFinishes DEF Finish, PskFinish
<1>9. CASE TpmCommand \/ SetOnlyMode \/ GivePubKey
  BY <1>9, KeysRecord DEF TpmCommand, SetOnlyMode, GivePubKey, SecuredCall
<1>10. CASE Disconnect
  <2>1. Seal /\ dataKey' = ZeroKey /\ pc' = "idle" /\ UNCHANGED epoch
    BY <1>10 DEF Disconnect, Erase, Idle
  <2>. QED  BY <2>1, KeysSeal DEF KeysInOrder, ZeroKey, TypeOK
<1>11. CASE Free
  BY <1>11 DEF Free, Erase, Idle, KeysInOrder, ZeroKey, TypeOK
<1>12. CASE \/ \E cb \in BOOLEAN : InitCtx(cb)
            \/ SetIO
            \/ \E m \in Modes : SetMode(m)
            \/ SetRequesterKeyPair \/ SetRequesterKeyTPMT
            \/ \E p \in Psks : SetPSK(p) \/ PskSet(p)
            \/ Connect \/ PskClearWithVCA \/ PskClear \/ TpmReset
  <2>1. /\ UNCHANGED <<dataKey, reqSeqNum, epoch, sealed, ivReused>>
        /\ pc' = pc \/ pc' \notin {"givepub", "finish", "pskfin"}
    BY <1>12 DEF InitCtx, SetIO, SetMode, SetRequesterKeyPair, SetRequesterKeyTPMT,
       SetPSK, PskSet, Connect, PskClearWithVCA, PskClear, TpmReset, Configured,
       Provisioning, StepFails
  <2>. QED  BY <2>1, KeysQuiet
<1>13. CASE UNCHANGED vars
  BY <1>13, KeysQuiet DEF vars
<1>. QED
  BY <1>1, <1>2, <1>3, <1>4, <1>5, <1>6, <1>7, <1>8, <1>9, <1>10, <1>11, <1>12, <1>13
  DEF Next, Step, Call

\* For any number of handshakes, faults and records: an AES-GCM key derived by
\* the requester never meets the same sequence number, hence IV, twice.
THEOREM NoNonceReuse == Spec => []NonceUnique
<1>1. Init => KeysInOrder
  BY DEF Init, KeysInOrder, ZeroKey
<1>2. KeysInOrder => NonceUnique
  BY DEF KeysInOrder, NonceUnique
<1>. QED
  BY <1>1, <1>2, TypeCorrect, KeysNext, PTL DEF Spec

-----------------------------------------------------------------------------
(* A closed context holds no session.                                      *)

LEMMA ErasedNext == TypeOK /\ InitMeansErased /\ [Next]_vars => InitMeansErased'
<1> SUFFICES ASSUME TypeOK, InitMeansErased, [Next]_vars PROVE InitMeansErased'
  OBVIOUS
<1> USE DEF session, Erased
<1>1. ASSUME StepFails, pc # "idle", UNCHANGED session PROVE InitMeansErased'
  BY <1>1 DEF StepFails, InitMeansErased
<1>2. CASE StepAborts
  BY <1>1, <1>2 DEF StepAborts, Steps
<1>3. CASE GetVersion
  <2>1. StepFails \/ state' = "VERSION"
    BY <1>3 DEF GetVersion
  <2>2. pc # "idle" /\ UNCHANGED session
    BY <1>3 DEF GetVersion
  <2>. QED  BY <1>1, <2>1, <2>2 DEF InitMeansErased
<1>4. CASE GetCapabilities \/ NegotiateAlgorithms
  <2>1. PICK q, a : Negotiate(q, a)
    BY <1>4 DEF GetCapabilities, NegotiateAlgorithms
  <2>2. StepFails \/ UNCHANGED state
    BY <2>1 DEF Negotiate
  <2>3. pc \in {"caps", "vca_caps", "algo", "vca_algo"} /\ UNCHANGED session
    BY <1>4, <2>1 DEF GetCapabilities, NegotiateAlgorithms, Negotiate
  <2>. QED  BY <1>1, <2>2, <2>3 DEF InitMeansErased
<1>5. CASE GetPubKey
  <2>1. (StepFails \/ state' = "CERT") /\ pc # "idle" /\ UNCHANGED session
    BY <1>5 DEF GetPubKey
  <2>. QED  BY <1>1, <2>1 DEF InitMeansErased
<1>6. CASE KeyExchange
  <2>1. StepFails \/ state' = "KEY_EX"
    <3>1. PICK sid, mut : KeyExchangeLost(sid, mut)
                          \/ \E damage, q, r : ParseKeyExchangeRsp(sid, mut, damage, q, r)
      BY <1>6 DEF KeyExchange
    <3>2. CASE KeyExchangeLost(sid, mut)
      BY <3>2 DEF KeyExchangeLost
    <3>3. ASSUME NEW damage, NEW q, NEW r, ParseKeyExchangeRsp(sid, mut, damage, q, r)
          PROVE  StepFails \/ state' = "KEY_EX"
      BY <3>3, Zenon DEF ParseKeyExchangeRsp
    <3>. QED  BY <3>1, <3>2, <3>3
  <2>2. pc = "keyex"
    BY <1>6 DEF KeyExchange
  <2>. QED  BY <2>1, <2>2 DEF StepFails, InitMeansErased
<1>7. CASE PskExchange
  <2>1. StepFails \/ state' = "KEY_EX"
    BY <1>7 DEF PskExchange, PskExchangeLost, ParsePskExchangeRsp
  <2>2. pc = "pskex"
    BY <1>7 DEF PskExchange
  <2>. QED  BY <2>1, <2>2 DEF StepFails, InitMeansErased
<1>8. CASE GivePubStep
  <2>1. (StepFails \/ UNCHANGED state) /\ pc = "givepub"
    BY <1>8 DEF GivePubStep
  <2>. QED  BY <2>1 DEF StepFails, InitMeansErased
<1>9. CASE Finish \/ PskFinish
  <2>1. PICK message, verified : Finishes(message, verified)
    BY <1>9 DEF Finish, PskFinish
  <2>2. (StepFails \/ state' = "CONNECTED") /\ pc \in {"finish", "pskfin"}
    BY <1>9, <2>1 DEF Finish, PskFinish, Finishes
  <2>. QED  BY <2>2 DEF StepFails, InitMeansErased
<1>10. CASE TpmCommand \/ SetOnlyMode \/ GivePubKey
  BY <1>10 DEF TpmCommand, SetOnlyMode, GivePubKey, SecuredCall, InitMeansErased
<1>11. CASE Disconnect \/ Free
  <2>1. Erase /\ pc' = "idle"
    BY <1>11 DEF Disconnect, Free, Idle
  <2>. QED  BY <2>1 DEF Erase, InitMeansErased
<1>12. CASE Connect
  BY <1>12 DEF Connect, InitMeansErased
<1>13. CASE PskClearWithVCA
  BY <1>13 DEF PskClearWithVCA, Provisioning, Idle, InitMeansErased
<1>14. CASE PskClear
  <2>1. /\ UNCHANGED session /\ pc \in {"idle", "vca_clear"} /\ pc' = "idle"
        /\ UNCHANGED state
    BY <1>14 DEF PskClear, Provisioning, StepFails
  <2>. QED  BY <2>1 DEF InitMeansErased
<1>15. CASE \/ \E cb \in BOOLEAN : InitCtx(cb)
            \/ SetIO
            \/ \E m \in Modes : SetMode(m)
            \/ SetRequesterKeyPair \/ SetRequesterKeyTPMT
            \/ \E p \in Psks : SetPSK(p) \/ PskSet(p)
            \/ TpmReset \/ UNCHANGED vars
  <2>1. UNCHANGED <<state, pc, session>>
    BY <1>15 DEF InitCtx, SetIO, SetMode, SetRequesterKeyPair, SetRequesterKeyTPMT,
       SetPSK, PskSet, TpmReset, Configured, Provisioning, vars
  <2>. QED  BY <2>1 DEF InitMeansErased
<1>. QED
  BY <1>2, <1>3, <1>4, <1>5, <1>6, <1>7, <1>8, <1>9, <1>10, <1>11, <1>12, <1>13,
     <1>14, <1>15
  DEF Next, Step, Call

\* However a session ended, a context back in state INIT between calls holds
\* no key, session id or sequence number of it.
THEOREM ClosedIsErased == Spec => []ErasedWhenClosed
<1>1. Init => InitMeansErased
  BY DEF Init, InitMeansErased, Erased
<1>2. InitMeansErased => ErasedWhenClosed
  BY DEF InitMeansErased, ErasedWhenClosed, Idle
<1>. QED
  BY <1>1, <1>2, TypeCorrect, ErasedNext, PTL DEF Spec

-----------------------------------------------------------------------------
(* What makes ConnectAgrees and ChannelSafe inductive.                     *)

\* A responder that holds a transcript holds its own VERSION answer in it.
TpmOffered ==
    /\ tpmTranscript # << >> =>
          /\ Len(tpmTranscript) >= 2
          /\ tpmTranscript[2] = Message("VERSION", TpmVersions)
    /\ tpmKey # ZeroKey => tpmTranscript # << >>

\* The version in use is the highest one of the VERSION answer as it arrived,
\* which the transcript holds; once the keys match, of the answer as sent.
VersionRecorded ==
    /\ pc = "version" => transcript = << >>
    /\ pc \in {"caps", "algo", "pubk", "keyex", "pskex"} =>
          /\ Len(transcript) >= 2
          /\ spdmVersion = Highest(Mutual(transcript[2][2]))
    /\ pc \in {"givepub", "finish", "pskfin"} =>
          /\ spdmVersion = Highest(Mutual(TpmVersions))
          /\ tpmKey = dataKey => tpmTranscript = transcript

\* While a session is reported the key is an application key; and as long as
\* the responder has the same one, it has accepted no more requests than were
\* sent and sent no fewer answers than were accepted.
ConnectedMeans ==
    state = "CONNECTED" =>
        /\ pc \in {"idle", "vca_version"}
        /\ dataKey.phase = "app"
        /\ tpmKey = dataKey => tpmReqSeq <= reqSeqNum /\ rspSeqNum <= tpmRspSeq

InSession == TypeOK /\ KeysInOrder /\ TpmOffered /\ VersionRecorded /\ ConnectedMeans

-----------------------------------------------------------------------------
(* What makes TranscriptFits and CleanConnectSucceeds inductive.           *)

\* Messages of the longer flow: three exchanges, Ct, the key exchange with its
\* signature and HMAC, and FINISH with Cm, signature, HMAC and answer.
LongestFlow == 16

\* How much of the flow the transcript holds at each step of Connect.
FlowRoom ==
    /\ Len(transcript) <= MaxTranscript
    /\ pc = "version" => transcript = << >>
    /\ pc \in {"caps", "pskex"} => Len(transcript) <= 2
    /\ pc = "algo" => Len(transcript) <= 4
    /\ pc = "pubk" => Len(transcript) <= 6
    /\ pc = "keyex" => Len(transcript) <= 7
    /\ pc \in {"givepub", "finish", "pskfin"} => Len(transcript) <= 11

\* A Connect that started clean and met no fault.
Credentials == IF mode = "NATIONS_PSK" THEN psk = tpmPsk /\ psk # NoPsk
               ELSE hasReqKeyPair /\ hasReqTpmt

Undisturbed ==
    attempt = "clean" =>
        /\ pc \in {"idle", "version", "caps", "algo", "pubk", "keyex", "givepub",
                   "finish", "pskex", "pskfin"}
        /\ pc = "idle" => state # "ERROR"
        /\ pc \in {"version", "caps", "algo", "pubk", "keyex", "pskex"} =>
              /\ tpmKey = ZeroKey /\ reqSeqNum = 0 /\ rspSeqNum = 0 /\ Credentials
        /\ pc = "version" => /\ tpmTranscript = << >> /\ Mutual(TpmVersions) # {}
                           /\ mode # "none"
        /\ pc \in {"caps", "algo", "pubk", "keyex", "pskex"} => tpmTranscript # << >>
        /\ pc \in {"caps", "algo", "pubk", "pskex"} => transcript = tpmTranscript
        /\ pc = "keyex" => transcript = Append(tpmTranscript, Bare("Ct"))
        /\ pc \in {"caps", "algo", "pubk", "keyex", "givepub", "finish"} => mode # "NATIONS_PSK"
        /\ pc \in {"pskex", "pskfin"} => mode = "NATIONS_PSK"
        /\ pc \in {"givepub", "finish", "pskfin"} =>
              /\ InStep /\ reqSeqNum = rspSeqNum
        /\ pc \in {"givepub", "finish"} => hasReqKeyPair /\ hasReqTpmt
        /\ pc = "finish" => tpmHasPub /\ tpmMut = mutAuth
        /\ pc = "givepub" => tpmMut = mutAuth

-----------------------------------------------------------------------------
(* The responder's transcript.                                             *)

\* Adding to a transcript leaves its second message in place.
LEMMA SecondStays ==
    ASSUME NEW t \in Transcripts, Len(t) >= 2
    PROVE  /\ \A m \in Messages : Len(Append(t, m)) >= 2 /\ Append(t, m)[2] = t[2]
           /\ \A u \in Transcripts : Len(t \o u) >= 2 /\ (t \o u)[2] = t[2]
           /\ \A m, n \in Messages :
                 Len(t \o <<m, n>>) >= 2 /\ (t \o <<m, n>>)[2] = t[2]
           /\ \A m, n, o, p \in Messages :
                 Len(t \o <<m, n, o, p>>) >= 2 /\ (t \o <<m, n, o, p>>)[2] = t[2]
BY DEF Transcripts

\* What each of the responder's handlers keeps.
LEMMA OfferedHandlers ==
    ASSUME TpmType, TpmOffered
    PROVE  /\ \A q \in Messages : TpmGetVersion(q) => TpmOffered'
           /\ \A q, a \in Messages :
                 tpmTranscript # << >> /\ TpmNegotiates(q, a) => TpmOffered'
           /\ \A source, nonce, sid, mut : \A th \in Transcripts :
                 /\ Len(th) >= 2 /\ th[2] = Message("VERSION", TpmVersions)
                 /\ TpmOpens(source, nonce, th, sid, mut)
                 => TpmOffered'
           /\ TpmAnswers => TpmOffered'
           /\ \A f \in Transcripts : tpmKey # ZeroKey /\ TpmFinishes(f) => TpmOffered'
           /\ TpmForgets => TpmOffered'
           /\ UNCHANGED tpmVars => TpmOffered'
<1>1. ASSUME NEW q \in Messages, TpmGetVersion(q) PROVE TpmOffered'
  <2>1. tpmTranscript' = <<q, Message("VERSION", TpmVersions)>> /\ tpmKey' = ZeroKey
    BY <1>1 DEF TpmGetVersion
  <2>. QED  BY <2>1 DEF TpmOffered
<1>2. ASSUME NEW q \in Messages, NEW a \in Messages, tpmTranscript # << >>,
             TpmNegotiates(q, a)
      PROVE  TpmOffered'
  <2>1. /\ Len(tpmTranscript) >= 2
        /\ tpmTranscript[2] = Message("VERSION", TpmVersions)
    BY <1>2 DEF TpmOffered
  <2>2. /\ Len(tpmTranscript') >= 2 /\ tpmTranscript'[2] = tpmTranscript[2]
    BY <1>2, <2>1, SecondStays DEF TpmNegotiates, TpmType
  <2>3. tpmTranscript' # << >>
    BY <2>2
  <2>. QED  BY <2>1, <2>2, <2>3 DEF TpmOffered
<1>3. ASSUME NEW source, NEW nonce, NEW sid, NEW mut, NEW th \in Transcripts,
             Len(th) >= 2, th[2] = Message("VERSION", TpmVersions),
             TpmOpens(source, nonce, th, sid, mut)
      PROVE  TpmOffered'
  <2>1. Bare("ResponderVerifyData") \in Messages
    BY MessageType DEF MessageNames
  <2>2. /\ Len(tpmTranscript') >= 2
        /\ tpmTranscript'[2] = Message("VERSION", TpmVersions)
    BY <1>3, <2>1, SecondStays DEF TpmOpens
  <2>3. tpmTranscript' # << >>
    BY <2>2
  <2>. QED  BY <2>2, <2>3 DEF TpmOffered
<1>4. TpmAnswers => TpmOffered'
  BY DEF TpmAnswers, TpmOffered
<1>5. ASSUME NEW f \in Transcripts, tpmKey # ZeroKey, TpmFinishes(f)
      PROVE  TpmOffered'
  <2>1. Bare("FINISH_RSP") \in Messages
    BY MessageType DEF MessageNames
  <2>2. /\ Len(tpmTranscript) >= 2
        /\ tpmTranscript[2] = Message("VERSION", TpmVersions)
    BY <1>5 DEF TpmOffered
  <2>3. tpmTranscript \o f \in Transcripts
    BY TranscriptType DEF TpmType
  <2>4. /\ Len(tpmTranscript \o f) >= 2
        /\ (tpmTranscript \o f)[2] = tpmTranscript[2]
    BY <2>2, SecondStays DEF TpmType
  <2>5. tpmTranscript' = (tpmTranscript \o f) \o <<Bare("FINISH_RSP")>>
    BY <1>5 DEF TpmFinishes
  <2>6. <<Bare("FINISH_RSP")>> \in Transcripts
    BY <2>1 DEF Transcripts
  <2>7. /\ Len(tpmTranscript') >= 2
        /\ tpmTranscript'[2] = Message("VERSION", TpmVersions)
    BY <2>2, <2>3, <2>4, <2>5, <2>6, SecondStays
  <2>8. tpmTranscript' # << >>
    BY <2>7
  <2>. QED  BY <2>7, <2>8 DEF TpmOffered
<1>6. TpmForgets => TpmOffered'
  BY DEF TpmForgets, TpmOffered
<1>7. UNCHANGED tpmVars => TpmOffered'
  BY DEF tpmVars, TpmOffered
<1>. QED  BY <1>1, <1>2, <1>3, <1>4, <1>5, <1>6, <1>7

LEMMA JoinedLength ==
    ASSUME NEW t \in Transcripts, NEW u \in Transcripts
    PROVE  t \o u \in Transcripts /\ Len(t) \in Nat /\ Len(t \o u) = Len(t) + Len(u)
BY DEF Transcripts

\* FINISH and PSK_FINISH end a handshake with a message of their own.
LEMMA FinishMessage ==
    ASSUME Finish \/ PskFinish
    PROVE  \E message \in Transcripts, verified \in {TRUE, FALSE} :
              Finishes(message, verified) /\ Len(message) <= 4
<1>1. /\ Bare("Cm") \in Messages /\ Bare("FINISH") \in Messages
      /\ Bare("Signature") \in Messages /\ Bare("RequesterVerifyData") \in Messages
  BY MessageType DEF MessageNames
<1>2. CASE PskFinish
  <2> DEFINE m == <<Bare("FINISH"), Bare("RequesterVerifyData")>>
  <2>1. m \in Transcripts /\ Len(m) <= 4
    BY <1>1 DEF Transcripts
  <2>2. Finishes(m, TRUE)
    BY <1>2, Zenon DEF PskFinish
  <2> HIDE DEF m
  <2>. QED  BY <2>1, <2>2
<1>3. CASE Finish
  <2> DEFINE signs == mutAuth /\ hasReqKeyPair
             cm  == IF signs /\ hasReqTpmt THEN <<Bare("Cm")>> ELSE << >>
             sig == IF signs THEN <<Bare("Signature")>> ELSE << >>
             fin == <<Bare("FINISH")>>
             rvd == <<Bare("RequesterVerifyData")>>
             m1  == cm \o fin
             m2  == m1 \o sig
             m3  == m2 \o rvd
             verified == tpmMut => signs /\ tpmHasPub
  <2>1. Finishes(m3, verified)
    BY <1>3, Zenon DEF Finish
  <2>2. /\ cm \in Transcripts /\ Len(cm) <= 1 /\ sig \in Transcripts /\ Len(sig) <= 1
        /\ fin \in Transcripts /\ Len(fin) = 1 /\ rvd \in Transcripts /\ Len(rvd) = 1
    BY <1>1 DEF Transcripts
  <2>3. verified \in {TRUE, FALSE}
    BY Zenon
  <2> HIDE DEF cm, sig, fin, rvd, verified
  <2>4. m1 \in Transcripts /\ Len(m1) <= 2
    <3>1. m1 \in Transcripts /\ Len(m1) = Len(cm) + Len(fin) /\ Len(cm) \in Nat
      BY <2>2, JoinedLength
    <3>. QED  BY <2>2, <3>1
  <2> HIDE DEF m1
  <2>5. m2 \in Transcripts /\ Len(m2) <= 3
    BY <2>2, <2>4, JoinedLength
  <2> HIDE DEF m2
  <2>6. m3 \in Transcripts /\ Len(m3) <= 4
    <3>1. m3 \in Transcripts /\ Len(m3) = Len(m2) + Len(rvd) /\ Len(m2) \in Nat
      BY <2>2, <2>5, JoinedLength
    <3>. QED  BY <2>2, <2>5, <3>1
  <2> HIDE DEF m3
  <2>. QED  BY <2>1, <2>3, <2>6
<1>. QED  BY <1>2, <1>3

\* Both key exchanges, seen from the responder: the session opens over its own
\* transcript, to which the exchange is appended.
LEMMA OfferedExchange ==
    ASSUME TypeOK, TpmOffered, KeyExchange \/ PskExchange
    PROVE  TpmOffered'
<1>1. TpmType /\ HistoryType /\ tpmTranscript \in Transcripts
  BY TypeParts DEF TpmType
<1>2. ASSUME tpmTranscript # << >>, NEW sid \in SessionIds, NEW q \in Messages
      PROVE  /\ TpmTh1(q, KeyExchangeRsp(sid)) \in Transcripts
             /\ Len(TpmTh1(q, KeyExchangeRsp(sid))) >= 2
             /\ TpmTh1(q, KeyExchangeRsp(sid))[2] = Message("VERSION", TpmVersions)
             /\ tpmTranscript \o <<q, PskExchangeRsp(sid)>> \in Transcripts
             /\ Len(tpmTranscript \o <<q, PskExchangeRsp(sid)>>) >= 2
             /\ (tpmTranscript \o <<q, PskExchangeRsp(sid)>>)[2]
                   = Message("VERSION", TpmVersions)
  <2>1. Len(tpmTranscript) >= 2 /\ tpmTranscript[2] = Message("VERSION", TpmVersions)
    BY <1>2 DEF TpmOffered
  <2>2. /\ Bare("Ct") \in Messages /\ Bare("Signature") \in Messages
        /\ KeyExchangeRsp(sid) \in Messages /\ PskExchangeRsp(sid) \in Messages
    BY <1>1, ExchangeMessages
  <2>. QED  BY <1>1, <2>1, <2>2, SecondStays, TranscriptType DEF TpmTh1
<1>3. BuildKeyExchange \in Messages /\ BuildPskExchange \in Messages
  BY <1>1, ExchangeMessages
<1>4. CASE KeyExchange
  <2>1. PICK sid \in SessionIds, mut \in MutAuth :
           \/ KeyExchangeLost(sid, mut)
           \/ \E damage \in {"none", "sig", "hmac"},
                 q \in Wire(BuildKeyExchange), r \in Wire(KeyExchangeRsp(sid)) :
                 ParseKeyExchangeRsp(sid, mut, damage, q, r)
    BY <1>4 DEF KeyExchange
  <2>2. PICK q \in Messages :
           \/ UNCHANGED tpmVars
           \/ /\ tpmTranscript # << >>
              /\ TpmOpens("ecdhe", epoch + 1, TpmTh1(q, KeyExchangeRsp(sid)), sid, mut)
    <3>1. CASE KeyExchangeLost(sid, mut)
      BY <1>3, <3>1, Zenon DEF KeyExchangeLost, NoAnswer
    <3>2. ASSUME NEW damage, NEW q \in Wire(BuildKeyExchange),
                 NEW r \in Wire(KeyExchangeRsp(sid)),
                 ParseKeyExchangeRsp(sid, mut, damage, q, r)
          PROVE  \E q1 \in Messages :
                    /\ tpmTranscript # << >>
                    /\ TpmOpens("ecdhe", epoch + 1, TpmTh1(q1, KeyExchangeRsp(sid)), sid, mut)
      <4>1. q \in Messages
        BY <1>3, WireType
      <4>2. /\ tpmTranscript # << >>
            /\ TpmOpens("ecdhe", epoch + 1, TpmTh1(q, KeyExchangeRsp(sid)), sid, mut)
        BY <3>2, Zenon DEF ParseKeyExchangeRsp
      <4>. QED  BY <4>1, <4>2
    <3>. QED  BY <2>1, <3>1, <3>2
  <2>. QED  BY <1>1, <1>2, <2>2, OfferedHandlers
<1>5. CASE PskExchange
  <2>1. PICK sid \in SessionIds :
           \/ PskExchangeLost(sid)
           \/ \E damage \in {"none", "hmac"},
                 q \in Wire(BuildPskExchange), r \in Wire(PskExchangeRsp(sid)) :
                 ParsePskExchangeRsp(sid, damage, q, r)
    BY <1>5 DEF PskExchange
  <2>2. PICK q \in Messages :
           \/ UNCHANGED tpmVars
           \/ /\ tpmTranscript # << >>
              /\ TpmOpens(tpmPsk, epoch + 1, tpmTranscript \o <<q, PskExchangeRsp(sid)>>,
                          sid, FALSE)
    <3>1. CASE PskExchangeLost(sid)
      BY <1>3, <3>1, Zenon DEF PskExchangeLost, NoAnswer
    <3>2. ASSUME NEW damage, NEW q \in Wire(BuildPskExchange),
                 NEW r \in Wire(PskExchangeRsp(sid)),
                 ParsePskExchangeRsp(sid, damage, q, r)
          PROVE  \E q1 \in Messages :
                    /\ tpmTranscript # << >>
                    /\ TpmOpens(tpmPsk, epoch + 1,
                          tpmTranscript \o <<q1, PskExchangeRsp(sid)>>, sid, FALSE)
      <4>1. q \in Messages
        BY <1>3, WireType
      <4>2. /\ tpmTranscript # << >>
            /\ TpmOpens(tpmPsk, epoch + 1, tpmTranscript \o <<q, PskExchangeRsp(sid)>>,
                        sid, FALSE)
        BY <3>2, Zenon DEF ParsePskExchangeRsp
      <4>. QED  BY <4>1, <4>2
    <3>. QED  BY <2>1, <3>1, <3>2
  <2>. QED  BY <1>1, <1>2, <2>2, OfferedHandlers
<1>. QED  BY <1>4, <1>5

LEMMA OfferedNext == TypeOK /\ TpmOffered /\ [Next]_vars => TpmOffered'
<1> SUFFICES ASSUME TypeOK, TpmOffered, [Next]_vars PROVE TpmOffered'
  OBVIOUS
<1>1. TpmType /\ CtxType
  BY TypeParts
<1>2. UNCHANGED tpmVars => TpmOffered'
  BY <1>1, OfferedHandlers
<1>3. ASSUME UNCHANGED <<tpmTranscript, tpmKey>> PROVE TpmOffered'
  BY <1>3 DEF TpmOffered
<1>4. CASE GetVersion
  <2>1. PICK q \in Messages : UNCHANGED tpmVars \/ TpmGetVersion(q)
    <3>1. Bare("GET_VERSION") \in Messages
      BY MessageType DEF MessageNames
    <3>2. \A q \in Wire(Bare("GET_VERSION")) : q \in Messages
      BY <3>1, WireType
    <3>. QED  BY <1>4, <3>1, <3>2, Zenon DEF GetVersion, NoAnswer
  <2>. QED  BY <1>1, <1>2, <2>1, OfferedHandlers
<1>5. CASE GetCapabilities \/ NegotiateAlgorithms
  <2>1. PICK request \in Messages, answer \in Messages : Negotiate(request, answer)
    BY <1>5, MessageType DEF GetCapabilities, NegotiateAlgorithms, MessageNames
  <2>2. PICK q \in Messages :
           UNCHANGED tpmVars \/ (tpmTranscript # << >> /\ TpmNegotiates(q, answer))
    <3>1. \A q \in Wire(request) : q \in Messages
      BY WireType
    <3>. QED  BY <2>1, <3>1, Zenon DEF Negotiate, NoAnswer
  <2>. QED  BY <1>1, <1>2, <2>2, OfferedHandlers
<1>6. CASE KeyExchange \/ PskExchange
  BY <1>6, OfferedExchange
<1>7. CASE Finish \/ PskFinish
  <2>1. PICK message \in Transcripts, verified \in {TRUE, FALSE} : Finishes(message, verified)
    BY <1>7, FinishMessage
  <2>2. UNCHANGED tpmVars \/ (tpmKey # ZeroKey /\ TpmFinishes(message))
       \/ TpmAnswers
    BY <2>1, Zenon DEF Finishes, SecuredOk, SecuredFails, Refused, TpmAccepts
  <2>. QED  BY <1>1, <1>2, <2>2, OfferedHandlers
<1>8. CASE GivePubStep \/ TpmCommand \/ SetOnlyMode \/ GivePubKey
  <2>1. UNCHANGED tpmVars \/ TpmAnswers
    BY <1>8, Zenon DEF GivePubStep, TpmCommand, SetOnlyMode, GivePubKey, SecuredCall,
       SecuredOk, SecuredFails, Refused, TpmTakesPub
  <2>. QED  BY <1>1, <1>2, <2>1, OfferedHandlers
<1>9. CASE Disconnect \/ TpmReset
  <2>1. UNCHANGED tpmVars \/ TpmForgets
    BY <1>9, Zenon DEF Disconnect, TpmReset, SecuredOk, SecuredFails
  <2>. QED  BY <1>1, <1>2, <2>1, OfferedHandlers
<1>10. CASE \/ StepAborts \/ GetPubKey \/ PskClear \/ PskClearWithVCA \/ Connect \/ Free
            \/ \E cb \in BOOLEAN : InitCtx(cb)
            \/ SetIO
            \/ \E m \in Modes : SetMode(m)
            \/ SetRequesterKeyPair \/ SetRequesterKeyTPMT
            \/ \E p \in Psks : SetPSK(p) \/ PskSet(p)
            \/ UNCHANGED vars
  <2>1. UNCHANGED <<tpmTranscript, tpmKey>>
    BY <1>10 DEF StepAborts, GetPubKey, PskClear, PskClearWithVCA, Connect, Free, InitCtx,
       SetIO, SetMode, SetRequesterKeyPair, SetRequesterKeyTPMT, SetPSK, PskSet,
       Configured, Provisioning, tpmVars, vars
  <2>. QED  BY <1>3, <2>1
<1>. QED
  BY <1>4, <1>5, <1>6, <1>7, <1>8, <1>9, <1>10 DEF Next, Step, Call

-----------------------------------------------------------------------------
(* The negotiated version and the transcript.                              *)

\* Equal transcripts end with the same message.
LEMMA LastMessage ==
    ASSUME NEW t \in Transcripts, NEW u \in Transcripts,
           NEW k, NEW l, NEW m \in Messages, NEW n \in Messages, NEW o \in Messages
    PROVE  /\ t \o <<k, m>> = u \o <<l, n, o>> => m = o
           /\ t \o <<k, m>> = u \o <<l, o>> => m = o
<1>1. ASSUME t \o <<k, m>> = u \o <<l, n, o>> PROVE m = o
  <2> DEFINE left == t \o <<k, m>>
             right == u \o <<l, n, o>>
  <2>1. left[Len(t) + 2] = m /\ Len(left) = Len(t) + 2
    BY DEF Transcripts
  <2>2. right[Len(u) + 3] = o /\ Len(right) = Len(u) + 3
    BY DEF Transcripts
  <2>. QED  BY <1>1, <2>1, <2>2
<1>2. ASSUME t \o <<k, m>> = u \o <<l, o>> PROVE m = o
  <2> DEFINE left == t \o <<k, m>>
             right == u \o <<l, o>>
  <2>1. left[Len(t) + 2] = m /\ Len(left) = Len(t) + 2
    BY DEF Transcripts
  <2>2. right[Len(u) + 2] = o /\ Len(right) = Len(u) + 2
    BY DEF Transcripts
  <2>. QED  BY <1>2, <2>1, <2>2
<1>. QED  BY <1>1, <1>2

\* A key exchange that succeeds leaves both sides with one transcript, hence
\* with the VERSION answer the responder sent.
LEMMA OpenedTogether ==
    ASSUME TypeOK, TpmOffered, VersionRecorded, KeyExchange \/ PskExchange
    PROVE  \/ StepFails
           \/ /\ pc' = NextStep /\ state' = "KEY_EX"
              /\ tpmKey' = dataKey' /\ tpmTranscript' = transcript'
              /\ tpmSession' = sessionId'
              /\ spdmVersion = Highest(Mutual(TpmVersions))
<1>1. TpmType /\ HistoryType /\ tpmTranscript \in Transcripts /\ transcript \in Transcripts
  BY TypeParts DEF TpmType, CtxType
<1>2. Len(transcript) >= 2 /\ spdmVersion = Highest(Mutual(transcript[2][2]))
  BY DEF VersionRecorded, KeyExchange, PskExchange
<1>3. tpmTranscript # << >> => /\ Len(tpmTranscript) >= 2
                               /\ tpmTranscript[2] = Message("VERSION", TpmVersions)
  BY DEF TpmOffered
<1>4. Message("VERSION", TpmVersions)[2] = TpmVersions
  BY DEF Message
<1>5. BuildKeyExchange \in Messages /\ BuildPskExchange \in Messages
  BY <1>1, ExchangeMessages
<1>6. CASE KeyExchange
  <2>1. PICK sid \in SessionIds, mut \in MutAuth :
           \/ KeyExchangeLost(sid, mut)
           \/ \E damage \in {"none", "sig", "hmac"},
                 q \in Wire(BuildKeyExchange), r \in Wire(KeyExchangeRsp(sid)) :
                 ParseKeyExchangeRsp(sid, mut, damage, q, r)
    BY <1>6 DEF KeyExchange
  <2>2. CASE KeyExchangeLost(sid, mut)
    BY <2>2 DEF KeyExchangeLost
  <2>3. ASSUME NEW damage, NEW q \in Wire(BuildKeyExchange),
               NEW r \in Wire(KeyExchangeRsp(sid)),
               ParseKeyExchangeRsp(sid, mut, damage, q, r), ~StepFails
        PROVE  /\ pc' = NextStep /\ state' = "KEY_EX"
               /\ tpmKey' = dataKey' /\ tpmTranscript' = transcript'
               /\ tpmSession' = sessionId'
               /\ spdmVersion = Highest(Mutual(TpmVersions))
    <3> DEFINE body == transcript \o <<BuildKeyExchange, r>>
               th1  == Append(body, Bare("Signature"))
               key  == HandshakeKey("ecdhe", epoch + 1, th1)
               full == Append(th1, Bare("ResponderVerifyData"))
               tth1 == TpmTh1(q, KeyExchangeRsp(sid))
    <3>1. /\ key = tpmKey' /\ dataKey' = key /\ transcript' = full
          /\ pc' = NextStep /\ state' = "KEY_EX"
          /\ tpmTranscript # << >>
          /\ body = tpmTranscript \o <<Bare("Ct"), q, KeyExchangeRsp(sid)>>
          /\ TpmOpens("ecdhe", epoch + 1, tth1, sid, mut)
      BY <2>3, Zenon DEF ParseKeyExchangeRsp
    <3>2. /\ tpmKey' = HandshakeKey("ecdhe", epoch + 1, tth1) /\ tpmSession' = sid
          /\ tpmTranscript' = Append(tth1, Bare("ResponderVerifyData"))
      BY <3>1, Zenon DEF TpmOpens
    <3>3. /\ q \in Messages /\ r \in Messages /\ KeyExchangeRsp(sid) \in Messages
          /\ Bare("Ct") \in Messages /\ Bare("Signature") \in Messages
      BY <1>1, <1>5, ExchangeMessages, WireType
    <3>4. body \in Transcripts /\ Len(body) >= 2 /\ body[2] = transcript[2]
      BY <1>1, <1>2, <1>5, <3>3, SecondStays, TranscriptType
    <3>5. th1[2] = transcript[2]
      BY <3>3, <3>4, SecondStays
    <3>6. tth1[2] = Message("VERSION", TpmVersions)
      BY <1>1, <1>3, <3>1, <3>3, SecondStays DEF TpmTh1
    <3>8. r = KeyExchangeRsp(sid)
      BY <1>1, <1>5, <3>1, <3>3, LastMessage
    <3>9. sessionId' = sid
      BY <2>3, <3>8 DEF ParseKeyExchangeRsp
    <3> HIDE DEF body, th1, key, full, tth1
    <3>7. th1 = tth1
      BY <3>1, <3>2 DEF HandshakeKey, key
    <3>. QED  BY <1>2, <1>4, <3>1, <3>2, <3>5, <3>6, <3>7, <3>9 DEF full
  <2>. QED  BY <2>1, <2>2, <2>3
<1>7. CASE PskExchange
  <2>1. PICK sid \in SessionIds :
           \/ PskExchangeLost(sid)
           \/ \E damage \in {"none", "hmac"},
                 q \in Wire(BuildPskExchange), r \in Wire(PskExchangeRsp(sid)) :
                 ParsePskExchangeRsp(sid, damage, q, r)
    BY <1>7 DEF PskExchange
  <2>2. CASE PskExchangeLost(sid)
    BY <2>2 DEF PskExchangeLost
  <2>3. ASSUME NEW damage, NEW q \in Wire(BuildPskExchange),
               NEW r \in Wire(PskExchangeRsp(sid)),
               ParsePskExchangeRsp(sid, damage, q, r), ~StepFails
        PROVE  /\ pc' = NextStep /\ state' = "KEY_EX"
               /\ tpmKey' = dataKey' /\ tpmTranscript' = transcript'
               /\ tpmSession' = sessionId'
               /\ spdmVersion = Highest(Mutual(TpmVersions))
    <3> DEFINE th1  == transcript \o <<BuildPskExchange, r>>
               key  == HandshakeKey(psk, epoch + 1, th1)
               full == Append(th1, Bare("ResponderVerifyData"))
               tth1 == tpmTranscript \o <<q, PskExchangeRsp(sid)>>
    <3>1. /\ key = tpmKey' /\ dataKey' = key /\ transcript' = full
          /\ pc' = NextStep /\ state' = "KEY_EX"
          /\ tpmTranscript # << >>
          /\ TpmOpens(tpmPsk, epoch + 1, tth1, sid, FALSE)
      BY <2>3, Zenon DEF ParsePskExchangeRsp
    <3>2. /\ tpmKey' = HandshakeKey(tpmPsk, epoch + 1, tth1) /\ tpmSession' = sid
          /\ tpmTranscript' = Append(tth1, Bare("ResponderVerifyData"))
      BY <3>1, Zenon DEF TpmOpens
    <3>3. q \in Messages /\ r \in Messages /\ PskExchangeRsp(sid) \in Messages
      BY <1>1, <1>5, ExchangeMessages, WireType
    <3>4. th1[2] = transcript[2]
      BY <1>1, <1>2, <1>5, <3>3, SecondStays
    <3>5. tth1[2] = Message("VERSION", TpmVersions)
      BY <1>1, <1>3, <3>1, <3>3, SecondStays
    <3> HIDE DEF key, full
    <3>6. th1 = tth1
      <4> HIDE DEF th1, tth1
      <4>. QED  BY <3>1, <3>2 DEF HandshakeKey, key
    <3>7. r = PskExchangeRsp(sid)
      BY <1>1, <3>3, <3>6, LastMessage
    <3>8. sessionId' = sid
      BY <2>3, <3>7 DEF ParsePskExchangeRsp
    <3> HIDE DEF th1, tth1
    <3>. QED  BY <1>2, <1>4, <3>1, <3>2, <3>4, <3>5, <3>6, <3>8 DEF full
  <2>. QED  BY <2>1, <2>2, <2>3
<1>. QED  BY <1>6, <1>7

LEMMA RecordedNext ==
    TypeOK /\ KeysInOrder /\ TpmOffered /\ VersionRecorded /\ [Next]_vars => VersionRecorded'
<1> SUFFICES ASSUME TypeOK, KeysInOrder, TpmOffered, VersionRecorded, [Next]_vars
             PROVE  VersionRecorded'
  OBVIOUS
<1>1. transcript \in Transcripts /\ TpmType /\ HistoryType
  BY TypeParts DEF CtxType
<1>2. pc' \in {"idle", "vca_version", "vca_caps", "vca_algo", "vca_clear"}
         => VersionRecorded'
  BY DEF VersionRecorded
<1>3. StepFails => VersionRecorded'
  BY <1>2 DEF StepFails
<1>4. ASSUME pc \in {"version", "vca_version"}, GetVersion PROVE VersionRecorded'
  <2> SUFFICES ASSUME ~StepFails PROVE VersionRecorded'
    BY <1>3
  <2>1. PICK r : /\ transcript' = transcript \o <<Bare("GET_VERSION"), r>>
                 /\ spdmVersion' = Highest(Mutual(r[2])) /\ pc' = NextStep
    BY <1>4, Zenon DEF GetVersion
  <2>2. CASE pc = "vca_version"
    BY <1>2, <2>1, <2>2 DEF NextStep
  <2>3. CASE pc = "version"
    <3>1. transcript = << >>
      BY <2>3 DEF VersionRecorded
    <3>2. transcript' = <<Bare("GET_VERSION"), r>>
      BY <2>1, <3>1
    <3>3. Len(transcript') >= 2 /\ transcript'[2] = r
      BY <3>2
    <3>4. pc' \in {"caps", "pubk", "pskex"}
      BY <2>1, <2>3 DEF NextStep
    <3>. QED  BY <2>1, <3>3, <3>4 DEF VersionRecorded
  <2>. QED  BY <1>4, <2>2, <2>3
<1>5. CASE GetCapabilities \/ NegotiateAlgorithms
  <2> SUFFICES ASSUME ~StepFails PROVE VersionRecorded'
    BY <1>3
  <2>1. PICK request \in Messages, answer \in Messages : Negotiate(request, answer)
    BY <1>5, MessageType DEF GetCapabilities, NegotiateAlgorithms, MessageNames
  <2>2. PICK r \in Wire(answer) :
           transcript' = transcript \o <<request, r>> /\ pc' = NextStep
    BY <2>1, Zenon DEF Negotiate, Wire
  <2>3. r \in Messages /\ UNCHANGED spdmVersion
    BY <2>1, WireType DEF Negotiate
  <2>4. CASE pc \in {"vca_caps", "vca_algo"}
    BY <1>2, <2>2, <2>4 DEF NextStep
  <2>5. CASE pc \in {"caps", "algo"}
    <3>1. Len(transcript) >= 2 /\ spdmVersion = Highest(Mutual(transcript[2][2]))
      BY <2>5 DEF VersionRecorded
    <3>2. Len(transcript') >= 2 /\ transcript'[2] = transcript[2]
      BY <1>1, <2>2, <2>3, <3>1, SecondStays
    <3>3. pc' \in {"algo", "pubk"}
      BY <2>2, <2>5 DEF NextStep
    <3>. QED  BY <2>3, <3>1, <3>2, <3>3 DEF VersionRecorded
  <2>. QED  BY <1>5, <2>4, <2>5 DEF GetCapabilities, NegotiateAlgorithms
<1>6. CASE GetPubKey
  <2> SUFFICES ASSUME ~StepFails PROVE VersionRecorded'
    BY <1>3
  <2>1. PICK ct \in Wire(Bare("Ct")) :
           transcript' = Append(transcript, ct) /\ pc' = NextStep
    BY <1>6 DEF GetPubKey
  <2>2. ct \in Messages /\ UNCHANGED spdmVersion /\ pc = "pubk"
    BY <1>1, <1>6, ExchangeMessages, WireType DEF GetPubKey
  <2>3. Len(transcript) >= 2 /\ spdmVersion = Highest(Mutual(transcript[2][2]))
    BY <2>2 DEF VersionRecorded
  <2>4. Len(transcript') >= 2 /\ transcript'[2] = transcript[2]
    BY <1>1, <2>1, <2>2, <2>3, SecondStays
  <2>5. pc' = "keyex"
    BY <2>1, <2>2 DEF NextStep
  <2>. QED  BY <2>2, <2>3, <2>4, <2>5 DEF VersionRecorded
<1>7. CASE KeyExchange \/ PskExchange
  <2> SUFFICES ASSUME ~StepFails PROVE VersionRecorded'
    BY <1>3
  <2>1. /\ pc' = NextStep /\ tpmKey' = dataKey' /\ tpmTranscript' = transcript'
        /\ spdmVersion = Highest(Mutual(TpmVersions))
    BY <1>7, OpenedTogether
  <2>2. UNCHANGED spdmVersion /\ pc \in {"keyex", "pskex"}
    BY <1>7 DEF KeyExchange, PskExchange
  <2>3. pc' \in {"givepub", "finish", "pskfin"}
    BY <2>1, <2>2 DEF NextStep
  <2>. QED  BY <2>1, <2>2, <2>3 DEF VersionRecorded
<1>8. CASE GivePubStep
  <2> SUFFICES ASSUME ~StepFails PROVE VersionRecorded'
    BY <1>3
  <2>1. /\ pc = "givepub" /\ pc' = NextStep
        /\ UNCHANGED <<spdmVersion, transcript, dataKey, tpmTranscript, tpmKey>>
    BY <1>8, Zenon DEF GivePubStep, SecuredOk, TpmTakesPub, TpmAnswers
  <2>2. pc' = "finish"
    BY <2>1 DEF NextStep
  <2>. QED  BY <2>1, <2>2 DEF VersionRecorded
<1>9. CASE TpmReset
  <2>1. /\ tpmKey' = ZeroKey
        /\ UNCHANGED <<pc, spdmVersion, transcript, dataKey>>
    BY <1>9 DEF TpmReset, TpmForgets, session
  <2>2. pc \in {"givepub", "finish", "pskfin"} => tpmKey' # dataKey'
    BY <2>1 DEF KeysInOrder, ZeroKey
  <2>. QED  BY <2>1, <2>2 DEF VersionRecorded
<1>10. CASE Connect
  <2>1. pc' = "version" /\ transcript' = << >>
    BY <1>10 DEF Connect, TranscriptReset
  <2>. QED  BY <2>1 DEF VersionRecorded
<1>11. CASE \/ StepAborts \/ Finish \/ PskFinish \/ PskClear \/ PskClearWithVCA \/ Free
            \/ \E cb \in BOOLEAN : InitCtx(cb)
            \/ SetIO
            \/ \E m \in Modes : SetMode(m)
            \/ SetRequesterKeyPair \/ SetRequesterKeyTPMT
            \/ \E p \in Psks : SetPSK(p) \/ PskSet(p)
            \/ TpmCommand \/ SetOnlyMode \/ GivePubKey \/ Disconnect
  <2>1. CASE Finish \/ PskFinish
    BY <1>2, <2>1, Zenon DEF Finish, PskFinish, Finishes, StepFails
  <2>2. CASE ~(Finish \/ PskFinish)
    <3>1. pc' \in {"idle", "vca_version"}
      BY <1>11, <2>2 DEF StepAborts, PskClear, PskClearWithVCA, Free, InitCtx, SetIO, SetMode,
         SetRequesterKeyPair, SetRequesterKeyTPMT, SetPSK, PskSet, TpmCommand,
         SetOnlyMode, GivePubKey, SecuredCall, Disconnect, Configured, Idle, StepFails
    <3>. QED  BY <1>2, <3>1
  <2>. QED  BY <2>1, <2>2
<1>12. CASE UNCHANGED vars
  BY <1>12 DEF vars, session, tpmVars, VersionRecorded
<1>. QED
  BY <1>4, <1>5, <1>6, <1>7, <1>8, <1>9, <1>10, <1>11, <1>12
  DEF Next, Step, Call, GetVersion

-----------------------------------------------------------------------------
(* The session, and the channel it implements.                             *)

\* While a session is reported its key is not the zero one.
LEMMA SessionKeyIsSet ==
    ASSUME ConnectedMeans, state = "CONNECTED"
    PROVE  dataKey # ZeroKey
BY DEF ConnectedMeans, ZeroKey

\* What a record does to a session: it is carried, or the ends lose step.
LEMMA RecordInSession ==
    ASSUME TypeOK, ConnectedMeans, state = "CONNECTED", NEW handles,
           handles => TpmAnswers, SecuredCall(handles)
    PROVE  /\ UNCHANGED <<state, pc, dataKey>>
           /\ \/ InStep /\ InStep' /\ rspSeqNum' = rspSeqNum + 1
              \/ ~InStep' /\ UNCHANGED rspSeqNum
           /\ tpmKey' = dataKey' => tpmReqSeq' <= reqSeqNum' /\ rspSeqNum' <= tpmRspSeq'
<1>1. /\ UNCHANGED <<state, pc, dataKey, sessionId>> /\ reqSeqNum' = reqSeqNum + 1
      /\ \/ SecuredOk(TpmAccepts, handles) /\ rspSeqNum' = rspSeqNum + 1
         \/ SecuredFails(TpmAccepts, handles) /\ UNCHANGED rspSeqNum
  BY DEF SecuredCall
<1>2. /\ reqSeqNum \in Nat /\ rspSeqNum \in Nat /\ tpmReqSeq \in Nat /\ tpmRspSeq \in Nat
      /\ tpmKey = dataKey => tpmReqSeq <= reqSeqNum /\ rspSeqNum <= tpmRspSeq
  BY DEF TypeOK, ConnectedMeans
<1>3. TpmAccepts /\ DecryptOk => InStep
  BY DEF TpmAccepts, DecryptOk, InStep
<1>4. CASE SecuredOk(TpmAccepts, handles) /\ rspSeqNum' = rspSeqNum + 1
  <2>1. InStep /\ TpmAnswers
    BY <1>3, <1>4 DEF SecuredOk
  <2>. QED  BY <1>1, <1>2, <1>4, <2>1 DEF InStep, TpmAnswers
<1>5. CASE SecuredFails(TpmAccepts, handles) /\ UNCHANGED rspSeqNum
  <2>1. \/ UNCHANGED tpmVars
        \/ TpmAnswers /\ TpmAccepts
    BY <1>5 DEF SecuredFails
  <2>2. CASE UNCHANGED tpmVars
    BY <1>1, <1>2, <1>5, <2>2 DEF InStep, tpmVars
  <2>3. CASE TpmAnswers /\ TpmAccepts
    BY <1>1, <1>2, <1>5, <2>3 DEF InStep, TpmAnswers, TpmAccepts
  <2>. QED  BY <2>1, <2>2, <2>3
<1>. QED  BY <1>1, <1>4, <1>5

\* The end of a handshake: the session begins with both ends agreeing.
LEMMA FinishAgrees ==
    ASSUME TypeOK, VersionRecorded, pc \in {"finish", "pskfin"},
           NEW message \in Transcripts, NEW verified, Finishes(message, verified)
    PROVE  /\ pc' = "idle"
           /\ \/ state' = "ERROR"
              \/ /\ state' = "CONNECTED"
                 /\ Agreement' /\ reqSeqNum' = 0 /\ rspSeqNum' = 0
<1> DEFINE th2  == Append(transcript \o message, Bare("FINISH_RSP"))
           tth2 == tpmTranscript \o message \o <<Bare("FINISH_RSP")>>
<1>1. UNCHANGED <<spdmVersion, sessionId>>
  BY DEF Finishes
<1>2. \/ StepFails
      \/ /\ TpmAccepts /\ TpmFinishes(message)
         /\ transcript' = th2 /\ dataKey' = AppKey(dataKey, th2)
         /\ Restart /\ state' = "CONNECTED" /\ pc' = "idle"
  BY Zenon DEF Finishes, SecuredOk
<1>3. CASE StepFails
  BY <1>3 DEF StepFails
<1>4. CASE /\ TpmAccepts /\ TpmFinishes(message)
           /\ transcript' = th2 /\ dataKey' = AppKey(dataKey, th2)
           /\ Restart /\ state' = "CONNECTED" /\ pc' = "idle"
  <2>1. /\ tpmKey = dataKey /\ tpmSession = sessionId
        /\ tpmTranscript = transcript
        /\ spdmVersion = Highest(Mutual(TpmVersions))
    BY <1>4 DEF TpmAccepts, VersionRecorded
  <2>2. /\ tpmTranscript' = tth2 /\ tpmKey' = AppKey(tpmKey, tth2)
        /\ tpmReqSeq' = 0 /\ tpmRspSeq' = 0 /\ UNCHANGED tpmSession
    BY <1>4, Zenon DEF TpmFinishes
  <2>3. th2 = tth2
    BY <2>1
  <2> HIDE DEF th2, tth2
  <2>4. dataKey'.phase = "app" /\ tpmKey' = dataKey'
    BY <1>4, <2>1, <2>2, <2>3 DEF AppKey
  <2>. QED  BY <1>1, <1>4, <2>1, <2>2, <2>4 DEF Agreement, Restart
<1>. QED  BY <1>2, <1>3, <1>4

\* A step seen from above: the context's state and numbers, and whether the
\* ends agree, in the five ways a step may change them.
Status  == IF state # "CONNECTED" THEN "closed" ELSE IF InStep THEN "open" ELSE "broken"
Carried == IF state = "CONNECTED" THEN rspSeqNum ELSE 0

StepSeen ==
    \/ state' # "CONNECTED"
    \/ state # "CONNECTED" /\ state' = "CONNECTED" /\ Agreement' /\ rspSeqNum' = 0
    \/ /\ state = "CONNECTED" /\ state' = "CONNECTED"
       /\ \/ InStep /\ InStep' /\ rspSeqNum' = rspSeqNum + 1
          \/ ~InStep' /\ UNCHANGED rspSeqNum
          \/ InStep' = InStep /\ UNCHANGED rspSeqNum

\* A step in which neither the context's session nor the responder's changes.
LEMMA SessionQuiet ==
    ASSUME ConnectedMeans, state' # "CONNECTED" \/ UNCHANGED state,
           UNCHANGED <<session, tpmKey, tpmSession, tpmReqSeq, tpmRspSeq>>,
           pc' \in {"idle", "vca_version"} \/ pc' = pc
    PROVE  ConnectedMeans' /\ StepSeen
BY DEF ConnectedMeans, StepSeen, InStep, session

\* A step in which the responder loses its session.
LEMMA SessionLost ==
    ASSUME ConnectedMeans, state' # "CONNECTED" \/ UNCHANGED state,
           UNCHANGED session, tpmKey' = ZeroKey,
           pc' \in {"idle", "vca_version"} \/ pc' = pc
    PROVE  ConnectedMeans' /\ StepSeen
<1>1. CASE state' # "CONNECTED"
  BY <1>1 DEF ConnectedMeans, StepSeen
<1>2. CASE state' = "CONNECTED"
  <2>1. state = "CONNECTED" /\ dataKey # ZeroKey
    BY <1>2, SessionKeyIsSet
  <2>2. dataKey' # ZeroKey /\ UNCHANGED <<dataKey, rspSeqNum>>
    BY <2>1 DEF session
  <2>3. ~InStep'
    BY <2>2 DEF InStep
  <2>. QED  BY <1>2, <2>1, <2>2, <2>3 DEF ConnectedMeans, StepSeen
<1>. QED  BY <1>1, <1>2

LEMMA ConnectedNext ==
    TypeOK /\ VersionRecorded /\ ConnectedMeans /\ [Next]_vars => ConnectedMeans' /\ StepSeen
<1> SUFFICES ASSUME TypeOK, VersionRecorded, ConnectedMeans, [Next]_vars
             PROVE  ConnectedMeans' /\ StepSeen
  OBVIOUS
<1>1. state' # "CONNECTED" => ConnectedMeans' /\ StepSeen
  BY DEF ConnectedMeans, StepSeen
<1>2. pc \notin {"idle", "vca_version"} => state # "CONNECTED"
  BY DEF ConnectedMeans
<1>3. pc \notin {"idle", "vca_version"} /\ StepFails => ConnectedMeans' /\ StepSeen
  BY <1>1, <1>2 DEF StepFails
<1>4. CASE StepAborts
  <2>1. pc' = "idle" /\ (state' # "CONNECTED" \/ UNCHANGED state)
    BY <1>4 DEF StepAborts, StepFails
  <2>. QED  BY <1>4, <2>1, SessionQuiet DEF StepAborts, tpmVars
<1>5. CASE GetVersion
  <2>1. /\ UNCHANGED session
        /\ state' = "VERSION" \/ StepFails
        /\ UNCHANGED tpmVars \/ tpmKey' = ZeroKey
    BY <1>5, Zenon DEF GetVersion, NoAnswer, TpmGetVersion
  <2>2. CASE state' = "VERSION"
    BY <1>1, <2>2
  <2>3. CASE StepFails
    <3>1. pc' = "idle" /\ (state' # "CONNECTED" \/ UNCHANGED state)
      BY <2>3 DEF StepFails
    <3>. QED  BY <2>1, <3>1, SessionQuiet, SessionLost DEF tpmVars
  <2>. QED  BY <2>1, <2>2, <2>3
<1>6. CASE GetCapabilities \/ NegotiateAlgorithms
  <2>1. PICK request, answer : Negotiate(request, answer)
    BY <1>6 DEF GetCapabilities, NegotiateAlgorithms
  <2>2. StepFails \/ UNCHANGED state
    BY <2>1 DEF Negotiate
  <2>3. pc \notin {"idle", "vca_version"}
    BY <1>6 DEF GetCapabilities, NegotiateAlgorithms
  <2>. QED  BY <1>1, <1>2, <1>3, <2>2, <2>3
<1>7. CASE GetPubKey
  <2>1. (StepFails \/ state' = "CERT") /\ pc = "pubk"
    BY <1>7 DEF GetPubKey
  <2>. QED  BY <1>1, <1>3, <2>1
<1>8. CASE KeyExchange
  <2>1. StepFails \/ state' = "KEY_EX"
    <3>1. PICK sid, mut : KeyExchangeLost(sid, mut)
                          \/ \E damage, q, r : ParseKeyExchangeRsp(sid, mut, damage, q, r)
      BY <1>8 DEF KeyExchange
    <3>. QED  BY <3>1, Zenon DEF KeyExchangeLost, ParseKeyExchangeRsp
  <2>2. pc = "keyex"
    BY <1>8 DEF KeyExchange
  <2>. QED  BY <1>1, <1>3, <2>1, <2>2
<1>9. CASE PskExchange
  <2>1. StepFails \/ state' = "KEY_EX"
    BY <1>9, Zenon DEF PskExchange, PskExchangeLost, ParsePskExchangeRsp
  <2>2. pc = "pskex"
    BY <1>9 DEF PskExchange
  <2>. QED  BY <1>1, <1>3, <2>1, <2>2
<1>10. CASE GivePubStep
  <2>1. (StepFails \/ UNCHANGED state) /\ pc = "givepub"
    BY <1>10 DEF GivePubStep
  <2>. QED  BY <1>1, <1>2, <1>3, <2>1
<1>11. CASE Finish \/ PskFinish
  <2>1. PICK message \in Transcripts, verified \in {TRUE, FALSE} : Finishes(message, verified)
    BY <1>11, FinishMessage
  <2>2. pc \in {"finish", "pskfin"}
    BY <1>11 DEF Finish, PskFinish
  <2>3. /\ pc' = "idle"
        /\ \/ state' = "ERROR"
           \/ state' = "CONNECTED" /\ Agreement' /\ reqSeqNum' = 0 /\ rspSeqNum' = 0
    BY <2>1, <2>2, FinishAgrees
  <2>4. CASE state' = "ERROR"
    BY <1>1, <2>4
  <2>5. CASE state' = "CONNECTED" /\ Agreement' /\ reqSeqNum' = 0 /\ rspSeqNum' = 0
    <3>1. ConnectedMeans'
      BY <2>3, <2>5 DEF Agreement, ConnectedMeans
    <3>. QED  BY <1>2, <2>2, <2>5, <3>1 DEF StepSeen
  <2>. QED  BY <2>3, <2>4, <2>5
<1>12. CASE TpmCommand \/ SetOnlyMode \/ GivePubKey
  <2>1. PICK handles \in {TpmAnswers /\ UNCHANGED tpmHasPub, TpmTakesPub} :
           SecuredCall(handles) /\ (handles => TpmAnswers)
    <3>1. TpmTakesPub => TpmAnswers
      BY DEF TpmTakesPub
    <3>2. CASE TpmCommand \/ SetOnlyMode
      BY <3>2, Zenon DEF TpmCommand, SetOnlyMode
    <3>3. CASE GivePubKey
      BY <3>1, <3>3, Zenon DEF GivePubKey
    <3>. QED  BY <1>12, <3>2, <3>3
  <2>2. UNCHANGED state
    BY <2>1 DEF SecuredCall
  <2>3. CASE state # "CONNECTED"
    BY <1>1, <2>2, <2>3
  <2>4. CASE state = "CONNECTED"
    <3>1. /\ UNCHANGED <<state, pc, dataKey>>
          /\ \/ InStep /\ InStep' /\ rspSeqNum' = rspSeqNum + 1
             \/ ~InStep' /\ UNCHANGED rspSeqNum
          /\ tpmKey' = dataKey' => tpmReqSeq' <= reqSeqNum' /\ rspSeqNum' <= tpmRspSeq'
      BY <2>1, <2>4, RecordInSession
    <3>. QED  BY <2>4, <3>1 DEF ConnectedMeans, StepSeen
  <2>. QED  BY <2>3, <2>4
<1>13. CASE Disconnect \/ Free \/ Connect
  <2>1. state' = "INIT"
    BY <1>13 DEF Disconnect, Free, Connect, Erase
  <2>. QED  BY <1>1, <2>1
<1>14. CASE TpmReset
  BY <1>14, SessionLost DEF TpmReset, TpmForgets
<1>15. CASE \/ PskClear \/ PskClearWithVCA
            \/ \E cb \in BOOLEAN : InitCtx(cb)
            \/ SetIO
            \/ \E m \in Modes : SetMode(m)
            \/ SetRequesterKeyPair \/ SetRequesterKeyTPMT
            \/ \E p \in Psks : SetPSK(p) \/ PskSet(p)
  <2>1. /\ UNCHANGED <<session, tpmKey, tpmSession, tpmReqSeq, tpmRspSeq>>
        /\ state' # "CONNECTED" \/ UNCHANGED state
        /\ pc' \in {"idle", "vca_version"} \/ pc' = pc
    BY <1>15 DEF PskClear, PskClearWithVCA, InitCtx, SetIO, SetMode, SetRequesterKeyPair,
       SetRequesterKeyTPMT, SetPSK, PskSet, Configured, Provisioning, tpmVars, StepFails
  <2>. QED  BY <2>1, SessionQuiet
<1>16. CASE UNCHANGED vars
  BY <1>16, SessionQuiet DEF vars, tpmVars
<1>. QED
  BY <1>4, <1>5, <1>6, <1>7, <1>8, <1>9, <1>10, <1>11, <1>12, <1>13, <1>14, <1>15, <1>16
  DEF Next, Step, Call

LEMMA InSessionInit == Init => InSession
<1> SUFFICES ASSUME Init PROVE InSession
  OBVIOUS
<1>1. KeysInOrder
  BY DEF Init, KeysInOrder, ZeroKey
<1>2. TpmOffered /\ VersionRecorded /\ ConnectedMeans
  BY DEF Init, TpmOffered, VersionRecorded, ConnectedMeans
<1>. QED  BY <1>1, <1>2, TypeInit DEF InSession

LEMMA InSessionNext == InSession /\ [Next]_vars => InSession' /\ StepSeen
BY TypeNext, KeysNext, OfferedNext, RecordedNext, ConnectedNext DEF InSession

\* Whatever was lost, altered or reset on the way, and for any versions on
\* offer: when wolfSPDM_Connect reports a session, both ends hold one key and
\* session id, number their records alike, and run the highest version both
\* support.
THEOREM ConnectMeansAgreement == Spec => ConnectAgrees
<1>1. StepSeen => (state # "CONNECTED" /\ state' = "CONNECTED" => Agreement')
  BY DEF StepSeen
<1>. QED
  BY <1>1, InSessionInit, InSessionNext, PTL DEF Spec, ConnectAgrees

\* A step of the requester, the bus or the responder is a step of the channel
\* or leaves it as it is.
LEMMA StepIsChannels ==
    ASSUME InSession, StepSeen
    PROVE  [Channel!Next]_<<Status, Carried>>
<1> USE DEF Status, Carried
<1>1. CASE state' # "CONNECTED"
  <2>1. CASE state = "CONNECTED"
    <3>1. Channel!Close
      BY <1>1, <2>1 DEF Channel!Close
    <3>. QED  BY <3>1 DEF Channel!Next
  <2>. QED  BY <1>1, <2>1
<1>2. CASE state # "CONNECTED" /\ state' = "CONNECTED" /\ Agreement' /\ rspSeqNum' = 0
  <2>1. InStep'
    BY <1>2 DEF Agreement, InStep
  <2>2. Channel!Open
    BY <1>2, <2>1 DEF Channel!Open
  <2>. QED  BY <2>2 DEF Channel!Next
<1>3. CASE state = "CONNECTED" /\ state' = "CONNECTED"
  <2>1. CASE InStep /\ InStep' /\ rspSeqNum' = rspSeqNum + 1
    <3>1. Channel!Carry
      BY <1>3, <2>1 DEF Channel!Carry
    <3>. QED  BY <3>1 DEF Channel!Next
  <2>2. CASE ~InStep' /\ UNCHANGED rspSeqNum
    <3>1. CASE InStep
      <4>1. Channel!Break
        BY <1>3, <2>2, <3>1 DEF Channel!Break
      <4>. QED  BY <4>1 DEF Channel!Next
    <3>. QED  BY <1>3, <2>2, <3>1
  <2>3. CASE InStep' = InStep /\ UNCHANGED rspSeqNum
    BY <1>3, <2>3
  <2>4. ~ (state' # "CONNECTED" \/ state # "CONNECTED")
    BY <1>3
  <2>. QED  BY <2>1, <2>2, <2>3, <2>4 DEF StepSeen
<1>. QED  BY <1>1, <1>2, <1>3 DEF StepSeen

\* The session implements the channel: an exchange is carried only between
\* ends in step, and a channel that once lost a record carries nothing until
\* it is closed and opened again.
THEOREM ChannelImplemented == Spec => ChannelSafe
<1>1. Init => Channel!Init
  BY DEF Init, Channel!Init
<1>2. InSession /\ StepSeen => [Channel!Next]_<<Status, Carried>>
  BY StepIsChannels
<1>. QED
  BY <1>1, <1>2, InSessionInit, InSessionNext, PTL
  DEF Spec, ChannelSafe, Channel!Spec, Status, Carried

-----------------------------------------------------------------------------
(* The room in the transcript.                                             *)

LEMMA Lengths ==
    ASSUME NEW t \in Transcripts
    PROVE  /\ Len(t) \in Nat
           /\ \A m \in Messages : Len(Append(t, m)) = Len(t) + 1
           /\ \A m, n \in Messages : Len(t \o <<m, n>>) = Len(t) + 2
BY DEF Transcripts

\* What either key exchange adds: at most the exchange, signature and HMAC.
LEMMA ExchangeAdds ==
    ASSUME TypeOK, KeyExchange \/ PskExchange
    PROVE  /\ Len(transcript') \in Nat
           /\ KeyExchange => Len(transcript') <= Len(transcript) + 4
           /\ PskExchange => Len(transcript') <= Len(transcript) + 3
           /\ pc' \in {"idle", "givepub", "finish", "pskfin"}
<1>1. HistoryType /\ transcript \in Transcripts
  BY TypeParts DEF CtxType
<1>2. pc \in {"keyex", "pskex"} /\ (StepFails \/ pc' = NextStep)
  <2>1. CASE KeyExchange
    <3>1. PICK sid, mut : KeyExchangeLost(sid, mut)
                          \/ \E damage, q, r : ParseKeyExchangeRsp(sid, mut, damage, q, r)
      BY <2>1 DEF KeyExchange
    <3>2. StepFails \/ pc' = NextStep
      BY <3>1, Zenon DEF KeyExchangeLost, ParseKeyExchangeRsp
    <3>. QED  BY <2>1, <3>2 DEF KeyExchange
  <2>2. CASE PskExchange
    <3>1. StepFails \/ pc' = NextStep
      BY <2>2, Zenon DEF PskExchange, PskExchangeLost, ParsePskExchangeRsp
    <3>. QED  BY <2>2, <3>1 DEF PskExchange
  <2>. QED  BY <2>1, <2>2
<1>3. pc' \in {"idle", "givepub", "finish", "pskfin"}
  BY <1>2 DEF StepFails, NextStep
<1>4. Bare("Signature") \in Messages /\ Bare("ResponderVerifyData") \in Messages
  BY <1>1, ExchangeMessages
<1>5. ASSUME NEW m \in Messages, NEW r \in Messages
      PROVE  LET body == transcript \o <<m, r>>
                 th1  == Append(body, Bare("Signature"))
             IN  /\ Len(Append(transcript, m)) = Len(transcript) + 1
                 /\ Len(body) = Len(transcript) + 2
                 /\ Len(th1) = Len(transcript) + 3
                 /\ Len(Append(body, Bare("ResponderVerifyData"))) = Len(transcript) + 3
                 /\ Len(Append(th1, Bare("ResponderVerifyData"))) = Len(transcript) + 4
  <2> DEFINE body == transcript \o <<m, r>>
             th1  == Append(body, Bare("Signature"))
  <2>1. body \in Transcripts /\ Len(body) = Len(transcript) + 2
    BY <1>1, Lengths, TranscriptType
  <2>2. Len(Append(transcript, m)) = Len(transcript) + 1 /\ Len(transcript) \in Nat
    BY <1>1, Lengths
  <2> HIDE DEF body
  <2>3. th1 \in Transcripts /\ Len(th1) = Len(body) + 1
    BY <1>4, <2>1, Lengths, TranscriptType
  <2>4. Len(Append(body, Bare("ResponderVerifyData"))) = Len(body) + 1
    BY <1>4, <2>1, Lengths
  <2> HIDE DEF th1
  <2>5. Len(Append(th1, Bare("ResponderVerifyData"))) = Len(th1) + 1
    BY <1>4, <2>3, Lengths
  <2>6. /\ Len(th1) = Len(transcript) + 3
        /\ Len(Append(body, Bare("ResponderVerifyData"))) = Len(transcript) + 3
        /\ Len(Append(th1, Bare("ResponderVerifyData"))) = Len(transcript) + 4
    BY <2>1, <2>2, <2>3, <2>4, <2>5
  <2>. QED  BY <2>1, <2>2, <2>6 DEF body, th1
<1>6. CASE KeyExchange
  <2>1. PICK sid \in SessionIds, mut \in MutAuth :
           \/ KeyExchangeLost(sid, mut)
           \/ \E damage \in {"none", "sig", "hmac"},
                 q \in Wire(BuildKeyExchange), r \in Wire(KeyExchangeRsp(sid)) :
                 ParseKeyExchangeRsp(sid, mut, damage, q, r)
    BY <1>6 DEF KeyExchange
  <2>2. BuildKeyExchange \in Messages /\ KeyExchangeRsp(sid) \in Messages
    BY <1>1, ExchangeMessages
  <2>3. PICK r \in Messages :
           LET body == transcript \o <<BuildKeyExchange, r>>
               th1  == Append(body, Bare("Signature"))
           IN  transcript' \in {Append(transcript, BuildKeyExchange), body, th1,
                                Append(th1, Bare("ResponderVerifyData"))}
    <3>1. CASE KeyExchangeLost(sid, mut)
      BY <2>2, <3>1, Zenon DEF KeyExchangeLost
    <3>2. ASSUME NEW damage, NEW q, NEW r \in Wire(KeyExchangeRsp(sid)),
                 ParseKeyExchangeRsp(sid, mut, damage, q, r)
          PROVE  LET body == transcript \o <<BuildKeyExchange, r>>
                     th1  == Append(body, Bare("Signature"))
                 IN  transcript' \in {Append(transcript, BuildKeyExchange), body, th1,
                                      Append(th1, Bare("ResponderVerifyData"))}
      BY <3>2, Zenon DEF ParseKeyExchangeRsp
    <3>3. \A r \in Wire(KeyExchangeRsp(sid)) : r \in Messages
      BY <2>2, WireType
    <3>. QED  BY <2>1, <3>1, <3>2, <3>3, Zenon
  <2> DEFINE body == transcript \o <<BuildKeyExchange, r>>
             th1  == Append(body, Bare("Signature"))
             full == Append(th1, Bare("ResponderVerifyData"))
             one  == Append(transcript, BuildKeyExchange)
  <2>4. /\ Len(one) = Len(transcript) + 1 /\ Len(body) = Len(transcript) + 2
        /\ Len(th1) = Len(transcript) + 3 /\ Len(full) = Len(transcript) + 4
    BY <1>5, <2>2
  <2>5. transcript' \in {one, body, th1, full}
    BY <2>3
  <2> HIDE DEF one, body, th1, full
  <2>6. Len(transcript) \in Nat
    BY <1>1, Lengths
  <2>7. ~PskExchange
    BY <1>6 DEF KeyExchange, PskExchange
  <2>. QED  BY <1>3, <2>4, <2>5, <2>6, <2>7
<1>7. CASE PskExchange
  <2>1. PICK sid \in SessionIds :
           \/ PskExchangeLost(sid)
           \/ \E damage \in {"none", "hmac"},
                 q \in Wire(BuildPskExchange), r \in Wire(PskExchangeRsp(sid)) :
                 ParsePskExchangeRsp(sid, damage, q, r)
    BY <1>7 DEF PskExchange
  <2>2. BuildPskExchange \in Messages /\ PskExchangeRsp(sid) \in Messages
    BY <1>1, ExchangeMessages
  <2>3. PICK r \in Messages :
           LET body == transcript \o <<BuildPskExchange, r>>
           IN  transcript' \in {Append(transcript, BuildPskExchange), body,
                                Append(body, Bare("ResponderVerifyData"))}
    <3>1. CASE PskExchangeLost(sid)
      BY <2>2, <3>1, Zenon DEF PskExchangeLost
    <3>2. ASSUME NEW damage, NEW q, NEW r \in Wire(PskExchangeRsp(sid)),
                 ParsePskExchangeRsp(sid, damage, q, r)
          PROVE  LET body == transcript \o <<BuildPskExchange, r>>
                 IN  transcript' \in {Append(transcript, BuildPskExchange), body,
                                      Append(body, Bare("ResponderVerifyData"))}
      BY <3>2, Zenon DEF ParsePskExchangeRsp
    <3>3. \A r \in Wire(PskExchangeRsp(sid)) : r \in Messages
      BY <2>2, WireType
    <3>. QED  BY <2>1, <3>1, <3>2, <3>3, Zenon
  <2> DEFINE body == transcript \o <<BuildPskExchange, r>>
             full == Append(body, Bare("ResponderVerifyData"))
             one  == Append(transcript, BuildPskExchange)
  <2>4. /\ Len(one) = Len(transcript) + 1 /\ Len(body) = Len(transcript) + 2
        /\ Len(full) = Len(transcript) + 3
    BY <1>5, <2>2
  <2>5. transcript' \in {one, body, full}
    BY <2>3
  <2> HIDE DEF one, body, full
  <2>6. Len(transcript) \in Nat
    BY <1>1, Lengths
  <2>7. ~KeyExchange
    BY <1>7 DEF KeyExchange, PskExchange
  <2>. QED  BY <1>3, <2>4, <2>5, <2>6, <2>7
<1>. QED  BY <1>6, <1>7

\* FINISH adds at most Cm, signature, HMAC and the answer to it.
LEMMA FinishAdds ==
    ASSUME TypeOK, Finish \/ PskFinish
    PROVE  Len(transcript') \in Nat /\ Len(transcript') <= Len(transcript) + 5 /\ pc' = "idle"
<1>1. transcript \in Transcripts
  BY TypeParts DEF CtxType
<1>2. PICK message \in Transcripts, verified \in {TRUE, FALSE} :
         Finishes(message, verified) /\ Len(message) <= 4
  BY FinishMessage
<1> DEFINE built == transcript \o message
           th2   == Append(built, Bare("FINISH_RSP"))
<1>3. (transcript' = built \/ transcript' = th2) /\ pc' = "idle"
  BY <1>2, Zenon DEF Finishes, StepFails
<1>4. /\ built \in Transcripts /\ Len(built) = Len(transcript) + Len(message)
      /\ Len(message) \in Nat /\ Len(transcript) \in Nat
  BY <1>1, JoinedLength
<1> HIDE DEF built
<1>5. Len(th2) = Len(built) + 1
  BY <1>4, Lengths, MessageType DEF MessageNames
<1> HIDE DEF th2
<1>. QED  BY <1>2, <1>3, <1>4, <1>5

\* What a clear exchange that checks the room adds.
LEMMA RoomTaken ==
    ASSUME NEW t \in Transcripts, NEW u, NEW request \in Messages,
           MaxTranscript \in Nat, Len(t) <= MaxTranscript,
           \/ u = t
           \/ /\ u = Append(t, request)
              /\ MaxTranscript - Len(t) >= 1 \/ MaxTranscript - Len(t) = 1
           \/ /\ MaxTranscript - Len(t) >= 2
              /\ \E r \in Messages : u = t \o <<request, r>>
    PROVE  Len(u) \in Nat /\ Len(u) <= MaxTranscript /\ Len(u) <= Len(t) + 2
<1>1. Len(t) \in Nat
  BY Lengths
<1>2. CASE u = t
  BY <1>1, <1>2
<1>3. CASE /\ u = Append(t, request)
           /\ MaxTranscript - Len(t) >= 1 \/ MaxTranscript - Len(t) = 1
  <2>1. Len(u) = Len(t) + 1
    BY <1>3, Lengths
  <2>. QED  BY <1>1, <1>3, <2>1
<1>4. CASE /\ MaxTranscript - Len(t) >= 2
           /\ \E r \in Messages : u = t \o <<request, r>>
  <2>1. PICK r \in Messages : u = t \o <<request, r>>
    BY <1>4
  <2>2. Len(u) = Len(t) + 2
    BY <2>1, Lengths
  <2>. QED  BY <1>1, <1>4, <2>2
<1>. QED  BY <1>2, <1>3, <1>4

LEMMA FlowNext ==
    ASSUME MaxTranscript >= LongestFlow, TypeOK, FlowRoom, [Next]_vars
    PROVE  FlowRoom'
<1>1. transcript \in Transcripts /\ MaxTranscript \in Nat /\ MaxTranscript >= 16
  BY TypeParts, BoundAssumption DEF CtxType, LongestFlow
<1>2. Len(transcript) \in Nat /\ Len(transcript) <= MaxTranscript
  BY <1>1, Lengths DEF FlowRoom
<1>3. ASSUME Len(transcript') <= MaxTranscript,
             pc' \in {"idle", "vca_version", "vca_caps", "vca_algo", "vca_clear"}
      PROVE  FlowRoom'
  BY <1>3 DEF FlowRoom
<1>4. CASE GetVersion
  <2>1. Bare("GET_VERSION") \in Messages /\ Message("VERSION", TpmVersions) \in Messages
    BY MessageType, VersionAssumption DEF MessageNames
  <2>2. /\ pc \in {"version", "vca_version"}
        /\ StepFails \/ pc' = NextStep
        /\ \/ transcript' = transcript
           \/ /\ transcript' = Append(transcript, Bare("GET_VERSION"))
              /\ MaxTranscript - Len(transcript) >= 1 \/ MaxTranscript - Len(transcript) = 1
           \/ /\ MaxTranscript - Len(transcript) >= 2
              /\ \E r \in Messages :
                    transcript' = transcript \o <<Bare("GET_VERSION"), r>>
    <3>1. \A r \in Wire(Message("VERSION", TpmVersions)) : r \in Messages
      BY <2>1, WireType
    <3>2. Message("VERSION", {}) \in Messages
      BY MessageType DEF MessageNames
    <3>. QED  BY <1>4, <3>1, <3>2, Zenon DEF GetVersion
  <2>3. /\ Len(transcript') \in Nat /\ Len(transcript') <= MaxTranscript
        /\ Len(transcript') <= Len(transcript) + 2
    BY <1>1, <1>2, <2>1, <2>2, RoomTaken
  <2>4. CASE StepFails
    BY <1>1, <1>2, <1>3, <2>3, <2>4 DEF StepFails
  <2>5. CASE pc' = NextStep /\ pc = "vca_version"
    BY <1>1, <1>2, <1>3, <2>3, <2>5 DEF NextStep
  <2>6. CASE pc' = NextStep /\ pc = "version"
    <3>1. Len(transcript) = 0 /\ pc' \in {"caps", "pubk", "pskex"}
      BY <2>6 DEF NextStep, FlowRoom
    <3>. QED  BY <2>3, <3>1 DEF FlowRoom
  <2>. QED  BY <2>2, <2>4, <2>5, <2>6
<1>5. CASE GetCapabilities \/ NegotiateAlgorithms
  <2>1. PICK request \in Messages, answer \in Messages : Negotiate(request, answer)
    BY <1>5, MessageType DEF GetCapabilities, NegotiateAlgorithms, MessageNames
  <2>2. /\ StepFails \/ pc' = NextStep
        /\ \/ transcript' = transcript
           \/ /\ transcript' = Append(transcript, request)
              /\ MaxTranscript - Len(transcript) >= 1 \/ MaxTranscript - Len(transcript) = 1
           \/ /\ MaxTranscript - Len(transcript) >= 2
              /\ \E r \in Wire(answer) : transcript' = transcript \o <<request, r>>
    BY <2>1, Zenon DEF Negotiate, Wire
  <2>3. /\ Len(transcript') \in Nat /\ Len(transcript') <= MaxTranscript
        /\ Len(transcript') <= Len(transcript) + 2
    BY <1>1, <1>2, <2>1, <2>2, RoomTaken, WireType
  <2>4. CASE StepFails
    BY <1>1, <1>2, <1>3, <2>3, <2>4 DEF StepFails
  <2>5. CASE pc' = NextStep /\ pc \in {"vca_caps", "vca_algo"}
    BY <1>1, <1>2, <1>3, <2>3, <2>5 DEF NextStep
  <2>6. CASE pc' = NextStep /\ pc = "caps"
    <3>1. Len(transcript) <= 2 /\ pc' = "algo"
      BY <2>6 DEF NextStep, FlowRoom
    <3>. QED  BY <1>1, <1>2, <2>3, <3>1 DEF FlowRoom
  <2>7. CASE pc' = NextStep /\ pc = "algo"
    <3>1. Len(transcript) <= 4 /\ pc' = "pubk"
      BY <2>7 DEF NextStep, FlowRoom
    <3>. QED  BY <1>1, <1>2, <2>3, <3>1 DEF FlowRoom
  <2>. QED  BY <1>5, <2>2, <2>4, <2>5, <2>6, <2>7 DEF GetCapabilities, NegotiateAlgorithms
<1>6. CASE GetPubKey
  <2>1. Bare("Ct") \in Messages
    BY MessageType DEF MessageNames
  <2>2. /\ pc = "pubk"
        /\ \/ StepFails /\ transcript' = transcript
           \/ pc' = NextStep /\ \E ct \in Wire(Bare("Ct")) : transcript' = Append(transcript, ct)
    BY <1>6 DEF GetPubKey
  <2>3. CASE StepFails /\ transcript' = transcript
    BY <1>1, <1>2, <1>3, <2>3 DEF StepFails
  <2>4. CASE pc' = NextStep /\ \E ct \in Wire(Bare("Ct")) : transcript' = Append(transcript, ct)
    <3>1. Len(transcript') = Len(transcript) + 1
      BY <1>1, <2>1, <2>4, Lengths, WireType
    <3>2. pc' = "keyex" /\ Len(transcript) <= 6
      BY <2>2, <2>4 DEF NextStep, FlowRoom
    <3>. QED  BY <1>1, <1>2, <3>1, <3>2 DEF FlowRoom
  <2>. QED  BY <2>2, <2>3, <2>4
<1>7. CASE KeyExchange
  <2>1. /\ Len(transcript') \in Nat /\ Len(transcript') <= Len(transcript) + 4
        /\ pc' \in {"idle", "givepub", "finish", "pskfin"} /\ Len(transcript) <= 7
    BY <1>7, ExchangeAdds DEF KeyExchange, FlowRoom
  <2>. QED  BY <1>1, <1>2, <2>1 DEF FlowRoom
<1>8. CASE PskExchange
  <2>1. /\ Len(transcript') \in Nat /\ Len(transcript') <= Len(transcript) + 3
        /\ pc' \in {"idle", "givepub", "finish", "pskfin"} /\ Len(transcript) <= 2
    BY <1>8, ExchangeAdds DEF PskExchange, FlowRoom
  <2>. QED  BY <1>1, <1>2, <2>1 DEF FlowRoom
<1>9. CASE Finish \/ PskFinish
  <2>1. /\ Len(transcript') \in Nat /\ Len(transcript') <= Len(transcript) + 5
        /\ pc' = "idle" /\ Len(transcript) <= 11
    BY <1>9, FinishAdds DEF Finish, PskFinish, FlowRoom
  <2>. QED  BY <1>1, <1>2, <1>3, <2>1
<1>10. CASE GivePubStep
  <2>1. /\ UNCHANGED transcript /\ pc = "givepub" /\ (StepFails \/ pc' = NextStep)
    BY <1>10 DEF GivePubStep
  <2>2. pc' \in {"idle", "finish"}
    BY <2>1 DEF StepFails, NextStep
  <2>. QED  BY <2>1, <2>2 DEF FlowRoom
<1>11. CASE Connect \/ Free
  <2>1. transcript' = << >> /\ pc' \in {"version", "idle"}
    BY <1>11 DEF Connect, TranscriptReset, Free, Idle
  <2>2. Len(transcript') = 0
    BY <2>1
  <2>. QED  BY <1>1, <2>1, <2>2 DEF FlowRoom
<1>12. CASE \/ StepAborts \/ PskClear \/ PskClearWithVCA \/ TpmReset
            \/ \E cb \in BOOLEAN : InitCtx(cb)
            \/ SetIO
            \/ \E m \in Modes : SetMode(m)
            \/ SetRequesterKeyPair \/ SetRequesterKeyTPMT
            \/ \E p \in Psks : SetPSK(p) \/ PskSet(p)
            \/ TpmCommand \/ SetOnlyMode \/ GivePubKey \/ Disconnect
            \/ UNCHANGED vars
  <2>1. UNCHANGED transcript /\ (pc' \in {"idle", "vca_version"} \/ pc' = pc)
    BY <1>12 DEF StepAborts, PskClear, PskClearWithVCA, TpmReset, InitCtx, SetIO, SetMode,
       SetRequesterKeyPair, SetRequesterKeyTPMT, SetPSK, PskSet, TpmCommand, SetOnlyMode,
       GivePubKey, SecuredCall, Disconnect, Configured, Provisioning, StepFails, vars
  <2>. QED  BY <2>1 DEF FlowRoom
<1>. QED
  BY <1>4, <1>5, <1>6, <1>7, <1>8, <1>9, <1>10, <1>11, <1>12 DEF Next, Step, Call

\* With room for the longer flow, no call ever overfills the transcript, not
\* even after PskClearWithVCA calls that never emptied it.
THEOREM FlowsFit == MaxTranscript >= LongestFlow => (Spec => []TranscriptFits)
<1> SUFFICES ASSUME MaxTranscript >= LongestFlow PROVE Spec => []TranscriptFits
  OBVIOUS
<1>1. Init => FlowRoom
  BY BoundAssumption DEF Init, FlowRoom
<1>2. FlowRoom => TranscriptFits
  BY DEF FlowRoom, TranscriptFits
<1>3. TypeOK /\ FlowRoom /\ [Next]_vars => FlowRoom'
  BY FlowNext
<1>. QED
  BY <1>1, <1>2, <1>3, TypeCorrect, PTL DEF Spec

-----------------------------------------------------------------------------
(* An undisturbed Connect.                                                 *)

\* A fault ends the claim.
LEMMA FaultEnds == Fault => attempt' # "clean"
BY DEF Fault

\* The messages of a clear exchange without a fault arrive as they were sent.
LEMMA ArrivesIntact ==
    ASSUME NEW q, NEW gotQ, NEW a, NEW gotA, Arrives(q, gotQ, a, gotA), attempt' = "clean"
    PROVE  gotQ = q /\ gotA = a /\ attempt = "clean"
BY DEF Arrives, Fault, NoFault

Undisturbable == MaxTranscript >= LongestFlow /\ TypeOK /\ KeysInOrder /\ FlowRoom /\ Undisturbed

LEMMA CleanVersion ==
    ASSUME Undisturbable, attempt' = "clean", GetVersion
    PROVE  Undisturbed'
<1> DEFINE request == Bare("GET_VERSION")
           answer  == Message("VERSION", TpmVersions)
           room    == MaxTranscript - Len(transcript)
<1>1. attempt = "clean"
  BY Zenon DEF GetVersion, NoAnswer, Arrives, NoFault, Fault
<1>2. /\ pc = "version" /\ tpmKey = ZeroKey /\ reqSeqNum = 0 /\ rspSeqNum = 0
      /\ Credentials /\ Mutual(TpmVersions) # {} /\ mode # "none" /\ transcript = << >>
  BY <1>1 DEF Undisturbable, Undisturbed, FlowRoom, GetVersion
<1>3. /\ ~ (room < 1) /\ room # 1
  BY <1>2, BoundAssumption DEF Undisturbable, LongestFlow
<1>4. ~ NoAnswer(TRUE, room = 1 /\ tpmKey # ZeroKey, TpmGetVersion(request))
  BY <1>2, FaultEnds, Zenon DEF NoAnswer
<1> HIDE DEF room
<1>5. PICK q, r : /\ Arrives(request, q, answer, r) /\ TpmGetVersion(q)
                  /\ transcript' = transcript \o <<request, r>>
                  /\ Mutual(r[2]) # {} => pc' = NextStep
  BY <1>2, <1>3, <1>4, Zenon DEF GetVersion, room
<1>6. q = request /\ r = answer
  BY <1>5, ArrivesIntact
<1>7. pc' = NextStep
  BY <1>2, <1>5, <1>6 DEF Message
<1>8. transcript' = tpmTranscript' /\ tpmTranscript' # << >> /\ tpmKey' = ZeroKey
  BY <1>2, <1>5, <1>6 DEF TpmGetVersion
<1>9. UNCHANGED <<mode, hasReqKeyPair, hasReqTpmt, psk, tpmPsk, reqSeqNum, rspSeqNum>>
  BY <1>5 DEF GetVersion, TpmGetVersion, config, session
<1>10. mode \in {"NUVOTON", "NATIONS", "NATIONS_PSK"}
  BY <1>2, ModeAssumption DEF Undisturbable, TypeOK, ModeNames
<1>11. Credentials'
  BY <1>2, <1>9 DEF Credentials
<1>12. \/ pc' \in {"caps", "pubk"} /\ mode # "NATIONS_PSK"
       \/ pc' = "pskex" /\ mode = "NATIONS_PSK"
  BY <1>2, <1>7, <1>10 DEF NextStep
<1>. QED  BY <1>2, <1>8, <1>9, <1>11, <1>12 DEF Undisturbed

LEMMA CleanNegotiate ==
    ASSUME Undisturbable, attempt' = "clean", pc \in {"caps", "algo", "vca_caps", "vca_algo"},
           NEW request \in Messages, NEW answer \in Messages, Negotiate(request, answer)
    PROVE  Undisturbed'
<1> DEFINE room == MaxTranscript - Len(transcript)
<1>1. attempt = "clean"
  BY Zenon DEF Negotiate, NoAnswer, Arrives, NoFault, Fault
<1>2. /\ pc \in {"caps", "algo"} /\ tpmKey = ZeroKey /\ reqSeqNum = 0 /\ rspSeqNum = 0
      /\ Credentials /\ mode # "NATIONS_PSK"
      /\ tpmTranscript # << >> /\ transcript = tpmTranscript
  BY <1>1 DEF Undisturbable, Undisturbed
<1>3. Len(transcript) \in Nat /\ Len(transcript) <= 4
  BY <1>2, Lengths DEF Undisturbable, FlowRoom, TypeOK
<1>4. ~ (room < 1) /\ room # 1
  BY <1>3, BoundAssumption DEF Undisturbable, LongestFlow
<1>5. ~ NoAnswer(tpmTranscript # << >>, FALSE, TpmNegotiates(request, answer))
  BY FaultEnds, Zenon DEF NoAnswer
<1> HIDE DEF room
<1>6. PICK q, r : /\ Arrives(request, q, answer, r) /\ TpmNegotiates(q, answer)
                  /\ transcript' = transcript \o <<request, r>> /\ pc' = NextStep
  BY <1>2, <1>4, <1>5, Zenon DEF Negotiate, room
<1>7. q = request /\ r = answer
  BY <1>6, ArrivesIntact
<1>8. transcript' = tpmTranscript' /\ UNCHANGED <<tpmKey, tpmPsk>>
  BY <1>2, <1>6, <1>7 DEF TpmNegotiates
<1>9. transcript' # << >>
  <2>1. transcript' \in Transcripts /\ Len(transcript') = Len(transcript) + 2
    BY <1>6, <1>7, Lengths, TranscriptType DEF Undisturbable, TypeOK
  <2>2. Len(transcript') # 0
    BY <1>3, <2>1
  <2>. QED  BY <2>2
<1>10. UNCHANGED <<mode, hasReqKeyPair, hasReqTpmt, psk, reqSeqNum, rspSeqNum>>
  BY DEF Negotiate, config, session
<1>11. Credentials'
  BY <1>2, <1>8, <1>10 DEF Credentials
<1>12. pc' \in {"algo", "pubk"}
  BY <1>2, <1>6 DEF NextStep
<1>. QED  BY <1>2, <1>8, <1>9, <1>10, <1>11, <1>12 DEF Undisturbed

LEMMA CleanPubKey ==
    ASSUME Undisturbable, attempt' = "clean", GetPubKey
    PROVE  Undisturbed'
<1>1. /\ attempt = "clean" /\ pc = "pubk" /\ pc' = NextStep
      /\ transcript' = Append(transcript, Bare("Ct"))
  BY Zenon DEF GetPubKey, NoFault, Fault
<1>2. /\ tpmKey = ZeroKey /\ reqSeqNum = 0 /\ rspSeqNum = 0
      /\ Credentials /\ mode # "NATIONS_PSK"
      /\ tpmTranscript # << >> /\ transcript = tpmTranscript
  BY <1>1 DEF Undisturbable, Undisturbed
<1>3. UNCHANGED <<mode, hasReqKeyPair, hasReqTpmt, psk, reqSeqNum, rspSeqNum,
                  tpmTranscript, tpmKey, tpmPsk>>
  BY DEF GetPubKey, config, session, tpmVars
<1>4. Credentials'
  BY <1>2, <1>3 DEF Credentials
<1>5. pc' = "keyex"
  BY <1>1 DEF NextStep
<1>. QED  BY <1>1, <1>2, <1>3, <1>4, <1>5 DEF Undisturbed

LEMMA CleanKeyExchange ==
    ASSUME Undisturbable, attempt' = "clean", KeyExchange
    PROVE  Undisturbed'
<1>1. PICK sid \in SessionIds, mut \in MutAuth :
         \/ KeyExchangeLost(sid, mut)
         \/ \E damage \in {"none", "sig", "hmac"},
               q \in Wire(BuildKeyExchange), r \in Wire(KeyExchangeRsp(sid)) :
               ParseKeyExchangeRsp(sid, mut, damage, q, r)
  BY DEF KeyExchange
<1>2. attempt = "clean"
  BY <1>1, Zenon DEF KeyExchangeLost, ParseKeyExchangeRsp, NoAnswer, Arrives, NoFault, Fault
<1>3. /\ pc = "keyex" /\ tpmKey = ZeroKey /\ reqSeqNum = 0 /\ rspSeqNum = 0
      /\ Credentials /\ mode # "NATIONS_PSK"
      /\ tpmTranscript # << >> /\ transcript = Append(tpmTranscript, Bare("Ct"))
  BY <1>2 DEF Undisturbable, Undisturbed, KeyExchange
<1>4. ~ KeyExchangeLost(sid, mut)
  BY <1>3, FaultEnds, Zenon DEF KeyExchangeLost, NoAnswer
<1>5. PICK damage, q, r : ParseKeyExchangeRsp(sid, mut, damage, q, r)
  BY <1>1, <1>4
<1> DEFINE answer == KeyExchangeRsp(sid)
           body == transcript \o <<BuildKeyExchange, r>>
           th1  == Append(body, Bare("Signature"))
           key  == HandshakeKey("ecdhe", epoch + 1, th1)
<1>6. damage = "none" /\ q = BuildKeyExchange /\ r = answer
  <2>1. IF damage = "none" THEN Arrives(BuildKeyExchange, q, answer, r) ELSE Fault
    BY <1>5, Zenon DEF ParseKeyExchangeRsp
  <2>2. damage = "none" /\ Arrives(BuildKeyExchange, q, answer, r)
    BY <2>1, FaultEnds, Zenon
  <2>. QED  BY <2>2, ArrivesIntact, Zenon
<1>7. /\ BuildKeyExchange \in Messages /\ answer \in Messages
      /\ Bare("Ct") \in Messages /\ Bare("Signature") \in Messages
      /\ tpmTranscript \in Transcripts
  BY ExchangeMessages, TypeParts DEF Undisturbable, TpmType
<1>8. /\ body = tpmTranscript \o <<Bare("Ct"), q, answer>>
      /\ th1 = TpmTh1(q, answer)
  BY <1>3, <1>6, <1>7 DEF TpmTh1, Transcripts
<1>9. TpmOpens("ecdhe", epoch + 1, TpmTh1(q, answer), sid, mut)
  BY <1>5, Zenon DEF ParseKeyExchangeRsp
<1>10. key = tpmKey'
  BY <1>8, <1>9 DEF TpmOpens
<1>11. /\ damage # "sig" /\ damage # "hmac"
  BY <1>6
<1>12. /\ dataKey' = key /\ pc' = NextStep /\ sessionId' = sid /\ mutAuth' = mut
  <2>1. dataKey' = key /\ pc' = NextStep
    BY <1>5, <1>8, <1>10, <1>11, Zenon DEF ParseKeyExchangeRsp
  <2>2. sessionId' = sid /\ mutAuth' = mut
    BY <1>5, <1>6 DEF ParseKeyExchangeRsp
  <2>. QED  BY <2>1, <2>2
<1>13. UNCHANGED <<mode, hasReqKeyPair, hasReqTpmt, reqSeqNum, rspSeqNum>>
  BY DEF KeyExchange, config
<1>14. hasReqKeyPair /\ hasReqTpmt
  BY <1>3 DEF Credentials
<1>15. pc' = "givepub"
  BY <1>3, <1>12, <1>14 DEF NextStep
<1>16. /\ tpmSession' = sid /\ tpmReqSeq' = 0 /\ tpmRspSeq' = 0 /\ tpmMut' = mut
  BY <1>9 DEF TpmOpens
<1> HIDE DEF key
<1>17. InStep' /\ reqSeqNum' = rspSeqNum'
  BY <1>3, <1>10, <1>12, <1>13, <1>16 DEF InStep
<1>. QED  BY <1>3, <1>12, <1>13, <1>14, <1>15, <1>16, <1>17 DEF Undisturbed

LEMMA CleanPskExchange ==
    ASSUME Undisturbable, attempt' = "clean", PskExchange
    PROVE  Undisturbed'
<1>1. PICK sid \in SessionIds :
         \/ PskExchangeLost(sid)
         \/ \E damage \in {"none", "hmac"},
               q \in Wire(BuildPskExchange), r \in Wire(PskExchangeRsp(sid)) :
               ParsePskExchangeRsp(sid, damage, q, r)
  BY DEF PskExchange
<1>2. attempt = "clean"
  BY <1>1, Zenon DEF PskExchangeLost, ParsePskExchangeRsp, NoAnswer, Arrives, NoFault, Fault
<1>3. /\ pc = "pskex" /\ tpmKey = ZeroKey /\ reqSeqNum = 0 /\ rspSeqNum = 0
      /\ Credentials /\ mode = "NATIONS_PSK"
      /\ tpmTranscript # << >> /\ transcript = tpmTranscript
  BY <1>2 DEF Undisturbable, Undisturbed, PskExchange
<1>4. psk = tpmPsk /\ tpmPsk # NoPsk
  BY <1>3 DEF Credentials
<1>5. ~ PskExchangeLost(sid)
  BY <1>3, <1>4, FaultEnds, Zenon DEF PskExchangeLost, NoAnswer
<1>6. PICK damage, q, r : ParsePskExchangeRsp(sid, damage, q, r)
  BY <1>1, <1>5
<1> DEFINE answer == PskExchangeRsp(sid)
           th1  == transcript \o <<BuildPskExchange, r>>
           key  == HandshakeKey(psk, epoch + 1, th1)
<1>7. damage = "none" /\ q = BuildPskExchange /\ r = answer
  BY <1>6, ArrivesIntact, FaultEnds, Zenon DEF ParsePskExchangeRsp
<1>8. TpmOpens(tpmPsk, epoch + 1, tpmTranscript \o <<q, answer>>, sid, FALSE)
  BY <1>6, Zenon DEF ParsePskExchangeRsp
<1>9. key = tpmKey'
  BY <1>3, <1>4, <1>7, <1>8, Zenon DEF TpmOpens
<1>10. damage # "hmac"
  BY <1>7
<1>11. dataKey' = key /\ pc' = NextStep /\ sessionId' = sid
  <2>1. dataKey' = key /\ pc' = NextStep
    BY <1>6, <1>9, <1>10, Zenon DEF ParsePskExchangeRsp
  <2>2. sessionId' = sid
    BY <1>6, <1>7 DEF ParsePskExchangeRsp
  <2>. QED  BY <2>1, <2>2
<1>12. UNCHANGED <<mode, reqSeqNum, rspSeqNum>>
  BY DEF PskExchange, config
<1>13. pc' = "pskfin"
  BY <1>3, <1>11 DEF NextStep
<1>14. tpmSession' = sid /\ tpmReqSeq' = 0 /\ tpmRspSeq' = 0
  BY <1>8 DEF TpmOpens
<1> HIDE DEF key
<1>15. InStep' /\ reqSeqNum' = rspSeqNum'
  BY <1>3, <1>9, <1>11, <1>12, <1>14 DEF InStep
<1>. QED  BY <1>3, <1>12, <1>13, <1>15 DEF Undisturbed

\* Between ends in step a record that meets no fault is accepted and answered.
LEMMA CleanRecord ==
    ASSUME Undisturbable, attempt' = "clean", pc \in {"givepub", "finish", "pskfin"},
           NEW accepts, NEW handles, TpmAccepts => accepts, NEW doneOk, NEW failed,
           (SecuredOk(accepts, handles) /\ doneOk) \/ (SecuredFails(accepts, handles) /\ failed)
    PROVE  /\ attempt = "clean" /\ InStep /\ reqSeqNum = rspSeqNum
           /\ SecuredOk(accepts, handles) /\ doneOk
<1>1. attempt = "clean"
  BY Zenon DEF SecuredOk, SecuredFails, NoFault, Fault
<1>2. InStep /\ reqSeqNum = rspSeqNum
  BY <1>1 DEF Undisturbable, Undisturbed
<1>3. dataKey # ZeroKey
  BY DEF Undisturbable, KeysInOrder, ZeroKey
<1>4. TpmAccepts /\ DecryptOk
  BY <1>2, <1>3 DEF InStep, TpmAccepts, DecryptOk
<1>5. ~ SecuredFails(accepts, handles)
  BY <1>4, FaultEnds, Zenon DEF SecuredFails
<1>. QED  BY <1>1, <1>2, <1>5

LEMMA CleanGivePub ==
    ASSUME Undisturbable, attempt' = "clean", GivePubStep
    PROVE  Undisturbed'
<1>1. /\ pc = "givepub" /\ reqSeqNum' = reqSeqNum + 1
      /\ UNCHANGED <<config, dataKey, sessionId, mutAuth>>
      /\ \/ /\ SecuredOk(TpmAccepts, TpmTakesPub)
            /\ rspSeqNum' = rspSeqNum + 1 /\ pc' = NextStep /\ UNCHANGED state
         \/ /\ SecuredFails(TpmAccepts, TpmTakesPub)
            /\ StepFails /\ UNCHANGED rspSeqNum
  BY FaultEnds, Zenon DEF GivePubStep, Refused
<1>2. /\ attempt = "clean" /\ InStep /\ reqSeqNum = rspSeqNum
      /\ SecuredOk(TpmAccepts, TpmTakesPub)
      /\ rspSeqNum' = rspSeqNum + 1 /\ pc' = NextStep
  BY <1>1, CleanRecord, Zenon
<1>3. hasReqKeyPair /\ hasReqTpmt /\ mode # "NATIONS_PSK" /\ tpmMut = mutAuth
  BY <1>1, <1>2 DEF Undisturbable, Undisturbed
<1>4. TpmAnswers /\ tpmHasPub' = TRUE
  BY <1>2 DEF SecuredOk, TpmTakesPub
<1>5. InStep' /\ reqSeqNum' = rspSeqNum'
  BY <1>1, <1>2, <1>4 DEF TpmAnswers, InStep
<1>6. /\ UNCHANGED <<mode, hasReqKeyPair, hasReqTpmt, mutAuth, tpmMut>>
      /\ pc' = "finish"
  BY <1>1, <1>2, <1>4 DEF TpmAnswers, NextStep, config
<1>7. tpmHasPub'
  BY <1>4
<1>. QED  BY <1>3, <1>5, <1>6, <1>7 DEF Undisturbed

LEMMA CleanFinish ==
    ASSUME Undisturbable, attempt' = "clean", Finish \/ PskFinish
    PROVE  Undisturbed'
<1>1. ASSUME pc \in {"finish", "pskfin"}, NEW message, NEW verified, Finishes(message, verified),
             attempt = "clean" => verified
      PROVE  Undisturbed'
  <2> DEFINE accepts == TpmAccepts /\ verified
  <2>1. attempt = "clean"
    BY <1>1, Zenon DEF Finishes, SecuredOk, SecuredFails, Refused, NoFault, Fault
  <2>2. TpmAccepts => accepts
    BY <1>1, <2>1
  <2>3. \/ /\ SecuredOk(accepts, TpmFinishes(message))
           /\ state' = "CONNECTED" /\ pc' = "idle"
        \/ SecuredFails(accepts, TpmFinishes(message)) /\ TRUE
    BY <1>1, FaultEnds, Zenon DEF Finishes, Refused
  <2> HIDE DEF accepts
  <2>4. state' = "CONNECTED" /\ pc' = "idle"
    BY <1>1, <2>2, <2>3, CleanRecord, Zenon
  <2>. QED  BY <2>4 DEF Undisturbed
<1>2. CASE PskFinish
  BY <1>1, <1>2, Zenon DEF PskFinish
<1>3. CASE Finish
  <2>1. PICK message : Finishes(message, tpmMut => (mutAuth /\ hasReqKeyPair) /\ tpmHasPub)
    BY <1>3, Zenon DEF Finish
  <2>2. attempt = "clean" => (tpmMut => (mutAuth /\ hasReqKeyPair) /\ tpmHasPub)
    <3>1. ASSUME attempt = "clean"
          PROVE  tpmHasPub /\ tpmMut = mutAuth /\ hasReqKeyPair
      BY <1>3, <3>1 DEF Finish, Undisturbable, Undisturbed
    <3>. QED  BY <3>1, Zenon
  <2>3. pc \in {"finish", "pskfin"}
    BY <1>3 DEF Finish
  <2>. QED  BY <1>1, <2>1, <2>2, <2>3, Zenon
<1>. QED  BY <1>2, <1>3

LEMMA CleanConnects ==
    ASSUME attempt' = "clean", Connect
    PROVE  Undisturbed'
<1>1. /\ pc' = "version" /\ Suitable /\ reqSeqNum = 0 /\ rspSeqNum = 0
      /\ mode # "none" /\ (mode = "NATIONS_PSK" => psk # NoPsk)
      /\ UNCHANGED <<mode, hasReqKeyPair, hasReqTpmt, psk, reqSeqNum, rspSeqNum,
                     tpmTranscript, tpmKey, tpmPsk>>
  BY DEF Connect, config, session, tpmVars
<1>2. /\ tpmKey' = ZeroKey /\ tpmTranscript' = << >> /\ Mutual(TpmVersions) # {}
  BY <1>1 DEF Suitable, TpmFresh
<1>3. Credentials'
  BY <1>1, Zenon DEF Suitable, Credentials
<1>. QED  BY <1>1, <1>2, <1>3 DEF Undisturbed

\* Between calls only Connect makes the claim, and nothing else ends in ERROR.
LEMMA CleanIdle ==
    ASSUME Undisturbed, attempt = "clean", pc = "idle", pc' = "idle",
           UNCHANGED state \/ state' # "ERROR"
    PROVE  Undisturbed'
BY DEF Undisturbed

LEMMA UndisturbedNext ==
    ASSUME Undisturbable, [Next]_vars
    PROVE  Undisturbed'
<1> SUFFICES ASSUME attempt' = "clean" PROVE Undisturbed'
  BY DEF Undisturbed
<1>1. Undisturbed
  BY DEF Undisturbable
<1>2. CASE StepAborts \/ TpmReset
  BY <1>2, FaultEnds DEF StepAborts, TpmReset
<1>3. CASE GetVersion
  BY <1>3, CleanVersion
<1>4. CASE GetCapabilities \/ NegotiateAlgorithms
  <2>1. PICK request \in Messages, answer \in Messages : Negotiate(request, answer)
    BY <1>4, MessageType DEF GetCapabilities, NegotiateAlgorithms, MessageNames
  <2>2. pc \in {"caps", "algo", "vca_caps", "vca_algo"}
    BY <1>4 DEF GetCapabilities, NegotiateAlgorithms
  <2>. QED  BY <2>1, <2>2, CleanNegotiate
<1>5. CASE GetPubKey
  BY <1>5, CleanPubKey
<1>6. CASE KeyExchange
  BY <1>6, CleanKeyExchange
<1>7. CASE PskExchange
  BY <1>7, CleanPskExchange
<1>8. CASE GivePubStep
  BY <1>8, CleanGivePub
<1>9. CASE Finish \/ PskFinish
  BY <1>9, CleanFinish
<1>10. CASE Connect
  BY <1>10, CleanConnects
<1>11. CASE PskClearWithVCA
  BY <1>11 DEF PskClearWithVCA
<1>12. CASE PskClear
  <2>1. attempt = "clean"
    BY <1>12, Zenon DEF PskClear, NoFault, Fault
  <2>2. pc = "idle"
    BY <1>1, <1>12, <2>1 DEF PskClear, Undisturbed
  <2>. QED  BY <1>1, <1>12, <2>1, <2>2, CleanIdle DEF PskClear
<1>13. CASE TpmCommand \/ SetOnlyMode \/ GivePubKey
  <2>1. PICK handles : SecuredCall(handles)
    BY <1>13 DEF TpmCommand, SetOnlyMode, GivePubKey
  <2>2. attempt = "clean"
    BY <2>1, Zenon DEF SecuredCall, SecuredOk, SecuredFails, NoFault, Fault
  <2>. QED  BY <1>1, <2>1, <2>2, CleanIdle DEF SecuredCall, Idle
<1>14. CASE Disconnect
  <2>1. attempt = "clean"
    BY <1>14, Zenon DEF Disconnect, SecuredOk, SecuredFails, NoFault, Fault
  <2>. QED  BY <1>1, <1>14, <2>1, CleanIdle DEF Disconnect, Erase, Idle
<1>15. CASE \/ Free
            \/ \E cb \in BOOLEAN : InitCtx(cb)
            \/ SetIO
            \/ \E m \in Modes : SetMode(m)
            \/ SetRequesterKeyPair \/ SetRequesterKeyTPMT
            \/ \E p \in Psks : SetPSK(p) \/ PskSet(p)
  <2>1. /\ attempt = "clean" /\ pc = "idle" /\ pc' = "idle"
        /\ UNCHANGED state \/ state' # "ERROR"
    BY <1>15 DEF Free, Erase, InitCtx, SetIO, SetMode, SetRequesterKeyPair,
       SetRequesterKeyTPMT, SetPSK, PskSet, Configured, Idle, NoFault
  <2>. QED  BY <1>1, <2>1, CleanIdle
<1>16. CASE UNCHANGED vars
  BY <1>1, <1>16
  DEF vars, config, session, tpmVars, Undisturbed, Credentials, InStep
<1>. QED
  BY <1>2, <1>3, <1>4, <1>5, <1>6, <1>7, <1>8, <1>9, <1>10, <1>11, <1>12, <1>13, <1>14,
     <1>15, <1>16
  DEF Next, Step, Call

\* In every mode, with matching credentials and a TPM just reset: a Connect
\* that starts with sequence numbers at zero and meets no fault never ends in
\* ERROR, whatever the calls before it were.
THEOREM CleanConnectsSucceed ==
    MaxTranscript >= LongestFlow => (Spec => []CleanConnectSucceeds)
<1> SUFFICES ASSUME MaxTranscript >= LongestFlow PROVE Spec => []CleanConnectSucceeds
  OBVIOUS
<1>1. Init => FlowRoom /\ Undisturbed
  BY BoundAssumption DEF Init, FlowRoom, Undisturbed
<1>2. Undisturbed => CleanConnectSucceeds
  BY DEF Undisturbed, CleanConnectSucceeds, Idle
<1>3. TypeOK /\ FlowRoom /\ [Next]_vars => FlowRoom'
  BY FlowNext
<1>4. InSession /\ FlowRoom /\ Undisturbed /\ [Next]_vars => Undisturbed'
  BY UndisturbedNext DEF Undisturbable, InSession
<1>5. InSession => TypeOK
  BY DEF InSession
<1>. QED
  BY <1>1, <1>2, <1>3, <1>4, <1>5, InSessionInit, InSessionNext, PTL DEF Spec
=============================================================================

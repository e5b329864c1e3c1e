---------------------------- MODULE CommandAuth ----------------------------
(***************************************************************************)
(* Authorisation of TPM commands: the three session slots of a WOLFTPM2_DEV *)
(* (dev->session, shared with TPM2_CTX.session), the wrapper calls that     *)
(* fill and empty them, and the way TPM2_SendCommandAuth uses them: which   *)
(* slots travel with a command (TPM2_GetCmdAuthCount), what each HMAC       *)
(* covers and when parameters are encrypted (TPM2_CommandProcess), and what *)
(* is believed of the answer (TPM2_ResponseProcess).                        *)
(*                                                                          *)
(* A command is one step: it runs under gHwLock.  Cryptography is symbolic: *)
(* an HMAC verifies iff both sides fed it the same key, nonces and bytes.   *)
(* The bytes of the first parameter are told apart by the slots that have   *)
(* encrypted them.  A nonce is the number of the command that made it.      *)
(***************************************************************************)
EXTENDS Integers, FiniteSets

CONSTANTS
    Hmacs, Policies,    \* sessions by type (TPM_SE_HMAC, TPM_SE_POLICY)
    Ciphers,            \* sessions started with XOR or AES-CFB
    MaxSessionNum,      \* MAX_SESSION_NUM
    Uses,               \* how the application uses them: [slot, session, attrs]
    Commands,           \* CmdInfo_t.flags of the commands it sends
    MaxCommands,        \* bound: commands sent
    MaxFaults           \* bound: lost or damaged messages, TPM resets

Sessions   == Hmacs \cup Policies
Attributes == {"continue", "decrypt", "encrypt", "audit"}
Flags      == {"USER1", "USER2", "ENC", "DEC"}

ASSUME SessionAssumption ==
    /\ Hmacs \cap Policies = {} /\ Ciphers \subseteq Sessions
    /\ "none" \notin Sessions /\ "pw" \notin Sessions
ASSUME InputAssumption ==
    /\ Uses \subseteq [slot : 0 .. MaxSessionNum - 1, session : Sessions,
                       attrs : SUBSET Attributes]
    /\ Commands \subseteq SUBSET Flags
ASSUME BoundAssumption ==
    MaxSessionNum \in Nat /\ MaxCommands \in Nat /\ MaxFaults \in Nat

VARIABLES
    slot,       \* dev->session
    saved,      \* the application's WOLFTPM2_SESSIONs
    tpm,        \* the TPM's sessions
    commands,   \* commands sent; the next one's nonces
    last,       \* history: how the last command went
    disturbed,  \* history: sessions that lost step; see NoncesInStep
    faults

vars == <<slot, saved, tpm, commands, last, disturbed, faults>>

SlotIds == 0 .. MaxSessionNum - 1

\* A session is its key, made when it was started, and its current nonceTPM.
Session == [key : Nat, nonce : Nat]
Closed  == [key |-> 0, nonce |-> 0]

\* TPM2_AUTH_SESSION.  "none" stands for 0 and for any handle that is neither
\* TPM_RS_PW nor a session, such as the key that salts a new session.
Slot == [handle : Sessions \cup {"none", "pw"}, key : Nat, nonceTPM : Nat,
         attrs : SUBSET Attributes, authHash : BOOLEAN]
Zero == [handle |-> "none", key |-> 0, nonceTPM |-> 0, attrs |-> {},
         authHash |-> FALSE]

Results == {"none", "ok", "local", "refused", "lost", "badhmac"}

\* last, before a command and after any other call.
NoCommand == [rc |-> "none", damage |-> "none", crypto |-> 0, fair |-> FALSE]
Quiet == last' = NoCommand

Init == /\ slot = [i \in SlotIds |-> Zero]
        /\ saved = [s \in Sessions |-> Closed]
        /\ tpm = [s \in Sessions |-> Closed]
        /\ commands = 0
        /\ last = NoCommand
        /\ disturbed = {} /\ faults = 0

Open(s) == saved[s] # Closed
Fault   == faults < MaxFaults /\ faults' = faults + 1

-----------------------------------------------------------------------------
(* The wrapper calls on the slots.                                         *)

\* Sessions that lose their nonce when slot i is overwritten.
Dropped(i) == {slot[i].handle} \cap Sessions

Assign(i, value) == slot' = [slot EXCEPT ![i] = value]

\* wolfTPM2_SetAuth with TPM_RS_PW: SetAuthPassword and SetAuthHandle.
SetAuth(i) ==
    /\ Assign(i, [Zero EXCEPT !.handle = "pw"])
    /\ disturbed' = disturbed \cup Dropped(i)
    /\ Quiet /\ UNCHANGED <<saved, tpm, commands, faults>>

\* wolfTPM2_SetAuthSession: the slot takes over the session's nonce.  A second
\* slot with the same session would go out of step with the first.
SetAuthSession(i, s, attrs) ==
    /\ Assign(i, [handle |-> IF Open(s) THEN s ELSE "none", key |-> saved[s].key,
                  nonceTPM |-> saved[s].nonce, attrs |-> attrs, authHash |-> TRUE])
    /\ disturbed' = disturbed \cup Dropped(i)
                    \cup (IF \E j \in SlotIds : slot[j].handle = s THEN {s} ELSE {})
    /\ Quiet /\ UNCHANGED <<saved, tpm, commands, faults>>

\* wolfTPM2_UnsetAuth, and wolfTPM2_SetAuthSession without a session.
UnsetAuth(i) ==
    /\ Assign(i, Zero)
    /\ disturbed' = disturbed \cup Dropped(i)
    /\ Quiet /\ UNCHANGED <<saved, tpm, commands, faults>>

\* wolfTPM2_UnsetAuthSession: the slot's nonce is saved in s, whichever session
\* the slot holds.
KeepNonceNot(i, s) == saved[s]
KeepNonce(i, s) ==
    IF Open(s) THEN [saved[s] EXCEPT !.nonce = slot[i].nonceTPM] ELSE saved[s]
UnsetAuthSession(i, s) ==
    /\ saved' = [saved EXCEPT ![s] = KeepNonce(i, s)]
    /\ Assign(i, Zero)
    /\ disturbed' = disturbed \cup (Dropped(i) \ {s})
                    \cup (IF slot[i].handle = s THEN {} ELSE {s})
    /\ Quiet /\ UNCHANGED <<tpm, commands, faults>>

\* wolfTPM2_SetSessionHandle: only the handle and the key; attributes, hash
\* and nonceTPM stay those of the slot.
SetSessionHandle(i, h) ==
    /\ h \in Sessions => Open(h)
    /\ Assign(i, [slot[i] EXCEPT !.handle = h,
                  !.key = IF h = "pw" THEN @ ELSE saved[h].key])
    /\ disturbed' = IF h = slot[i].handle THEN disturbed
                    ELSE disturbed \cup Dropped(i) \cup ({h} \cap Sessions)
    /\ Quiet /\ UNCHANGED <<saved, tpm, commands, faults>>

\* wolfTPM2_StartSession: slot 0 is overwritten, with TPM_RS_PW or with the
\* handle of the key that salts the session, before TPM2_StartAuthSession,
\* which needs no authorisation, is sent.  With a salt, a bound key and a
\* cipher the slot gets decrypt and encrypt too.
SlotAttributes(s, h) ==
    IF h = "none" /\ s \in Ciphers THEN {{}, {"decrypt", "encrypt"}} ELSE {{}}
StartSession(s, h) ==
    /\ tpm[s] = Closed /\ commands < MaxCommands
    /\ \E attrs \in SlotAttributes(s, h) :
          Assign(0, [Zero EXCEPT !.handle = h, !.attrs = attrs])
    /\ commands' = commands + 1
    /\ LET started == [key |-> commands + 1, nonce |-> commands + 1] IN
       \/ /\ tpm' = [tpm EXCEPT ![s] = started]
          /\ saved' = [saved EXCEPT ![s] = started]
          /\ UNCHANGED faults
       \/ /\ Fault
          /\ tpm' \in {tpm, [tpm EXCEPT ![s] = started]}
          /\ saved' = [saved EXCEPT ![s] = Closed]
    /\ disturbed' = (disturbed \ {s}) \cup (Dropped(0) \ {s})
                    \cup (IF \E j \in SlotIds \ {0} : slot[j].handle = s THEN {s} ELSE {})
    /\ Quiet

\* wolfTPM2_UnloadHandle of a session: TPM2_FlushContext.  The slots that hold
\* it keep its handle.
UnloadHandle(s) ==
    /\ Open(s)
    /\ \/ /\ tpm[s] # Closed
          /\ tpm' = [tpm EXCEPT ![s] = Closed]
          /\ saved' = [saved EXCEPT ![s] = Closed]
          /\ UNCHANGED faults
       \/ /\ Fault
          /\ UNCHANGED saved
          /\ tpm' \in {tpm, [tpm EXCEPT ![s] = Closed]}
    /\ Quiet /\ UNCHANGED <<slot, commands, disturbed>>

-----------------------------------------------------------------------------
(* A command with flags f: which slots travel.                             *)

AuthReq(i, f) == \/ i = 0 /\ "USER1" \in f
                 \/ i = 1 /\ "USER2" \in f

\* An HMAC session has something to do for the command.
Useful(i, f) == \/ "decrypt" \in slot[i].attrs /\ "ENC" \in f
                \/ "encrypt" \in slot[i].attrs /\ "DEC" \in f
                \/ "audit" \in slot[i].attrs

\* TPM2_GetCmdAuthCount, after its first i slots.  An HMAC session that is
\* not counted does not end the search.
CmdAuthCount(f) ==
    LET Scan[i \in 0 .. MaxSessionNum] ==
        IF i = 0 THEN [count |-> 0, stop |-> FALSE]
        ELSE LET before == Scan[i - 1]
                 h      == slot[i - 1].handle
                 req    == AuthReq(i - 1, f)
                 more   == [before EXCEPT !.count = @ + 1]
             IN  CASE before.stop -> before
                   [] ~before.stop /\ h = "pw" /\ req -> more
                   [] ~before.stop /\ h \in Hmacs /\ before.count > 0 ->
                         IF Useful(i - 1, f) THEN more ELSE before
                   [] ~before.stop /\ h \in Policies /\ req -> more
                   [] OTHER -> [before EXCEPT !.stop = ~req]
    IN  Scan[MaxSessionNum].count

Sent(f) == {i \in SlotIds : i < CmdAuthCount(f)}
Crypto(i) == slot[i].handle \in Sessions

\* The attributes sent: for a session, without those the command cannot use.
SentAttrs(i, f) ==
    slot[i].attrs \ (IF Crypto(i)
                     THEN (IF "ENC" \in f THEN {} ELSE {"decrypt"}) \cup
                          (IF "DEC" \in f THEN {} ELSE {"encrypt"})
                     ELSE {})
Encrypts(i, f) == Crypto(i) /\ "decrypt" \in SentAttrs(i, f)
Decrypts(i, f) == Crypto(i) /\ "encrypt" \in SentAttrs(i, f)

\* TPM2_CommandProcess takes the slots in turn: the parameter as the HMAC of
\* slot i covers it has been encrypted by the slots up to i.
CoveredEarly(i, f) == {j \in Sent(f) : j < i /\ Encrypts(j, f)}
Covered(i, f) == {j \in Sent(f) : j <= i /\ Encrypts(j, f)}
AsSent(f)     == {j \in Sent(f) : Encrypts(j, f)}

\* CommandProcess cannot build the command: no hash algorithm in the slot
\* (wolfTPM2_SetSessionHandle on an empty one), or no cipher to encrypt with.
LocalError(f) == \E i \in Sent(f) : Crypto(i) /\
    (~slot[i].authHash \/ (Encrypts(i, f) /\ slot[i].handle \notin Ciphers))

-----------------------------------------------------------------------------
(* The TPM's side (external).                                              *)

HandlesToAuthorise(f) ==
    IF "USER2" \in f THEN 2 ELSE IF "USER1" \in f THEN 1 ELSE 0

\* The TPM's rules for an authorisation area, the HMACs apart.
Proper(f) ==
    /\ \A i \in SlotIds : i < HandlesToAuthorise(f) => i \in Sent(f)
    /\ \A i \in Sent(f) :
          \/ /\ slot[i].handle = "pw" /\ i < HandlesToAuthorise(f)
             /\ slot[i].attrs \subseteq {"continue"}
          \/ /\ Crypto(i) /\ tpm[slot[i].handle] # Closed
             /\ i >= HandlesToAuthorise(f) =>
                   SentAttrs(i, f) \cap {"decrypt", "encrypt", "audit"} # {}
             /\ Encrypts(i, f) \/ Decrypts(i, f) => slot[i].handle \in Ciphers
    /\ \A i, j \in Sent(f) : i # j /\ Crypto(i) =>
          /\ slot[i].handle # slot[j].handle
          /\ ~(Encrypts(i, f) /\ Encrypts(j, f))
          /\ ~(Decrypts(i, f) /\ Decrypts(j, f))

InStep(i) == [key |-> slot[i].key, nonce |-> slot[i].nonceTPM] = tpm[slot[i].handle]

TpmAccepts(f) ==
    /\ Proper(f)
    /\ \A i \in Sent(f) : Crypto(i) => InStep(i) /\ Covered(i, f) = AsSent(f)

\* The sessions of an accepted command get a new nonce or end.
TpmRolls(f) ==
    tpm' = [s \in Sessions |->
              IF \E i \in Sent(f) : slot[i].handle = s
              THEN IF \E i \in Sent(f) : slot[i].handle = s /\ "continue" \in slot[i].attrs
                   THEN [tpm[s] EXCEPT !.nonce = commands + 1]
                   ELSE Closed
              ELSE tpm[s]]

-----------------------------------------------------------------------------
(* The answer.                                                             *)

\* What may be wrong with it: its parameters, or one entry's nonce or HMAC,
\* are altered, or (among anything else) its tag no longer says that there
\* are sessions.  Only an answer to an HMAC or policy session is checked.
CryptoSent(f) == {i \in Sent(f) : Crypto(i)}
Intact == [kind |-> "none", at |-> 0]
Damages(f) == {Intact} \cup [kind : {"param", "nonce", "hmac", "tag"}, at : CryptoSent(f)]

\* TPM2_ResponseProcess computes rpHash over the parameters as they are when
\* slot i is reached, the slots before it having decrypted them.
BadHmacNever(i, f, d) == FALSE
BadHmac(i, f, d) ==
    /\ Crypto(i)
    /\ \/ d.kind = "param"
       \/ d.kind \in {"nonce", "hmac"} /\ d.at = i
       \/ \E j \in Sent(f) : j < i /\ Decrypts(j, f)

\* The loop reaches slot i: no slot before it returned TPM_RC_HMAC.
Reached(i, f, d) == \A j \in Sent(f) : j < i => ~BadHmac(j, f, d)

\* TPM2_Packet_AppendAuth sets continueSession in the password slots it sends.
Appended(f) == [i \in SlotIds |->
    IF i \in Sent(f) /\ slot[i].handle = "pw"
    THEN [slot[i] EXCEPT !.attrs = @ \cup {"continue"}] ELSE slot[i]]

\* nonceTPM is stored before the HMAC that covers it is verified.
StoreNonceVerified(i, f, d) ==
    Crypto(i) /\ i \in Sent(f) /\ Reached(i, f, d) /\ ~BadHmac(i, f, d)
StoreNonce(i, f, d) == Crypto(i) /\ i \in Sent(f) /\ Reached(i, f, d)

Outcome(rc, f, d, clean) ==
    last' = [rc |-> rc, damage |-> d.kind, crypto |-> Cardinality(CryptoSent(f)),
             fair |-> clean /\ Proper(f) /\ \A i \in CryptoSent(f) : InStep(i)]

ResponseProcess(f, d) ==
    IF d.kind = "tag"
    THEN /\ slot' = Appended(f)
         /\ disturbed' = disturbed \cup {slot[i].handle : i \in CryptoSent(f)}
         /\ Outcome("ok", f, d, FALSE)
    ELSE /\ slot' = [i \in SlotIds |->
               IF ~StoreNonce(i, f, d) THEN Appended(f)[i]
               ELSE [slot[i] EXCEPT !.nonceTPM =
                        IF d = [kind |-> "nonce", at |-> i] THEN 0 ELSE commands + 1]]
         /\ disturbed' = disturbed \cup
               {slot[i].handle : i \in {j \in CryptoSent(f) :
                   ~Reached(j, f, d) \/ d = [kind |-> "nonce", at |-> j]}}
         /\ Outcome(IF \E i \in Sent(f) : BadHmac(i, f, d) THEN "badhmac" ELSE "ok",
                    f, d, d = Intact)

\* TPM2_SendCommandAuth.
Command(f) ==
    /\ commands < MaxCommands /\ commands' = commands + 1
    /\ UNCHANGED saved
    /\ \/ /\ LocalError(f)
          /\ slot' = Appended(f) /\ Outcome("local", f, Intact, TRUE)
          /\ UNCHANGED <<tpm, disturbed, faults>>
       \/ /\ ~LocalError(f) /\ ~TpmAccepts(f)
          /\ slot' = Appended(f) /\ Outcome("refused", f, Intact, TRUE)
          /\ UNCHANGED <<tpm, disturbed, faults>>
       \/ /\ ~LocalError(f) /\ Fault      \* the command is lost
          /\ slot' = Appended(f) /\ Outcome("lost", f, Intact, FALSE)
          /\ UNCHANGED <<tpm, disturbed>>
       \/ /\ ~LocalError(f) /\ TpmAccepts(f) /\ Fault     \* the answer is lost
          /\ TpmRolls(f)
          /\ slot' = Appended(f) /\ Outcome("lost", f, Intact, FALSE)
          /\ disturbed' = disturbed \cup {slot[i].handle : i \in CryptoSent(f)}
       \/ /\ ~LocalError(f) /\ TpmAccepts(f)
          /\ TpmRolls(f)
          /\ \E d \in Damages(f) :
                /\ IF d = Intact THEN UNCHANGED faults ELSE Fault
                /\ ResponseProcess(f, d)

\* A power cycle or reset of the TPM ends its sessions.
TpmReset ==
    /\ Fault
    /\ tpm' = [s \in Sessions |-> Closed]
    /\ Quiet /\ UNCHANGED <<slot, saved, commands, disturbed>>

-----------------------------------------------------------------------------
Next == \/ \E i \in SlotIds : SetAuth(i) \/ UnsetAuth(i) \/ SetSessionHandle(i, "pw")
        \/ \E u \in Uses : \/ SetAuthSession(u.slot, u.session, u.attrs)
                           \/ UnsetAuthSession(u.slot, u.session)
                           \/ SetSessionHandle(u.slot, u.session)
        \/ \E s \in Sessions, h \in {"pw", "none"} : StartSession(s, h)
        \/ \E s \in Sessions : UnloadHandle(s)
        \/ \E f \in Commands : Command(f)
        \/ TpmReset

Spec == Init /\ [][Next]_vars

-----------------------------------------------------------------------------
(* Properties.                                                             *)

TypeOK ==
    /\ slot \in [SlotIds -> Slot] /\ saved \in [Sessions -> Session]
    /\ tpm \in [Sessions -> Session] /\ commands \in Nat
    /\ last \in [rc : Results, damage : {"none", "param", "nonce", "hmac", "tag"},
                 crypto : Nat, fair : BOOLEAN]
    /\ disturbed \subseteq Sessions /\ faults \in Nat

\* A session keeps in step with the TPM across slots, commands and
\* wolfTPM2_UnsetAuthSession / wolfTPM2_SetAuthSession, unless it is disturbed:
\* an answer was lost or its own nonce damaged, an earlier slot's HMAC ended
\* TPM2_ResponseProcess before its turn, its slot was overwritten without
\* saving the nonce, or it sits in two slots.  In particular a damaged answer
\* whose HMAC is refused does not cost the session its step.
NoncesInStep ==
    \A s \in Sessions \ disturbed : Open(s) /\ tpm[s] # Closed =>
        IF \E i \in SlotIds : slot[i].handle = s
        THEN \A i \in SlotIds : slot[i].handle = s => InStep(i)
        ELSE saved[s] = tpm[s]

\* What makes NoncesInStep inductive: an undisturbed session sits in at most
\* one slot, and while both ends hold a session they hold the same one.
OneSlot == \A s \in Sessions \ disturbed : \A i, j \in SlotIds :
    slot[i].handle = s /\ slot[j].handle = s => i = j
SameKeys == \A s \in Sessions :
    Open(s) /\ tpm[s] # Closed => saved[s].key = tpm[s].key
StepInv == OneSlot /\ SameKeys /\ NoncesInStep

\* A command sent under at least one HMAC or policy session does not succeed
\* with an answer whose parameters, nonce or HMAC were altered, the sessions'
\* order and number whatever they are.  One alteration does succeed, and is
\* named: when the response tag no longer says that there are sessions,
\* TPM2_SendCommandAuth checks nothing.
AnswerIntact == last.rc = "ok" /\ last.crypto > 0 => last.damage \in {"none", "tag"}

\* With a single session in step, and the TPM's rules for the authorisation
\* area kept, a command that meets no fault succeeds: the HMAC covers the
\* parameter as it travels, in both directions.
CleanCommandSucceeds == last.fair /\ last.crypto <= 1 => last.rc = "ok"
=============================================================================

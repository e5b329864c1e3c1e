------------------------- MODULE CommandAuthProofs -------------------------
(***************************************************************************)
(* Theorems about CommandAuth, for any number of slots, sessions, commands *)
(* and faults: type correctness, that the sessions keep in step, that an   *)
(* altered answer is no success and that an undisturbed command is one.    *)
(***************************************************************************)
EXTENDS CommandAuth, FiniteSetTheorems, TLAPS

USE DEF Session, Closed

\* The sessions sent with a command, without those in the slots of kept; and
\* the slots whose own nonce the answer brings.
CryptoHandles(f, kept) == {slot[i].handle : i \in CryptoSent(f) \ kept}
Hit(f, d) == {i \in CryptoSent(f) : Reached(i, f, d) /\ d # [kind |-> "nonce", at |-> i]}

\* The slots after an answer with damage d has been taken in.
Answered(f, d) == [i \in SlotIds |->
    IF ~StoreNonce(i, f, d) THEN Appended(f)[i]
    ELSE [slot[i] EXCEPT !.nonceTPM =
             IF d = [kind |-> "nonce", at |-> i] THEN 0 ELSE commands + 1]]

\* The slots sent are a finite set of slots, whatever TPM2_GetCmdAuthCount
\* returns.
LEMMA SentSlots ==
    ASSUME NEW f
    PROVE  /\ Sent(f) \subseteq SlotIds /\ CryptoSent(f) \subseteq Sent(f)
           /\ IsFiniteSet(CryptoSent(f)) /\ Cardinality(CryptoSent(f)) \in Nat
<1>1. Sent(f) \subseteq SlotIds /\ CryptoSent(f) \subseteq Sent(f)
  BY DEF Sent, CryptoSent
<1>2. IsFiniteSet(SlotIds)
  BY FS_Interval, BoundAssumption DEF SlotIds
<1> QED
  BY <1>1, <1>2, FS_Subset, FS_CardinalityType

\* What TPM2_SendCommandAuth remembers of a command is well typed.
LEMMA OutcomeType ==
    ASSUME NEW f, NEW rc \in Results, NEW d, NEW c \in BOOLEAN, Outcome(rc, f, d, c),
           d.kind \in {"none", "param", "nonce", "hmac", "tag"}
    PROVE  last' \in [rc : Results, damage : {"none", "param", "nonce", "hmac", "tag"},
                      crypto : Nat, fair : BOOLEAN]
BY SentSlots DEF Outcome

\* A slot that wolfTPM2_UnsetAuth or wolfTPM2_SetAuth leaves is well typed.
LEMMA ZeroType == Zero \in Slot /\ [Zero EXCEPT !.handle = "pw"] \in Slot
BY DEF Zero, Slot

\* So are the slots that TPM2_Packet_AppendAuth leaves,
LEMMA AppendedType ==
    ASSUME NEW f, slot \in [SlotIds -> Slot]
    PROVE  Appended(f) \in [SlotIds -> Slot]
BY DEF Appended, Slot, Attributes

\* and those that TPM2_ResponseProcess leaves.
LEMMA AnsweredType ==
    ASSUME NEW f, NEW d, slot \in [SlotIds -> Slot], commands \in Nat
    PROVE  Answered(f, d) \in [SlotIds -> Slot]
<1>1. ASSUME NEW i \in SlotIds
      PROVE  [slot[i] EXCEPT !.nonceTPM =
                IF d = [kind |-> "nonce", at |-> i] THEN 0 ELSE commands + 1] \in Slot
  <2>1. slot[i] \in Slot
    OBVIOUS
  <2> QED
    BY <2>1 DEF Slot
<1> QED
  BY <1>1, AppendedType DEF Answered

\* How a command changes the slots, the TPM and the sessions in step: not at
\* all, or the TPM accepts it and the answer is not, or is, taken in.
LEMMA CommandCases ==
    ASSUME NEW f, Command(f)
    PROVE  \/ slot' = Appended(f) /\ tpm' = tpm /\ disturbed' = disturbed
           \/ /\ TpmAccepts(f) /\ TpmRolls(f) /\ slot' = Appended(f)
              /\ disturbed' = disturbed \cup CryptoHandles(f, {})
           \/ /\ TpmAccepts(f) /\ TpmRolls(f)
              /\ \E d : /\ slot' = Answered(f, d)
                       /\ disturbed' = disturbed \cup CryptoHandles(f, Hit(f, d))
<1>1. CryptoHandles(f, {}) = {slot[i].handle : i \in CryptoSent(f)}
  BY DEF CryptoHandles
<1>2. ASSUME NEW d, ResponseProcess(f, d)
      PROVE  \/ /\ slot' = Appended(f)
                /\ disturbed' = disturbed \cup CryptoHandles(f, {})
             \/ /\ slot' = Answered(f, d)
                /\ disturbed' = disturbed \cup CryptoHandles(f, Hit(f, d))
  <2>1. CryptoHandles(f, Hit(f, d)) = {slot[i].handle : i \in {j \in CryptoSent(f) :
                   ~Reached(j, f, d) \/ d = [kind |-> "nonce", at |-> j]}}
    BY DEF CryptoHandles, Hit
  <2> QED
    BY <1>1, <1>2, <2>1 DEF ResponseProcess, Answered
<1> QED
  BY <1>1, <1>2 DEF Command

\* Type correctness: every state of the slots, the application's sessions and
\* the TPM's sessions, under any sequence of calls and faults, is well typed.
THEOREM CommandTypeCorrect == Spec => []TypeOK
<1>1. Init => TypeOK
  BY ZeroType DEF Init, TypeOK, NoCommand, Results
<1>2. TypeOK /\ [Next]_vars => TypeOK'
  <2> SUFFICES ASSUME TypeOK, [Next]_vars PROVE TypeOK'
    OBVIOUS
  <2> USE DEF TypeOK
  <2>q. ASSUME Quiet
        PROVE  last' \in [rc : Results, damage : {"none", "param", "nonce", "hmac", "tag"},
                          crypto : Nat, fair : BOOLEAN]
    BY <2>q DEF Quiet, NoCommand, Results
  <2>f. ASSUME UNCHANGED faults \/ Fault PROVE faults' \in Nat
    BY <2>f DEF Fault
  <2>d. \A i \in SlotIds : Dropped(i) \subseteq Sessions
    BY DEF Dropped
  <2>1. ASSUME NEW i \in SlotIds, SetAuth(i) PROVE TypeOK'
    BY <2>1, <2>q, <2>d, ZeroType DEF SetAuth, Assign
  <2>2. ASSUME NEW i \in SlotIds, UnsetAuth(i) PROVE TypeOK'
    BY <2>2, <2>q, <2>d, ZeroType DEF UnsetAuth, Assign
  <2>3. ASSUME NEW i \in SlotIds, NEW h \in Sessions \cup {"pw"}, SetSessionHandle(i, h)
        PROVE TypeOK'
    <3>1. slot[i] \in Slot
      OBVIOUS
    <3>2. h = "pw" \/ saved[h].key \in Nat
      OBVIOUS
    <3>3. [slot[i] EXCEPT !.handle = h, !.key = IF h = "pw" THEN @ ELSE saved[h].key] \in Slot
      BY <3>1, <3>2 DEF Slot
    <3>4. slot' \in [SlotIds -> Slot]
      BY <2>3, <3>3 DEF SetSessionHandle, Assign
    <3> QED
      BY <2>3, <3>4, <2>q, <2>d DEF SetSessionHandle
  <2>4. ASSUME NEW u \in Uses, SetAuthSession(u.slot, u.session, u.attrs)
        PROVE TypeOK'
    <3>1. u.slot \in SlotIds /\ u.session \in Sessions /\ u.attrs \in SUBSET Attributes
      BY InputAssumption DEF SlotIds
    <3>2. slot' \in [SlotIds -> Slot]
      BY <2>4, <3>1 DEF SetAuthSession, Assign, Slot
    <3> QED
      BY <2>4, <3>1, <3>2, <2>q, <2>d DEF SetAuthSession
  <2>5. ASSUME NEW u \in Uses, UnsetAuthSession(u.slot, u.session)
        PROVE TypeOK'
    <3>1. u.slot \in SlotIds /\ u.session \in Sessions
      BY InputAssumption DEF SlotIds
    <3>2. saved' \in [Sessions -> Session]
      BY <2>5, <3>1 DEF UnsetAuthSession, KeepNonce, Slot
    <3> QED
      BY <2>5, <3>1, <3>2, <2>q, <2>d, ZeroType DEF UnsetAuthSession, Assign
  <2>6. ASSUME NEW s \in Sessions, NEW h \in {"pw", "none"}, StartSession(s, h)
        PROVE TypeOK'
    <3>1. slot' \in [SlotIds -> Slot]
      <4>1. PICK attrs \in SUBSET Attributes :
               slot' = [slot EXCEPT ![0] = [Zero EXCEPT !.handle = h, !.attrs = attrs]]
        BY <2>6 DEF StartSession, Assign, SlotAttributes, Attributes
      <4>2. [Zero EXCEPT !.handle = h, !.attrs = attrs] \in Slot
        BY <2>6 DEF Slot, Zero
      <4>3. slot \in [SlotIds -> Slot]
        OBVIOUS
      <4> HIDE DEF Slot, Zero
      <4> QED
        BY <4>1, <4>2, <4>3
    <3>2. tpm' \in [Sessions -> Session] /\ saved' \in [Sessions -> Session]
      <4> DEFINE started == [key |-> commands + 1, nonce |-> commands + 1]
      <4>1. started \in Session /\ Closed \in Session
        OBVIOUS
      <4>2. /\ tpm' \in {tpm, [tpm EXCEPT ![s] = started]}
            /\ saved' \in {[saved EXCEPT ![s] = started], [saved EXCEPT ![s] = Closed]}
        BY <2>6 DEF StartSession
      <4>3. tpm \in [Sessions -> Session] /\ saved \in [Sessions -> Session]
        OBVIOUS
      <4> HIDE DEF started, TypeOK, Session, Closed
      <4> QED
        BY <4>1, <4>2, <4>3
    <3>3. disturbed' \subseteq Sessions
      BY <2>6 DEF StartSession, Dropped
    <3> QED
      BY <2>6, <3>1, <3>2, <3>3, <2>q, <2>f DEF StartSession
  <2>7. ASSUME NEW s \in Sessions, UnloadHandle(s) PROVE TypeOK'
    <3>1. tpm' \in [Sessions -> Session] /\ saved' \in [Sessions -> Session]
      BY <2>7 DEF UnloadHandle
    <3> QED
      BY <2>7, <3>1, <2>q, <2>f DEF UnloadHandle
  <2>8. ASSUME NEW f \in Commands, Command(f) PROVE TypeOK'
    <3>1. commands' \in Nat /\ saved' = saved
      BY <2>8 DEF Command
    <3>2. faults' \in Nat
      <4>1. UNCHANGED faults \/ Fault
        BY <2>8, Zenon DEF Command
      <4> QED
        BY <4>1, <2>f
    <3>3. tpm' \in [Sessions -> Session]
      <4>1. tpm' = tpm \/ TpmRolls(f)
        BY <2>8, CommandCases
      <4>2. \A s \in Sessions : [tpm[s] EXCEPT !.nonce = commands + 1] \in Session
        OBVIOUS
      <4> QED
        BY <4>1, <4>2 DEF TpmRolls
    <3>4. slot' \in [SlotIds -> Slot] /\ disturbed' \subseteq Sessions
      <4>1. \A kept : CryptoHandles(f, kept) \subseteq Sessions
        BY DEF CryptoHandles, CryptoSent, Crypto
      <4>2. slot' = Appended(f) \/ \E d : slot' = Answered(f, d)
        BY <2>8, CommandCases
      <4>3. disturbed' = disturbed \/ \E kept : disturbed' = disturbed \cup CryptoHandles(f, kept)
        BY <2>8, CommandCases
      <4>4. slot' \in [SlotIds -> Slot]
        BY <4>2, AppendedType, AnsweredType
      <4> QED
        BY <4>1, <4>3, <4>4
    <3>5. last' \in [rc : Results, damage : {"none", "param", "nonce", "hmac", "tag"},
                     crypto : Nat, fair : BOOLEAN]
      <4>1. ASSUME NEW d \in Damages(f), ResponseProcess(f, d)
            PROVE  last' \in [rc : Results, damage : {"none", "param", "nonce", "hmac", "tag"},
                              crypto : Nat, fair : BOOLEAN]
        <5>1. d.kind \in {"none", "param", "nonce", "hmac", "tag"}
          BY DEF Damages, Intact
        <5> QED
          BY <4>1, <5>1, OutcomeType DEF ResponseProcess, Results
      <4>2. Intact.kind \in {"none", "param", "nonce", "hmac", "tag"}
        BY DEF Intact
      <4> QED
        BY <2>8, <4>1, <4>2, OutcomeType DEF Command, Results
    <3> QED
      BY <3>1, <3>2, <3>3, <3>4, <3>5
  <2>9. CASE TpmReset
    BY <2>9, <2>q, <2>f DEF TpmReset
  <2>10. CASE UNCHANGED vars
    BY <2>10 DEF vars
  <2>11. ASSUME NEW u \in Uses PROVE u.slot \in SlotIds /\ u.session \in Sessions
    BY InputAssumption DEF SlotIds
  <2> QED
    BY <2>1, <2>2, <2>3, <2>4, <2>5, <2>6, <2>7, <2>8, <2>9, <2>10, <2>11 DEF Next
<1> QED
  BY <1>1, <1>2, PTL DEF Spec

-----------------------------------------------------------------------------
\* StepInv, session by session.
SessionStep(s) ==
    /\ s \notin disturbed => \A i, j \in SlotIds :
          slot[i].handle = s /\ slot[j].handle = s => i = j
    /\ saved[s] # Closed /\ tpm[s] # Closed => saved[s].key = tpm[s].key
    /\ s \notin disturbed /\ saved[s] # Closed /\ tpm[s] # Closed =>
          /\ \A i \in SlotIds : slot[i].handle = s =>
                slot[i].key = tpm[s].key /\ slot[i].nonceTPM = tpm[s].nonce
          /\ (\A i \in SlotIds : slot[i].handle # s) => saved[s] = tpm[s]

\* The three parts of StepInv amount to SessionStep for every session.
LEMMA StepBySession == TypeOK => (StepInv <=> \A s \in Sessions : SessionStep(s))
<1> SUFFICES ASSUME TypeOK PROVE StepInv <=> \A s \in Sessions : SessionStep(s)
  OBVIOUS
<1>1. ASSUME NEW i \in SlotIds, slot[i].handle \in Sessions
      PROVE  InStep(i) <=> /\ slot[i].key = tpm[slot[i].handle].key
                           /\ slot[i].nonceTPM = tpm[slot[i].handle].nonce
  BY <1>1 DEF InStep, TypeOK
<1>2. OneSlot /\ SameKeys <=> \A s \in Sessions :
         /\ s \notin disturbed => \A i, j \in SlotIds :
               slot[i].handle = s /\ slot[j].handle = s => i = j
         /\ saved[s] # Closed /\ tpm[s] # Closed => saved[s].key = tpm[s].key
  BY DEF OneSlot, SameKeys, Open
<1>3. NoncesInStep <=> \A s \in Sessions :
         s \notin disturbed /\ saved[s] # Closed /\ tpm[s] # Closed =>
          /\ \A i \in SlotIds : slot[i].handle = s =>
                slot[i].key = tpm[s].key /\ slot[i].nonceTPM = tpm[s].nonce
          /\ (\A i \in SlotIds : slot[i].handle # s) => saved[s] = tpm[s]
  BY <1>1 DEF NoncesInStep, Open
<1> QED
  BY <1>2, <1>3 DEF StepInv, SessionStep

\* A session left alone stays in step: both ends keep it, and every slot that
\* holds it afterwards held it before and was not changed.
LEMMA Untouched ==
    ASSUME NEW s \in Sessions, SessionStep(s),
           s \in disturbed => s \in disturbed',
           saved'[s] = saved[s], tpm'[s] = tpm[s],
           \A i \in SlotIds : s \notin disturbed' =>
              (slot'[i].handle = s <=> slot[i].handle = s),
           \A i \in SlotIds : s \notin disturbed' /\ slot[i].handle = s =>
              slot'[i].key = slot[i].key /\ slot'[i].nonceTPM = slot[i].nonceTPM
    PROVE  SessionStep(s)'
BY Zenon DEF SessionStep

-----------------------------------------------------------------------------
\* The wrapper calls keep every session in step.
LEMMA CallsKeepStep ==
    ASSUME TypeOK, [Next]_vars, \A f \in Commands : ~Command(f),
           NEW t \in Sessions, SessionStep(t)
    PROVE  SessionStep(t)'
<1> USE DEF TypeOK
<1>1. ASSUME NEW i \in SlotIds, NEW v, Assign(i, v), v.handle \notin Sessions,
             disturbed' = disturbed \cup Dropped(i), UNCHANGED <<saved, tpm>>
      PROVE  SessionStep(t)'
  <2>1. \A j \in SlotIds : slot'[j] = IF j = i THEN v ELSE slot[j]
    BY <1>1 DEF Assign
  <2>2. t \notin disturbed' => slot[i].handle # t
    BY <1>1 DEF Dropped
  <2> QED
    BY <1>1, <2>1, <2>2, Untouched
<1>2. ASSUME NEW i \in SlotIds, SetAuth(i) \/ UnsetAuth(i) PROVE SessionStep(t)'
  BY <1>1, <1>2, SessionAssumption DEF SetAuth, UnsetAuth, Zero
<1>3. ASSUME NEW i \in SlotIds, NEW h \in Sessions \cup {"pw"}, SetSessionHandle(i, h)
      PROVE SessionStep(t)'
  <2>1. \A j \in SlotIds \ {i} : slot'[j] = slot[j]
    BY <1>3 DEF SetSessionHandle, Assign
  <2>2. slot'[i].handle = h /\ slot'[i].nonceTPM = slot[i].nonceTPM
        /\ slot'[i].key = IF h = "pw" THEN slot[i].key ELSE saved[h].key
    BY <1>3 DEF SetSessionHandle, Assign, Slot
  <2>3. UNCHANGED <<saved, tpm>> /\ disturbed \subseteq disturbed'
    BY <1>3 DEF SetSessionHandle
  <2>4. CASE h = slot[i].handle
    <3>1. disturbed' = disturbed
      BY <1>3, <2>4 DEF SetSessionHandle
    <3>2. CASE h = t
      <4>1. slot'[i].handle = t /\ slot'[i].key = saved[t].key
            /\ slot'[i].nonceTPM = slot[i].nonceTPM
        BY <3>2, <2>2, SessionAssumption
      <4>2. slot[i].handle = t
        BY <3>2, <2>4
      <4>3. \A j \in SlotIds : /\ slot'[j].handle = slot[j].handle
                                /\ slot'[j].nonceTPM = slot[j].nonceTPM
        BY <4>1, <4>2, <2>1
      <4>4. saved' = saved /\ tpm' = tpm
        BY <2>3
      <4>5. \A j \in SlotIds : slot'[j].key = slot[j].key \/ slot'[j].key = saved[t].key
        BY <4>1, <2>1
      <4>6. t \notin disturbed' => \A k, j \in SlotIds :
               slot'[k].handle = t /\ slot'[j].handle = t => k = j
        BY <3>1, <4>3 DEF SessionStep
      <4>7. saved'[t] # Closed /\ tpm'[t] # Closed => saved'[t].key = tpm'[t].key
        BY <4>4 DEF SessionStep
      <4>8. t \notin disturbed' /\ saved'[t] # Closed /\ tpm'[t] # Closed =>
               \A j \in SlotIds : slot'[j].handle = t =>
                  slot'[j].key = tpm'[t].key /\ slot'[j].nonceTPM = tpm'[t].nonce
        <5> SUFFICES ASSUME t \notin disturbed', saved'[t] # Closed, tpm'[t] # Closed,
                            NEW j \in SlotIds, slot'[j].handle = t
                     PROVE  slot'[j].key = tpm'[t].key /\ slot'[j].nonceTPM = tpm'[t].nonce
          OBVIOUS
        <5>1. slot[j].key = tpm[t].key /\ slot[j].nonceTPM = tpm[t].nonce /\ saved[t].key = tpm[t].key
          BY <3>1, <4>3, <4>4 DEF SessionStep
        <5> QED
          BY <4>3, <4>4, <4>5, <5>1
      <4>9. \E j \in SlotIds : slot'[j].handle = t
        BY <4>2, <4>3
      <4> QED
        BY <4>6, <4>7, <4>8, <4>9 DEF SessionStep
    <3>3. CASE h # t
      BY <3>1, <3>3, <2>1, <2>2, <2>3, <2>4, Untouched
    <3> QED
      BY <3>2, <3>3
  <2>5. CASE h # slot[i].handle
    <3>1. disturbed' = disturbed \cup Dropped(i) \cup ({h} \cap Sessions)
      BY <1>3, <2>5 DEF SetSessionHandle
    <3>2. t \notin disturbed' => slot[i].handle # t /\ h # t
      BY <3>1 DEF Dropped
    <3> QED
      BY <3>1, <3>2, <2>1, <2>2, <2>3, Untouched
  <2> QED
    BY <2>4, <2>5
<1>4. ASSUME NEW i \in SlotIds, NEW s \in Sessions, NEW a, SetAuthSession(i, s, a)
      PROVE SessionStep(t)'
  <2>1. \A j \in SlotIds \ {i} : slot'[j] = slot[j]
    BY <1>4 DEF SetAuthSession, Assign
  <2>2. /\ slot'[i].handle = IF saved[s] # Closed THEN s ELSE "none"
        /\ slot'[i].nonceTPM = saved[s].nonce /\ slot'[i].key = saved[s].key
    BY <1>4 DEF SetAuthSession, Assign, Open
  <2>3. UNCHANGED <<saved, tpm>> /\ disturbed \subseteq disturbed'
    BY <1>4 DEF SetAuthSession
  <2>4. t \notin disturbed' => /\ slot[i].handle # t
                               /\ s = t => \A j \in SlotIds : slot[j].handle # s
    BY <1>4 DEF SetAuthSession, Dropped
  <2>5. CASE s = t /\ saved[s] # Closed
    BY <2>1, <2>2, <2>3, <2>4, <2>5 DEF SessionStep
  <2>6. CASE s # t \/ saved[s] = Closed
    BY <2>1, <2>2, <2>3, <2>4, <2>6, Untouched, SessionAssumption
  <2> QED
    BY <2>5, <2>6
<1>5. ASSUME NEW i \in SlotIds, NEW s \in Sessions, UnsetAuthSession(i, s)
      PROVE SessionStep(t)'
  <2>1. \A j \in SlotIds : slot'[j] = IF j = i THEN Zero ELSE slot[j]
    BY <1>5 DEF UnsetAuthSession, Assign
  <2>2. Zero.handle \notin Sessions
    BY SessionAssumption DEF Zero
  <2>3. /\ \A r \in Sessions \ {s} : saved'[r] = saved[r]
        /\ saved[s] = Closed => saved'[s] = saved[s]
        /\ saved[s] # Closed => saved'[s] = [key |-> saved[s].key, nonce |-> slot[i].nonceTPM]
    BY <1>5 DEF UnsetAuthSession, KeepNonce, Open
  <2>4. tpm' = tpm /\ disturbed \subseteq disturbed'
    BY <1>5 DEF UnsetAuthSession
  <2>5. t \notin disturbed' => (slot[i].handle = t <=> s = t)
    BY <1>5 DEF UnsetAuthSession, Dropped
  <2>6. CASE s = t
    <3>1. t \notin disturbed' => \A j \in SlotIds : slot'[j].handle # t
      BY <2>1, <2>2, <2>4, <2>5, <2>6 DEF SessionStep
    <3>2. tpm[t] = [key |-> tpm[t].key, nonce |-> tpm[t].nonce]
      OBVIOUS
    <3> QED
      BY <3>1, <3>2, <2>3, <2>4, <2>5, <2>6 DEF SessionStep
  <2>7. CASE s # t
    BY <2>1, <2>2, <2>3, <2>4, <2>5, <2>7, Untouched
  <2> QED
    BY <2>6, <2>7
<1>6. ASSUME NEW s \in Sessions, NEW h \in {"pw", "none"}, StartSession(s, h)
      PROVE SessionStep(t)'
  <2>1. \A j \in SlotIds \ {0} : slot'[j] = slot[j]
    BY <1>6 DEF StartSession, Assign
  <2>2. 0 \in SlotIds => slot'[0].handle \notin Sessions
    BY <1>6, SessionAssumption DEF StartSession, Assign, Zero
  <2>3. /\ \A r \in Sessions \ {s} : saved'[r] = saved[r] /\ tpm'[r] = tpm[r]
        /\ saved'[s] = Closed \/ saved'[s] = tpm'[s]
    BY <1>6 DEF StartSession
  <2>4. CASE s = t
    <3>1. t \notin disturbed' => \A j \in SlotIds : slot'[j].handle # t
      BY <1>6, <2>1, <2>2, <2>4 DEF StartSession
    <3> QED
      BY <3>1, <2>3, <2>4 DEF SessionStep
  <2>5. CASE s # t
    <3>1. /\ t \in disturbed => t \in disturbed'
          /\ 0 \in SlotIds /\ t \notin disturbed' => slot[0].handle # t
      BY <1>6, <2>5 DEF StartSession, Dropped
    <3> QED
      BY <3>1, <2>1, <2>2, <2>3, <2>5, Untouched
  <2> QED
    BY <2>4, <2>5
<1>7. ASSUME NEW s \in Sessions, UnloadHandle(s) PROVE SessionStep(t)'
  <2>1. /\ \A r \in Sessions \ {s} : saved'[r] = saved[r] /\ tpm'[r] = tpm[r]
        /\ tpm'[s] = Closed \/ (saved'[s] = saved[s] /\ tpm'[s] = tpm[s])
    BY <1>7 DEF UnloadHandle
  <2>2. UNCHANGED <<slot, disturbed>>
    BY <1>7 DEF UnloadHandle
  <2> QED
    BY <2>1, <2>2 DEF SessionStep
<1>8. CASE TpmReset
  BY <1>8 DEF TpmReset, SessionStep
<1>9. CASE UNCHANGED vars
  BY <1>9 DEF vars, SessionStep
<1>10. ASSUME NEW u \in Uses PROVE u.slot \in SlotIds /\ u.session \in Sessions
  BY InputAssumption DEF SlotIds
<1> QED
  BY <1>2, <1>3, <1>4, <1>5, <1>6, <1>7, <1>8, <1>9, <1>10 DEF Next

\* A command keeps every session in step.  One that was sent and accepted was
\* in step in its only slot, and slot and TPM take the same new nonce unless
\* the session is disturbed.
LEMMA CommandKeepsStep ==
    ASSUME TypeOK, NEW f, Command(f), NEW t \in Sessions, SessionStep(t)
    PROVE  SessionStep(t)'
<1> USE DEF TypeOK
<1>1. ASSUME NEW i \in SlotIds
      PROVE  /\ Appended(f)[i].handle = slot[i].handle
             /\ Appended(f)[i].key = slot[i].key
             /\ Appended(f)[i].nonceTPM = slot[i].nonceTPM
  BY DEF Appended, Slot
<1>2. saved' = saved
  BY DEF Command
<1>3. ASSUME slot' = Appended(f), disturbed \subseteq disturbed', tpm'[t] = tpm[t]
      PROVE  SessionStep(t)'
  BY <1>1, <1>2, <1>3, Untouched
<1>4. ASSUME TpmRolls(f), t \notin CryptoHandles(f, {}) PROVE tpm'[t] = tpm[t]
  BY <1>4 DEF TpmRolls, CryptoHandles, CryptoSent, Crypto
<1>5. ASSUME TpmAccepts(f), TpmRolls(f), NEW i \in CryptoSent(f), slot[i].handle = t
      PROVE  /\ tpm[t] # Closed
             /\ tpm'[t] # Closed => tpm'[t].key = tpm[t].key
             /\ tpm'[t] # Closed => tpm'[t].nonce = commands + 1
             /\ slot[i].key = tpm[t].key
  <2>1. i \in Sent(f) /\ Crypto(i)
    BY DEF CryptoSent
  <2>2. tpm[t] # Closed
    <3>1. slot[i].handle # "pw"
      BY <1>5, SessionAssumption
    <3> QED
      BY <1>5, <2>1, <3>1 DEF TpmAccepts, Proper
  <2>3. slot[i].key = tpm[t].key
    <3>1. InStep(i)
      BY <1>5, <2>1 DEF TpmAccepts
    <3>2. [key |-> slot[i].key, nonce |-> slot[i].nonceTPM] = tpm[t]
      BY <1>5, <3>1 DEF InStep
    <3> QED
      BY <3>2
  <2>4. tpm'[t] = Closed \/ tpm'[t] = [tpm[t] EXCEPT !.nonce = commands + 1]
    BY <1>5, <2>1 DEF TpmRolls
  <2> QED
    BY <2>2, <2>3, <2>4
<1>6. ASSUME TpmAccepts(f), TpmRolls(f), slot' = Appended(f),
             disturbed' = disturbed \cup CryptoHandles(f, {})
      PROVE  SessionStep(t)'
  <2>1. CASE t \in CryptoHandles(f, {})
    <3>1. PICK i \in CryptoSent(f) : slot[i].handle = t
      BY <2>1 DEF CryptoHandles
    <3> QED
      BY <1>2, <1>5, <1>6, <2>1, <3>1 DEF SessionStep
  <2>2. CASE t \notin CryptoHandles(f, {})
    BY <1>3, <1>4, <1>6, <2>2
  <2> QED
    BY <2>1, <2>2
<1>7. ASSUME NEW d, TpmAccepts(f), TpmRolls(f), slot' = Answered(f, d),
             disturbed' = disturbed \cup CryptoHandles(f, Hit(f, d))
      PROVE  SessionStep(t)'
  <2>1. ASSUME NEW j \in SlotIds
        PROVE  slot'[j].handle = slot[j].handle /\ slot'[j].key = slot[j].key
    BY <1>1, <1>7 DEF Answered, Slot
  <2>2. ASSUME NEW j \in SlotIds, j \notin CryptoSent(f)
        PROVE  slot'[j].nonceTPM = slot[j].nonceTPM
    BY <1>1, <1>7, <2>2 DEF Answered, StoreNonce, CryptoSent
  <2>3. ASSUME NEW j \in Hit(f, d) PROVE slot'[j].nonceTPM = commands + 1
    <3>1. j \in SlotIds /\ StoreNonce(j, f, d) /\ d # [kind |-> "nonce", at |-> j]
      BY SentSlots DEF Hit, StoreNonce, CryptoSent
    <3> QED
      BY <1>7, <3>1 DEF Answered, Slot
  <2>4. CASE t \in CryptoHandles(f, {})
    <3>1. PICK i \in CryptoSent(f) : slot[i].handle = t
      BY <2>4 DEF CryptoHandles
    <3>2. i \in SlotIds
      BY SentSlots
    <3>3. t \notin disturbed' => i \in Hit(f, d)
      BY <1>7, <3>1 DEF CryptoHandles
    <3>4. t \notin disturbed' => \A j \in SlotIds : slot[j].handle = t => j = i
      BY <1>7, <3>1, <3>2 DEF SessionStep
    <3>5. /\ tpm[t] # Closed /\ slot[i].key = tpm[t].key
          /\ tpm'[t] # Closed => tpm'[t].key = tpm[t].key /\ tpm'[t].nonce = commands + 1
      BY <1>5, <1>7, <3>1
    <3>6. t \notin disturbed' => slot'[i].nonceTPM = commands + 1
      BY <2>3, <3>3
    <3>7. t \notin disturbed' => \A j \in SlotIds : slot'[j].handle = t => j = i
      BY <2>1, <3>4
    <3>8. slot'[i].handle = t /\ slot'[i].key = slot[i].key
      BY <2>1, <3>1, <3>2
    <3> QED
      BY <1>2, <3>2, <3>5, <3>6, <3>7, <3>8 DEF SessionStep
  <2>5. CASE t \notin CryptoHandles(f, {})
    <3>1. \A j \in SlotIds : slot[j].handle = t => j \notin CryptoSent(f)
      BY <2>5 DEF CryptoHandles
    <3> QED
      BY <1>2, <1>4, <1>7, <2>1, <2>2, <2>5, <3>1, Untouched
  <2> QED
    BY <2>4, <2>5
<1> QED
  BY <1>3, <1>6, <1>7, CommandCases

\* Every session that nothing disturbed is in step with the TPM: in the slot
\* that holds it, or else in the application's WOLFTPM2_SESSION.  It takes
\* OneSlot (only one slot follows the TPM's nonces) and SameKeys (the key that
\* wolfTPM2_UnsetAuthSession leaves in place is the TPM's) to be inductive.
THEOREM SessionsInStep == Spec => []NoncesInStep
<1>1. Init => StepInv
  <2> SUFFICES ASSUME Init PROVE StepInv
    OBVIOUS
  <2>1. \A i \in SlotIds : slot[i].handle \notin Sessions
    BY SessionAssumption DEF Init, Zero
  <2> QED
    BY <2>1 DEF Init, StepInv, OneSlot, SameKeys, NoncesInStep, Open
<1>2. (TypeOK => (StepInv <=> \A s \in Sessions : SessionStep(s)))'
  BY StepBySession, PTL
<1>3. TypeOK /\ TypeOK' /\ StepInv /\ [Next]_vars => StepInv'
  <2> SUFFICES ASSUME TypeOK, TypeOK', StepInv, [Next]_vars PROVE StepInv'
    OBVIOUS
  <2>1. \A s \in Sessions : SessionStep(s)
    BY StepBySession
  <2>2. \A s \in Sessions : SessionStep(s)'
    BY <2>1, CallsKeepStep, CommandKeepsStep
  <2>3. TypeOK' => (StepInv' <=> \A s \in Sessions : SessionStep(s)')
    BY <1>2
  <2> QED
    BY <2>2, <2>3
<1>4. StepInv => NoncesInStep
  BY DEF StepInv
<1> QED
  BY <1>1, <1>3, <1>4, CommandTypeCorrect, PTL DEF Spec

-----------------------------------------------------------------------------
(* What a command returns.                                                 *)

\* An answer with altered parameters is refused by the first session checked,
\* one with an altered nonce or HMAC at the latest by the session they belong
\* to.  No induction is needed: the last command alone decides.
LEMMA ResponseKeepsIntact ==
    ASSUME NEW f, NEW d \in Damages(f), ResponseProcess(f, d)
    PROVE  AnswerIntact'
<1>1. CASE d.kind \in {"param", "nonce", "hmac"}
  <2>1. d # Intact
    BY <1>1 DEF Intact
  <2>2. d.at \in CryptoSent(f)
    BY <2>1 DEF Damages
  <2>3. BadHmac(d.at, f, d) /\ d.at \in Sent(f)
    BY <1>1, <2>2 DEF CryptoSent, BadHmac
  <2> QED
    BY <1>1, <2>3 DEF ResponseProcess, Outcome, AnswerIntact
<1>2. CASE d.kind \in {"none", "tag"}
  BY <1>2 DEF ResponseProcess, Outcome, AnswerIntact
<1> QED
  BY <1>1, <1>2 DEF Damages, Intact

\* The calls on the slots leave no command behind in last.
LEMMA QuietOrCommand ==
    ASSUME [Next]_vars
    PROVE  Quiet \/ UNCHANGED vars \/ \E f \in Commands : Command(f)
BY DEF Next, SetAuth, UnsetAuth, SetSessionHandle, SetAuthSession, UnsetAuthSession,
       StartSession, UnloadHandle, TpmReset

\* A command sent under an HMAC or policy session does not succeed with an
\* answer whose parameters, nonces or HMACs were altered on the way:
\* TPM2_ResponseProcess checks the sessions' HMACs in turn, up to the first bad
\* one.  The claim ends where TPM2_SendCommandAuth skips it: an answer whose tag
\* was altered to say that it carries no sessions is taken unchecked.
THEOREM AnswersAreIntact == Spec => []AnswerIntact
<1>1. Init => AnswerIntact
  BY DEF Init, AnswerIntact, NoCommand
<1>2. AnswerIntact /\ [Next]_vars => AnswerIntact'
  <2> SUFFICES ASSUME AnswerIntact, [Next]_vars PROVE AnswerIntact'
    OBVIOUS
  <2>1. CASE Quiet
    BY <2>1 DEF Quiet, NoCommand, AnswerIntact
  <2>2. CASE UNCHANGED vars
    BY <2>2 DEF vars, AnswerIntact
  <2>3. ASSUME NEW f \in Commands, Command(f) PROVE AnswerIntact'
    <3>1. ASSUME NEW rc, NEW c, Outcome(rc, f, Intact, c) PROVE AnswerIntact'
      BY <3>1 DEF Outcome, Intact, AnswerIntact
    <3> QED
      BY <2>3, <3>1, ResponseKeepsIntact DEF Command
  <2> QED
    BY <2>1, <2>2, <2>3, QuietOrCommand
<1> QED
  BY <1>1, <1>2, PTL DEF Spec

\* What CleanCommandSucceeds rests on: a slot without a hash algorithm, as
\* wolfTPM2_SetSessionHandle leaves an empty one, has nonceTPM 0, and no session
\* of the TPM has: such a slot is never in step.
NonceMeansHash ==
    /\ \A i \in SlotIds : ~slot[i].authHash => slot[i].nonceTPM = 0
    /\ \A s \in Sessions : tpm[s] # Closed => tpm[s].nonce > 0

\* The slots and the TPM keep NonceMeansHash in a command: nonces are stored
\* only when the command was built, which takes a hash algorithm.
LEMMA CommandKeepsHash ==
    ASSUME TypeOK, NonceMeansHash, NEW f, Command(f)
    PROVE  NonceMeansHash'
<1> USE DEF TypeOK
<1>1. ASSUME NEW i \in SlotIds
      PROVE  /\ Appended(f)[i].authHash = slot[i].authHash
             /\ Appended(f)[i].nonceTPM = slot[i].nonceTPM
  BY DEF Appended, Slot
<1>2. \A s \in Sessions : tpm'[s] # Closed => tpm'[s].nonce > 0
  <2>1. tpm' = tpm \/ TpmRolls(f)
    BY CommandCases
  <2>2. ASSUME TpmRolls(f), NEW s \in Sessions
        PROVE  tpm'[s] = tpm[s] \/ tpm'[s] = Closed
               \/ tpm'[s] = [tpm[s] EXCEPT !.nonce = commands + 1]
    BY <2>2 DEF TpmRolls
  <2>3. \A s \in Sessions : [tpm[s] EXCEPT !.nonce = commands + 1].nonce = commands + 1
    OBVIOUS
  <2>4. commands + 1 > 0
    OBVIOUS
  <2> QED
    BY <2>1, <2>2, <2>3, <2>4 DEF NonceMeansHash
<1>3. slot' = Appended(f) \/ (~LocalError(f) /\ \E d : slot' = Answered(f, d))
  BY DEF Command, ResponseProcess, Answered
<1>4. ASSUME slot' = Appended(f), NEW i \in SlotIds, ~slot'[i].authHash
      PROVE  slot'[i].nonceTPM = 0
  BY <1>1, <1>4 DEF NonceMeansHash
<1>5. ASSUME ~LocalError(f), NEW d, slot' = Answered(f, d), NEW i \in SlotIds, ~slot'[i].authHash
      PROVE  slot'[i].nonceTPM = 0
  <2>1. CASE StoreNonce(i, f, d)
    <3>1. slot'[i].authHash = slot[i].authHash
      BY <1>5, <2>1 DEF Answered, Slot
    <3>2. slot[i].authHash
      BY <1>5, <2>1 DEF LocalError, StoreNonce
    <3> QED
      BY <1>5, <3>1, <3>2
  <2>2. CASE ~StoreNonce(i, f, d)
    <3>1. slot'[i] = Appended(f)[i]
      BY <1>5, <2>2 DEF Answered
    <3> QED
      BY <1>1, <1>5, <3>1 DEF NonceMeansHash
  <2> QED
    BY <2>1, <2>2
<1> QED
  BY <1>2, <1>3, <1>4, <1>5 DEF NonceMeansHash

\* So do the calls.
LEMMA CallsKeepHash ==
    ASSUME TypeOK, NonceMeansHash, [Next]_vars, \A f \in Commands : ~Command(f)
    PROVE  NonceMeansHash'
<1> USE DEF TypeOK, NonceMeansHash
<1>1. ASSUME NEW i \in SlotIds, SetAuth(i) \/ UnsetAuth(i) PROVE NonceMeansHash'
  <2>1. \A j \in SlotIds : slot'[j] = slot[j] \/ slot'[j].nonceTPM = 0
    BY <1>1 DEF SetAuth, UnsetAuth, Assign, Zero
  <2>2. tpm' = tpm
    BY <1>1 DEF SetAuth, UnsetAuth
  <2> QED
    BY <2>1, <2>2
<1>2. ASSUME NEW i \in SlotIds, NEW h, SetSessionHandle(i, h) PROVE NonceMeansHash'
  <2>1. \A j \in SlotIds : /\ slot'[j].authHash = slot[j].authHash
                           /\ slot'[j].nonceTPM = slot[j].nonceTPM
    BY <1>2 DEF SetSessionHandle, Assign, Slot
  <2> QED
    BY <1>2, <2>1 DEF SetSessionHandle
<1>3. ASSUME NEW i \in SlotIds, NEW s, NEW a, SetAuthSession(i, s, a) PROVE NonceMeansHash'
  <2>1. \A j \in SlotIds : slot'[j] = slot[j] \/ slot'[j].authHash
    BY <1>3 DEF SetAuthSession, Assign
  <2> QED
    BY <1>3, <2>1 DEF SetAuthSession
<1>4. ASSUME NEW i \in SlotIds, NEW s, UnsetAuthSession(i, s) PROVE NonceMeansHash'
  BY <1>4 DEF UnsetAuthSession, Assign, Zero
<1>5. ASSUME NEW s \in Sessions, NEW h, StartSession(s, h) PROVE NonceMeansHash'
  <2>1. \A i \in SlotIds : ~slot'[i].authHash => slot'[i].nonceTPM = 0
    BY <1>5 DEF StartSession, Assign, Zero
  <2>2. tpm' = tpm \/ tpm' = [tpm EXCEPT ![s] = [key |-> commands + 1, nonce |-> commands + 1]]
    BY <1>5 DEF StartSession
  <2> QED
    BY <2>1, <2>2
<1>6. ASSUME NEW s \in Sessions, UnloadHandle(s) PROVE NonceMeansHash'
  BY <1>6 DEF UnloadHandle
<1>7. CASE TpmReset
  BY <1>7 DEF TpmReset
<1>8. CASE UNCHANGED vars
  BY <1>8 DEF vars
<1>9. \A u \in Uses : u.slot \in SlotIds
  BY InputAssumption DEF SlotIds
<1> QED
  BY <1>1, <1>2, <1>3, <1>4, <1>5, <1>6, <1>7, <1>8, <1>9 DEF Next

\* A proper command whose sessions are in step can be built,
LEMMA FairIsBuilt ==
    ASSUME TypeOK, NonceMeansHash, NEW f, Proper(f), \A i \in CryptoSent(f) : InStep(i)
    PROVE  ~LocalError(f)
<1> SUFFICES ASSUME NEW i \in Sent(f), Crypto(i),
                    ~slot[i].authHash \/ (Encrypts(i, f) /\ slot[i].handle \notin Ciphers)
             PROVE  FALSE
  BY DEF LocalError
<1>1. i \in SlotIds /\ i \in CryptoSent(f)
  BY SentSlots DEF CryptoSent
<1>2. /\ tpm[slot[i].handle] # Closed
      /\ Encrypts(i, f) => slot[i].handle \in Ciphers
  <2>1. slot[i].handle # "pw"
    BY SessionAssumption DEF Crypto
  <2> QED
    BY <2>1 DEF Proper
<1>3. slot[i].handle \in Sessions
  BY DEF Crypto
<1>4. [key |-> slot[i].key, nonce |-> slot[i].nonceTPM] = tpm[slot[i].handle]
  BY <1>1 DEF InStep
<1>5. slot[i].nonceTPM = tpm[slot[i].handle].nonce
  BY <1>4
<1>6. slot[i].nonceTPM # 0
  BY <1>2, <1>3, <1>5 DEF NonceMeansHash
<1> QED
  BY <1>1, <1>2, <1>6 DEF NonceMeansHash

\* and with a single session its HMAC covers what is sent and what is answered.
LEMMA SingleSession ==
    ASSUME NEW f, Cardinality(CryptoSent(f)) <= 1, NEW i \in Sent(f), Crypto(i)
    PROVE  Covered(i, f) = AsSent(f) /\ ~BadHmac(i, f, Intact)
<1>1. i \in CryptoSent(f)
  BY DEF CryptoSent
<1>2. \A j \in CryptoSent(f) : j = i
  <2>1. IsFiniteSet(CryptoSent(f))
    BY SentSlots
  <2>2. Cardinality(CryptoSent(f)) \in Nat
    BY SentSlots
  <2>3. Cardinality(CryptoSent(f)) = 1
    <3>1. Cardinality(CryptoSent(f)) # 0
      BY <1>1, <2>1, FS_EmptySet
    <3> QED
      BY <2>2, <3>1
  <2>4. \E x : CryptoSent(f) = {x}
    BY <2>1, <2>3, FS_Singleton
  <2> QED
    BY <1>1, <2>4
<1>3. \A j \in Sent(f) : Encrypts(j, f) \/ Decrypts(j, f) => j = i
  BY <1>2 DEF CryptoSent, Encrypts, Decrypts
<1>4. i \in Int
  BY SentSlots DEF SlotIds
<1>5. \A j \in Sent(f) : j <= i /\ Encrypts(j, f) <=> Encrypts(j, f)
  BY <1>3, <1>4
<1>6. ~\E j \in Sent(f) : j < i /\ Decrypts(j, f)
  BY <1>3, <1>4
<1> QED
  BY <1>5, <1>6 DEF Covered, AsSent, BadHmac, Intact

\* With one session in step, and the TPM's rules for the authorisation area
\* kept, a command that meets no fault succeeds.  NonceMeansHash rules out that
\* a session in step sits in a slot the command cannot be built with.
THEOREM CleanCommandsSucceed == Spec => []CleanCommandSucceeds
<1>1. Init => NonceMeansHash /\ CleanCommandSucceeds
  BY DEF Init, NonceMeansHash, CleanCommandSucceeds, NoCommand, Zero
<1>2. TypeOK /\ NonceMeansHash /\ [Next]_vars => NonceMeansHash'
  BY CommandKeepsHash, CallsKeepHash
<1>3. TypeOK /\ NonceMeansHash /\ CleanCommandSucceeds /\ [Next]_vars => CleanCommandSucceeds'
  <2> SUFFICES ASSUME TypeOK, NonceMeansHash, CleanCommandSucceeds, [Next]_vars
               PROVE  CleanCommandSucceeds'
    OBVIOUS
  <2>1. CASE Quiet
    BY <2>1 DEF Quiet, NoCommand, CleanCommandSucceeds
  <2>2. CASE UNCHANGED vars
    BY <2>2 DEF vars, CleanCommandSucceeds
  <2>3. ASSUME NEW f \in Commands, Command(f) PROVE CleanCommandSucceeds'
    <3> DEFINE Fair == Proper(f) /\ \A i \in CryptoSent(f) : InStep(i)
               Single == Cardinality(CryptoSent(f)) <= 1
    <3>1. Fair => ~LocalError(f)
      BY FairIsBuilt
    <3>2. Fair /\ Single => TpmAccepts(f)
      BY SingleSession DEF TpmAccepts, CryptoSent
    <3>3. Single => ~\E i \in Sent(f) : BadHmac(i, f, Intact)
      BY SingleSession DEF BadHmac
    <3>4. ASSUME NEW rc, NEW d, NEW c, Outcome(rc, f, d, c), c /\ Fair /\ Single => rc = "ok"
          PROVE  CleanCommandSucceeds'
      BY <3>4 DEF Outcome, CleanCommandSucceeds
    <3>5. ASSUME NEW d, ResponseProcess(f, d) PROVE CleanCommandSucceeds'
      <4>1. CASE d.kind = "tag"
        <5>1. Outcome("ok", f, d, FALSE)
          BY <3>5, <4>1 DEF ResponseProcess
        <5> QED
          BY <5>1, <3>4
      <4>2. CASE d.kind # "tag"
        <5> DEFINE rc == IF \E i \in Sent(f) : BadHmac(i, f, d) THEN "badhmac" ELSE "ok"
        <5>1. Outcome(rc, f, d, d = Intact)
          BY <3>5, <4>2 DEF ResponseProcess
        <5>2. d = Intact /\ Fair /\ Single => rc = "ok"
          BY <3>3
        <5> QED
          BY <5>1, <5>2, <3>4
      <4> QED
        BY <4>1, <4>2
    <3>6. \/ LocalError(f) /\ Outcome("local", f, Intact, TRUE)
          \/ ~LocalError(f) /\ ~TpmAccepts(f) /\ Outcome("refused", f, Intact, TRUE)
          \/ Outcome("lost", f, Intact, FALSE)
          \/ \E d : ResponseProcess(f, d)
      BY <2>3, Zenon DEF Command
    <3> QED
      BY <3>1, <3>2, <3>4, <3>5, <3>6
  <2> QED
    BY <2>1, <2>2, <2>3, QuietOrCommand
<1> QED
  BY <1>1, <1>2, <1>3, CommandTypeCorrect, PTL DEF Spec
=============================================================================

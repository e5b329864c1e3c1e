------------------------- MODULE LibraryLockProofs -------------------------
(***************************************************************************)
(* Theorems about LibraryLock, for any threads, devices and failing calls, *)
(* whatever the program does at the same time, also without Alone and      *)
(* Guarded: type correctness, and that no command takes another's answer.  *)
(***************************************************************************)
EXTENDS LibraryLock, SelectionLemmas, SequenceTheorems, FiniteSetTheorems, TLAPS

-----------------------------------------------------------------------------
(* The steps of a call are bracketed: every lock is followed by steps that *)
(* are inside, the last of them the unlock.                                *)

Inside == {"auth", "send", "receive", "session", "ioCb", "startup", "deactivate", "unlock"}
Running == Inside \ {"unlock"}

Bracketed(s) ==
    /\ s \in Seq(StepNames)
    /\ \A i \in 1 .. Len(s) - 1 :
          /\ s[i] \in {"lock"} \cup Running <=> s[i + 1] \in Inside
          /\ s[i] = "ctx" => s[i + 1] = "lock"
          /\ s[i] = "send" <=> s[i + 1] = "receive"
    /\ s # <<>> => s[Len(s)] \notin {"lock", "ctx"} \cup Running
Complete(s) == Bracketed(s) /\ s # <<>> /\ s[1] \notin Inside
NoCheck(s) == \A i \in 1 .. Len(s) : s[i] # "check"

LEMMA ConcatComplete ==
    ASSUME NEW s, NEW t, Complete(s), Complete(t)
    PROVE  Complete(s \o t) /\ (NoCheck(s) /\ NoCheck(t) => NoCheck(s \o t))
<1> DEFINE r == s \o t
<1>1. s \in Seq(StepNames) /\ t \in Seq(StepNames)
  BY DEF Complete, Bracketed
<1>2. /\ r \in Seq(StepNames) /\ Len(r) = Len(s) + Len(t)
      /\ \A i \in 1 .. Len(s) + Len(t) : r[i] = IF i <= Len(s) THEN s[i] ELSE t[i - Len(s)]
  BY <1>1, ConcatProperties
<1>3. Len(s) \in Nat \ {0} /\ Len(t) \in Nat \ {0}
  BY <1>1 DEF Complete
<1> HIDE DEF r
<1>4. /\ \A i \in 1 .. Len(s) : r[i] = s[i]
      /\ \A i \in 1 .. Len(t) : r[Len(s) + i] = t[i]
  <2>1. ASSUME NEW i \in 1 .. Len(t) PROVE r[Len(s) + i] = t[i]
    <3>1. Len(s) + i \in 1 .. Len(s) + Len(t) /\ ~ (Len(s) + i <= Len(s)) /\ (Len(s) + i) - Len(s) = i
      BY <1>3
    <3> QED
      BY <1>2, <3>1
  <2>2. \A i \in 1 .. Len(s) : r[i] = s[i]
    BY <1>2, <1>3
  <2> QED
    BY <2>1, <2>2
<1>5. ASSUME NEW i \in 1 .. Len(r) - 1
      PROVE  /\ r[i] \in {"lock"} \cup Running <=> r[i + 1] \in Inside
             /\ r[i] = "ctx" => r[i + 1] = "lock"
             /\ r[i] = "send" <=> r[i + 1] = "receive"
  <2>1. CASE i < Len(s)
    <3>1. i \in 1 .. Len(s) - 1 /\ r[i] = s[i] /\ r[i + 1] = s[i + 1]
      BY <1>3, <1>4, <2>1
    <3> QED
      BY <3>1 DEF Complete, Bracketed
  <2>2. CASE i = Len(s)
    <3>1. r[i] = s[Len(s)] /\ r[i + 1] = t[1]
      BY <1>3, <1>4, <2>2
    <3>2. s[Len(s)] \notin {"lock", "ctx"} \cup Running /\ t[1] \notin Inside
      BY DEF Complete, Bracketed
    <3> QED
      BY <3>1, <3>2 DEF Inside, Running
  <2>3. CASE i > Len(s)
    <3> DEFINE j == i - Len(s)
    <3>1. j \in 1 .. Len(t) - 1 /\ i = Len(s) + j /\ i + 1 = Len(s) + (j + 1)
      BY <1>2, <1>3, <2>3
    <3>2. r[i] = t[j] /\ r[i + 1] = t[j + 1]
      BY <1>3, <1>4, <3>1
    <3> HIDE DEF j
    <3> QED
      BY <3>1, <3>2 DEF Complete, Bracketed
  <2> QED
    BY <1>3, <2>1, <2>2, <2>3
<1>6. r # <<>> /\ r[1] \notin Inside /\ r[Len(r)] \notin {"lock", "ctx"} \cup Running
  <2>1. r[1] = s[1] /\ r[Len(r)] = t[Len(t)] /\ Len(r) # 0
    BY <1>2, <1>3, <1>4
  <2> QED
    BY <2>1 DEF Complete, Bracketed
<1>7. NoCheck(s) /\ NoCheck(t) => NoCheck(r)
  BY <1>2, <1>3 DEF NoCheck
<1> QED
  BY <1>2, <1>5, <1>6, <1>7 DEF Complete, Bracketed, r

\* Locked puts a critical section together.
LEMMA LockedComplete ==
    ASSUME NEW step \in Seq(Running), Len(step) # 0, step[1] # "receive", step[Len(step)] # "send",
           \A i \in 1 .. Len(step) - 1 : step[i] = "send" <=> step[i + 1] = "receive"
    PROVE  Complete(Locked(step)) /\ NoCheck(Locked(step))
<1> DEFINE a == <<"ctx", "lock">>
           z == <<"unlock">>
           n == Len(step)
           r == Locked(step)
<1>1. /\ a \in Seq(StepNames) /\ z \in Seq(StepNames) /\ Len(a) = 2 /\ Len(z) = 1
      /\ a[1] = "ctx" /\ a[2] = "lock" /\ z[1] = "unlock"
  BY DEF StepNames
<1>2. step \in Seq(StepNames) /\ n \in Nat \ {0} /\ \A i \in 1 .. n : step[i] \in Running
  BY DEF StepNames, Running, Inside
<1>3. r = (a \o step) \o z
  BY DEF Locked
<1> HIDE DEF a, z, n, r
<1>4. /\ a \o step \in Seq(StepNames) /\ Len(a \o step) = 2 + n
      /\ \A i \in 1 .. 2 + n : (a \o step)[i] = IF i <= 2 THEN a[i] ELSE step[i - 2]
  <2>1. /\ a \o step \in Seq(StepNames) /\ Len(a \o step) = Len(a) + Len(step)
        /\ \A i \in 1 .. Len(a) + Len(step) : (a \o step)[i] = IF i <= Len(a) THEN a[i] ELSE step[i - Len(a)]
    <3>1. a \in Seq(StepNames) /\ step \in Seq(StepNames)
      BY <1>1, <1>2
    <3> QED
      BY <3>1, ConcatProperties, Zenon
  <2> QED
    BY <1>1, <2>1 DEF n
<1>5. /\ r \in Seq(StepNames) /\ Len(r) = 3 + n
      /\ \A i \in 1 .. 3 + n : r[i] = IF i <= 2 + n THEN (a \o step)[i] ELSE z[i - (2 + n)]
  <2> DEFINE b == a \o step
  <2>1. b \in Seq(StepNames) /\ Len(b) = 2 + n
    BY <1>4
  <2> HIDE DEF b
  <2>2. /\ b \o z \in Seq(StepNames) /\ Len(b \o z) = Len(b) + Len(z)
        /\ \A i \in 1 .. Len(b) + Len(z) : (b \o z)[i] = IF i <= Len(b) THEN b[i] ELSE z[i - Len(b)]
    <3>1. b \in Seq(StepNames) /\ z \in Seq(StepNames)
      BY <1>1, <2>1
    <3> QED
      BY <3>1, ConcatProperties, Zenon
  <2>3. r = b \o z /\ Len(b) + Len(z) = 3 + n
    BY <1>1, <1>2, <1>3, <2>1 DEF b
  <2>4. /\ r \in Seq(StepNames) /\ Len(r) = 3 + n
        /\ \A i \in 1 .. 3 + n : r[i] = IF i <= 2 + n THEN b[i] ELSE z[i - (2 + n)]
    BY <2>1, <2>2, <2>3
  <2> QED
    BY <2>4 DEF b
<1>6. /\ r[1] = "ctx" /\ r[2] = "lock" /\ r[n + 3] = "unlock"
      /\ \A i \in 3 .. n + 2 : r[i] = step[i - 2]
  <2>1. ASSUME NEW i \in 1 .. n + 2 PROVE r[i] = IF i <= 2 THEN a[i] ELSE step[i - 2]
    <3>1. i \in 1 .. 2 + n /\ i \in 1 .. 3 + n /\ i <= 2 + n
      BY <1>2
    <3>2. r[i] = (a \o step)[i]
      BY <1>5, <3>1
    <3> QED
      BY <1>4, <3>1, <3>2
  <2>2. r[n + 3] = z[1]
    BY <1>2, <1>5
  <2> QED
    BY <1>1, <1>2, <2>1, <2>2
<1>7. \A i \in 3 .. n + 2 : r[i] \in Running
  BY <1>2, <1>6
<1>8. ASSUME NEW i \in 1 .. Len(r) - 1
      PROVE  /\ r[i] \in {"lock"} \cup Running <=> r[i + 1] \in Inside
             /\ r[i] = "ctx" => r[i + 1] = "lock"
             /\ r[i] = "send" <=> r[i + 1] = "receive"
  <2>1. CASE i = 1
    BY <1>6, <2>1 DEF Running, Inside
  <2>2. CASE i = 2
    <3>1. r[3] = step[1]
      BY <1>2, <1>6
    <3> QED
      BY <1>2, <1>6, <1>7, <2>2, <3>1 DEF Running, Inside
  <2>3. CASE i \in 3 .. n + 1
    <3>1. i - 2 \in 1 .. n - 1 /\ i + 1 \in 3 .. n + 2 /\ (i + 1) - 2 = (i - 2) + 1
      BY <1>2, <2>3
    <3>2. r[i] = step[i - 2] /\ r[i + 1] = step[(i - 2) + 1] /\ r[i] \in Running /\ r[i + 1] \in Running
      BY <1>2, <1>6, <1>7, <2>3, <3>1
    <3>3. step[i - 2] = "send" <=> step[(i - 2) + 1] = "receive"
      BY <3>1 DEF n
    <3> QED
      BY <3>2, <3>3 DEF Running, Inside
  <2>4. CASE i = n + 2
    <3>1. r[i] = step[n] /\ r[i + 1] = "unlock" /\ r[i] \in Running
      BY <1>2, <1>6, <1>7, <2>4
    <3> QED
      BY <3>1 DEF Running, Inside, n
  <2> QED
    BY <1>2, <1>5, <2>1, <2>2, <2>3, <2>4
<1>9. NoCheck(r)
  <2>1. \A i \in 1 .. Len(r) : i = 1 \/ i = 2 \/ i \in 3 .. n + 2 \/ i = n + 3
    BY <1>2, <1>5
  <2> QED
    BY <1>6, <1>7, <2>1 DEF NoCheck, Running, Inside
<1>10. r # <<>> /\ r[Len(r)] = "unlock"
  BY <1>2, <1>5, <1>6
<1> QED
  BY <1>5, <1>6, <1>8, <1>9, <1>10 DEF Complete, Bracketed, Running, Inside, r

\* Every call is complete, and so is what it does on an error; only the calls
\* that OnError knows look at their return code.
LEMMA PiecesComplete ==
    /\ Complete(Command) /\ NoCheck(Command)
    /\ Complete(AuthCommand) /\ NoCheck(AuthCommand)
    /\ Complete(TPM2_SetSessionAuth) /\ NoCheck(TPM2_SetSessionAuth)
    /\ Complete(TPM2_Cleanup) /\ NoCheck(TPM2_Cleanup)
<1>1. Complete(Command) /\ NoCheck(Command)
  <2> DEFINE step == <<"send", "receive">>
  <2>1. step \in Seq(Running) /\ Len(step) = 2 /\ step[1] = "send" /\ step[2] = "receive"
    BY DEF Running, Inside
  <2>2. \A i \in 1 .. Len(step) - 1 : step[i] = "send" <=> step[i + 1] = "receive"
    OBVIOUS
  <2> HIDE DEF step
  <2>3. Complete(Locked(step)) /\ NoCheck(Locked(step))
    <3>1. Len(step) # 0 /\ step[1] # "receive" /\ step[Len(step)] # "send"
      BY <2>1
    <3> QED
      BY <2>1, <2>2, <3>1, LockedComplete
  <2> QED
    BY <2>3 DEF Command, step
<1>2. Complete(AuthCommand) /\ NoCheck(AuthCommand)
  <2> DEFINE step == <<"auth", "send", "receive">>
  <2>1. /\ step \in Seq(Running) /\ Len(step) = 3
        /\ step[1] = "auth" /\ step[2] = "send" /\ step[3] = "receive"
    BY DEF Running, Inside
  <2>2. \A i \in 1 .. Len(step) - 1 : step[i] = "send" <=> step[i + 1] = "receive"
    OBVIOUS
  <2> HIDE DEF step
  <2>3. Complete(Locked(step)) /\ NoCheck(Locked(step))
    <3>1. Len(step) # 0 /\ step[1] # "receive" /\ step[Len(step)] # "send"
      BY <2>1
    <3> QED
      BY <2>1, <2>2, <3>1, LockedComplete
  <2> QED
    BY <2>3 DEF AuthCommand, step
<1>3. Complete(TPM2_SetSessionAuth) /\ NoCheck(TPM2_SetSessionAuth)
  <2> DEFINE step == <<"session">>
  <2>1. step \in Seq(Running) /\ Len(step) = 1 /\ step[1] = "session"
    BY DEF Running, Inside
  <2> HIDE DEF step
  <2>2. Complete(Locked(step)) /\ NoCheck(Locked(step))
    BY <2>1, LockedComplete
  <2> QED
    BY <2>2 DEF TPM2_SetSessionAuth, step
<1>4. Complete(TPM2_Cleanup) /\ NoCheck(TPM2_Cleanup)
  BY DEF TPM2_Cleanup, Complete, Bracketed, NoCheck, Running, Inside, StepNames
<1> QED
  BY <1>1, <1>2, <1>3, <1>4

LEMMA WordsComplete ==
    /\ Complete(<<"clear", "fill">>) /\ NoCheck(<<"clear", "fill">>)
    /\ Complete(<<"restore", "return">>) /\ NoCheck(<<"restore", "return">>)
    /\ \A w \in {"clear", "on", "off", "malloc", "free", "save", "failed", "return", "activate"} :
          Complete(<<w>>) /\ NoCheck(<<w>>)
    /\ Complete(<<"check">>)
    /\ Complete(<<"memset", "initCrypt", "refer", "lock", "ioCb", "unlock", "activate", "lock",
                  "startup", "unlock", "check">>)
BY DEF Complete, Bracketed, NoCheck, Running, Inside, StepNames

LEMMA StepsComplete ==
    /\ DOMAIN Steps = {"Init", "New", "Cleanup", "Free", "Test", "Activate", "Plain", "Use"}
    /\ DOMAIN OnError = {"Init", "New", "Test"}
    /\ \A call \in DOMAIN Steps : /\ Complete(Steps[call])
                                  /\ call \in DOMAIN OnError \/ NoCheck(Steps[call])
    /\ \A call \in DOMAIN OnError : Complete(OnError[call]) /\ NoCheck(OnError[call])
<1> USE PiecesComplete, WordsComplete
<1>1. Complete(wolfTPM2_SetAuth) /\ NoCheck(wolfTPM2_SetAuth)
  BY ConcatComplete DEF wolfTPM2_SetAuth
<1>2. Complete(wolfTPM2_UnsetAuth) /\ NoCheck(wolfTPM2_UnsetAuth)
  BY ConcatComplete DEF wolfTPM2_UnsetAuth
<1>3. Complete(wolfTPM2_Init_ex)
  BY ConcatComplete DEF wolfTPM2_Init_ex
<1>4. Complete(wolfTPM2_Init)
  BY <1>1, <1>3, ConcatComplete DEF wolfTPM2_Init
<1>5. Complete(wolfTPM2_New)
  BY <1>4, ConcatComplete DEF wolfTPM2_New
<1>6. Complete(wolfTPM2_Cleanup) /\ NoCheck(wolfTPM2_Cleanup)
  BY ConcatComplete DEF wolfTPM2_Cleanup
<1>7. Complete(wolfTPM2_Free) /\ NoCheck(wolfTPM2_Free)
  BY <1>6, ConcatComplete DEF wolfTPM2_Free
<1>8. Complete(wolfTPM2_Test)
  BY <1>3, ConcatComplete DEF wolfTPM2_Test
<1>9. Complete(wolfTPM2_SetAuth \o AuthCommand \o wolfTPM2_UnsetAuth)
      /\ NoCheck(wolfTPM2_SetAuth \o AuthCommand \o wolfTPM2_UnsetAuth)
  BY <1>1, <1>2, ConcatComplete
<1>10. DOMAIN Steps = {"Init", "New", "Cleanup", "Free", "Test", "Activate", "Plain", "Use"}
  BY DEF Steps
<1>11. DOMAIN OnError = {"Init", "New", "Test"}
  BY DEF OnError
<1>12. /\ Steps["Init"] = wolfTPM2_Init /\ Steps["New"] = wolfTPM2_New
       /\ Steps["Cleanup"] = wolfTPM2_Cleanup /\ Steps["Free"] = wolfTPM2_Free
       /\ Steps["Test"] = wolfTPM2_Test /\ Steps["Activate"] = <<"activate">>
       /\ Steps["Plain"] = Command
       /\ Steps["Use"] = wolfTPM2_SetAuth \o AuthCommand \o wolfTPM2_UnsetAuth
  BY DEF Steps
<1>13. OnError["Init"] = <<"failed">> /\ OnError["New"] = <<"free">> /\ OnError["Test"] = <<"return">>
  BY DEF OnError
<1>14. ASSUME NEW call \in DOMAIN Steps
       PROVE  Complete(Steps[call]) /\ (call \in DOMAIN OnError \/ NoCheck(Steps[call]))
  BY <1>4, <1>5, <1>6, <1>7, <1>8, <1>9, <1>10, <1>11, <1>12
<1>15. ASSUME NEW call \in DOMAIN OnError PROVE Complete(OnError[call]) /\ NoCheck(OnError[call])
  BY <1>11, <1>13
<1> QED
  BY <1>10, <1>11, <1>14, <1>15

\* What is left of a call is bracketed: after a step, and where the call jumps.
LEMMA TailFacts ==
    ASSUME NEW s, Bracketed(s), s # <<>>
    PROVE  /\ Bracketed(Tail(s)) /\ Head(s) \in StepNames
           /\ Tail(s) # <<>> =>
                 /\ Head(s) \in {"lock"} \cup Running <=> Head(Tail(s)) \in Inside
                 /\ Head(s) = "ctx" => Head(Tail(s)) = "lock"
                 /\ Head(s) = "send" <=> Head(Tail(s)) = "receive"
           /\ Tail(s) = <<>> => Head(s) \notin {"lock", "ctx"} \cup Running
           /\ NoCheck(s) => NoCheck(Tail(s)) /\ Head(s) # "check"
<1>1. s \in Seq(StepNames) /\ Len(s) \in Nat \ {0}
  BY DEF Bracketed
<1>2. /\ Head(s) = s[1] /\ Head(s) \in StepNames /\ Tail(s) \in Seq(StepNames)
      /\ Len(Tail(s)) = Len(s) - 1
      /\ \A i \in 1 .. Len(Tail(s)) : Tail(s)[i] = s[i + 1]
  BY <1>1, HeadTailProperties
<1>3. Tail(s) # <<>> => Head(Tail(s)) = s[2] /\ Len(s) >= 2
  BY <1>1, <1>2
<1>4. Tail(s) = <<>> => Len(s) = 1
  BY <1>1, <1>2
<1>5. Bracketed(Tail(s))
  <2>1. ASSUME NEW i \in 1 .. Len(Tail(s)) - 1
        PROVE  /\ i + 1 \in 1 .. Len(s) - 1 /\ Tail(s)[i] = s[i + 1] /\ Tail(s)[i + 1] = s[(i + 1) + 1]
    BY <1>1, <1>2
  <2>2. Tail(s) # <<>> => Tail(s)[Len(Tail(s))] = s[Len(s)]
    BY <1>1, <1>2, <1>3
  <2> QED
    BY <1>2, <2>1, <2>2 DEF Bracketed
<1>6. NoCheck(s) => NoCheck(Tail(s)) /\ Head(s) # "check"
  BY <1>1, <1>2 DEF NoCheck
<1>7. Tail(s) # <<>> =>
         /\ Head(s) \in {"lock"} \cup Running <=> Head(Tail(s)) \in Inside
         /\ Head(s) = "ctx" => Head(Tail(s)) = "lock"
         /\ Head(s) = "send" <=> Head(Tail(s)) = "receive"
  <2>1. Tail(s) # <<>> => 1 \in 1 .. Len(s) - 1 /\ s[1 + 1] = Head(Tail(s))
    BY <1>1, <1>3
  <2> QED
    BY <1>2, <2>1 DEF Bracketed
<1>8. Tail(s) = <<>> => Head(s) \notin {"lock", "ctx"} \cup Running
  BY <1>1, <1>2, <1>4 DEF Bracketed
<1> QED
  BY <1>2, <1>5, <1>6, <1>7, <1>8

LEMMA UnlockFollows ==
    ASSUME NEW s, Bracketed(s), NEW i \in 1 .. Len(s), s[i] \in {"lock"} \cup Running
    PROVE  \E j \in 1 .. Len(s) : s[j] = "unlock"
<1> DEFINE J == {j \in 1 .. Len(s) : j >= i /\ s[j] \notin {"lock"} \cup Running}
           m == Min(J)
<1>1. Len(s) \in Nat \ {0} /\ s # <<>>
  BY DEF Bracketed
<1>2. J \subseteq Nat /\ J # {}
  <2>1. Len(s) \in J
    BY <1>1 DEF Bracketed
  <2> QED
    BY <2>1
<1>3. m \in J /\ \A j \in J : m =< j
  <2> HIDE DEF J
  <2> QED
    BY <1>2, MinIsLeast
<1> HIDE DEF m
<1>4. m \in 1 .. Len(s) /\ m > i /\ s[m] \notin {"lock"} \cup Running
  <2>1. m # i
    BY <1>3
  <2> QED
    BY <1>3, <2>1
<1>5. s[m - 1] \in {"lock"} \cup Running
  <2>1. m - 1 \in 1 .. Len(s) /\ m - 1 >= i /\ ~ (m =< m - 1)
    BY <1>1, <1>4
  <2>2. m - 1 \notin J
    BY <1>3, <2>1
  <2> QED
    BY <2>1, <2>2
<1>6. s[m] \in Inside
  <2>1. m - 1 \in 1 .. Len(s) - 1 /\ (m - 1) + 1 = m
    BY <1>1, <1>4
  <2>2. s[m - 1] \in {"lock"} \cup Running <=> s[(m - 1) + 1] \in Inside
    BY <2>1 DEF Bracketed
  <2> QED
    BY <1>5, <2>1, <2>2
<1> QED
  BY <1>4, <1>6 DEF Running

LEMMA UnlockingFacts ==
    ASSUME NEW s, Bracketed(s), s # <<>>, Head(s) \in {"lock", "ctx"} \cup Running,
           NEW u, u = Unlocking(s)
    PROVE  /\ Bracketed(u) /\ u # <<>> /\ Head(u) = "unlock"
           /\ NoCheck(s) => NoCheck(u)
<1>1. s \in Seq(StepNames) /\ Len(s) \in Nat \ {0} /\ Head(s) = s[1]
  BY DEF Bracketed
<1>2. \E j \in 1 .. Len(s) : s[j] = "unlock"
  <2>1. CASE Head(s) = "ctx"
    <3>1. Len(s) # 1
      BY <1>1, <2>1 DEF Bracketed
    <3>2. 1 \in 1 .. Len(s) - 1 /\ 1 + 1 \in 1 .. Len(s)
      <4> DEFINE k == Len(s)
      <4>0. k \in Nat /\ k # 0 /\ k # 1
        BY <1>1, <3>1
      <4> HIDE DEF k
      <4>1. k >= 2
        BY <4>0
      <4> QED
        BY <4>0, <4>1 DEF k
    <3>3. s[1 + 1] = "lock"
      BY <1>1, <2>1, <3>2 DEF Bracketed
    <3> QED
      BY <3>2, <3>3, UnlockFollows
  <2>2. CASE Head(s) # "ctx"
    <3>1. 1 \in 1 .. Len(s) /\ s[1] \in {"lock"} \cup Running
      BY <1>1, <2>2
    <3> QED
      BY <3>1, UnlockFollows
  <2> QED
    BY <2>1, <2>2
<1> DEFINE n == SelectInSeq(s, LAMBDA x : x = "unlock")
<1>3. n \in 1 .. Len(s) /\ s[n] = "unlock"
  <2> HIDE DEF n
  <2>1. Len(s) \in Nat
    BY <1>1
  <2> QED
    BY <1>2, <2>1, FirstUnlock DEF n
<1>4. u = SubSeq(s, n, Len(s))
  BY DEF Unlocking
<1> HIDE DEF n
<1>5. /\ u \in Seq(StepNames) /\ Len(u) = Len(s) - n + 1
      /\ \A i \in 1 .. Len(s) - n + 1 : u[i] = s[n + i - 1]
  <2>1. n \in Int /\ Len(s) \in Int /\ n <= Len(s) /\ \A i \in n .. Len(s) : s[i] \in StepNames
    BY <1>1, <1>3
  <2> QED
    BY <1>4, <2>1, SubSeqProperties
<1>6. u # <<>> /\ Head(u) = "unlock"
  <2>1. Len(u) >= 1 /\ u[1] = s[n]
    BY <1>1, <1>3, <1>5
  <2> QED
    BY <1>3, <1>5, <2>1
<1>7. Bracketed(u)
  <2>1. ASSUME NEW i \in 1 .. Len(u) - 1
        PROVE  /\ n + i - 1 \in 1 .. Len(s) - 1 /\ u[i] = s[n + i - 1] /\ u[i + 1] = s[(n + i - 1) + 1]
    <3>1. /\ i \in 1 .. Len(s) - n + 1 /\ i + 1 \in 1 .. Len(s) - n + 1
          /\ n + i - 1 \in 1 .. Len(s) - 1 /\ n + (i + 1) - 1 = (n + i - 1) + 1
      BY <1>1, <1>3, <1>5
    <3> QED
      BY <1>5, <3>1
  <2>2. u[Len(u)] = s[Len(s)]
    <3>1. Len(u) \in 1 .. Len(s) - n + 1 /\ n + Len(u) - 1 = Len(s)
      BY <1>1, <1>3, <1>5
    <3> QED
      BY <1>5, <3>1
  <2>3. s[Len(s)] \notin {"lock", "ctx"} \cup Running
    BY DEF Bracketed
  <2>4. ASSUME NEW i \in 1 .. Len(u) - 1
        PROVE  /\ u[i] \in {"lock"} \cup Running <=> u[i + 1] \in Inside
               /\ u[i] = "ctx" => u[i + 1] = "lock"
               /\ u[i] = "send" <=> u[i + 1] = "receive"
    BY <2>1 DEF Bracketed
  <2> QED
    BY <1>5, <2>2, <2>3, <2>4 DEF Bracketed
<1>8. NoCheck(s) => NoCheck(u)
  <2>1. ASSUME NEW i \in 1 .. Len(u) PROVE u[i] = s[n + i - 1] /\ n + i - 1 \in 1 .. Len(s)
    BY <1>1, <1>3, <1>5
  <2> QED
    BY <2>1 DEF NoCheck
<1> QED
  BY <1>6, <1>7, <1>8

-----------------------------------------------------------------------------
(* The inductive invariant: who is inside holds the lock, and the answer   *)
(* that is read there is to the command sent there.                        *)

Holding(t) ==
    /\ Bracketed(thread[t].todo)
    /\ thread[t].todo # <<>> => /\ thread[t].call \in DOMAIN Steps
                               /\ thread[t].dev \in Devices /\ thread[t].ctx \in Contexts
    /\ thread[t].call \in DOMAIN OnError \/ NoCheck(thread[t].todo)
    /\ lock = t <=> thread[t].todo # <<>> /\ Head(thread[t].todo) \in Inside
    /\ At(t, "receive") => chip.who = t
    /\ thread[t].got \in {None, t}
Exclusive == TypeOK /\ \A t \in Threads : Holding(t)

LEMMA IdleFacts == /\ Idle \in ThreadState /\ Idle.todo = <<>> /\ Idle.got = None
                   /\ Bracketed(<<>>) /\ NoCheck(<<>>)
<1>1. <<>> \in Seq(StepNames) /\ Len(<<>>) = 0
  OBVIOUS
<1>2. Idle \in ThreadState /\ Idle.todo = <<>> /\ Idle.got = None
  BY <1>1 DEF Idle, ThreadState
<1> QED
  BY <1>1, <1>2 DEF Bracketed, NoCheck

\* A step of one thread, with what it has to see to.
LEMMA GoesKeeps ==
    ASSUME Exclusive, NEW t \in Threads, NEW h \in ThreadState, Goes(t, h), Bracketed(h.todo),
           h.todo # <<>> => h.call \in DOMAIN Steps /\ h.dev \in Devices /\ h.ctx \in Contexts,
           h.call \in DOMAIN OnError \/ NoCheck(h.todo), h.got \in {None, t},
           lock' = t <=> h.todo # <<>> /\ Head(h.todo) \in Inside,
           h.todo # <<>> /\ Head(h.todo) = "receive" => chip'.who = t,
           \A u \in Threads \ {t} : lock' = u <=> lock = u,
           chip' # chip => lock = t
    PROVE  thread' \in [Threads -> ThreadState] /\ \A u \in Threads : Holding(u)'
<1> DEFINE g == IF h.todo = <<>> THEN Idle ELSE h
<1>1. /\ thread' = [thread EXCEPT ![t] = g] /\ g \in ThreadState
      /\ g.todo = h.todo /\ g.got \in {None, t}
      /\ h.todo # <<>> => g = h
  BY IdleFacts DEF Goes
<1> HIDE DEF g
<1>2. /\ thread' \in [Threads -> ThreadState] /\ thread'[t] = g
      /\ \A u \in Threads \ {t} : thread'[u] = thread[u]
  BY <1>1 DEF Exclusive, TypeOK
<1>3. Holding(t)'
  <2>1. thread'[t].call \in DOMAIN OnError \/ NoCheck(thread'[t].todo)
    BY <1>1, <1>2, IdleFacts
  <2> QED
    BY <1>1, <1>2, <2>1 DEF Holding, At
<1>4. ASSUME NEW u \in Threads \ {t} PROVE Holding(u)'
  <2>1. At(u, "receive") => chip' = chip
    <3>1. At(u, "receive") => lock = u
      BY DEF Exclusive, Holding, At, Inside
    <3> QED
      BY <3>1
  <2> QED
    BY <1>2, <2>1 DEF Exclusive, Holding, At
<1> QED
  BY <1>2, <1>3, <1>4

\* The next step of a call.
LEMMA OnKeeps ==
    ASSUME Exclusive, NEW t \in Threads, NEW x, At(t, x), NEW h \in ThreadState, Goes(t, h),
           h.todo = Tail(thread[t].todo), h.call = thread[t].call, h.dev = thread[t].dev,
           h.ctx \in Contexts, h.got \in {None, t},
           x = "lock" => lock = None /\ lock' = t,
           x = "unlock" => lock' = None,
           x \notin {"lock", "unlock"} => lock' = lock,
           chip' # chip => x \in {"send", "receive"},
           x = "send" => chip'.who = t
    PROVE  thread' \in [Threads -> ThreadState] /\ \A u \in Threads : Holding(u)'
<1> DEFINE s == thread[t].todo
<1>1. /\ Bracketed(s) /\ s # <<>> /\ Head(s) = x
      /\ thread[t].call \in DOMAIN Steps /\ thread[t].dev \in Devices
      /\ thread[t].call \in DOMAIN OnError \/ NoCheck(s)
      /\ lock = t <=> x \in Inside
  BY DEF Exclusive, Holding, At
<1>2. None # t /\ \A u \in Threads : u # None
  BY NamesAssumption
<1> HIDE DEF s
<1>3. /\ Bracketed(h.todo) /\ x \in StepNames
      /\ h.todo # <<>> =>
            /\ x \in {"lock"} \cup Running <=> Head(h.todo) \in Inside
            /\ x = "send" <=> Head(h.todo) = "receive"
      /\ h.todo = <<>> => x \notin {"lock", "ctx"} \cup Running
      /\ NoCheck(s) => NoCheck(h.todo)
  BY <1>1, TailFacts DEF s
<1>4. lock' = t <=> x \in {"lock"} \cup Running
  BY <1>1, <1>2 DEF Running, Inside
<1>5. lock' = t <=> h.todo # <<>> /\ Head(h.todo) \in Inside
  BY <1>3, <1>4
<1>6. \A u \in Threads \ {t} : lock' = u <=> lock = u
  BY <1>1, <1>2 DEF Inside
<1>7. chip' # chip => lock = t
  BY <1>1 DEF Inside
<1> QED
  BY <1>1, <1>3, <1>5, <1>6, <1>7, GoesKeeps

\* A command that fails jumps to its unlock, or behind it if it never locked.
LEMMA JumpKeeps ==
    ASSUME Exclusive, NEW t \in Threads, NEW x, At(t, x), NEW h \in ThreadState, Goes(t, h),
           \/ x \in {"auth", "send"} /\ h.todo = Unlocking(thread[t].todo)
           \/ x = "ctx" /\ h.todo = Tail(Unlocking(thread[t].todo)),
           h.call = thread[t].call, h.dev = thread[t].dev, h.ctx = thread[t].ctx, h.got = thread[t].got,
           lock' = lock, chip' = chip
    PROVE  thread' \in [Threads -> ThreadState] /\ \A u \in Threads : Holding(u)'
<1> DEFINE s == thread[t].todo
           u == Unlocking(s)
<1>1. /\ Bracketed(s) /\ s # <<>> /\ Head(s) = x
      /\ thread[t].call \in DOMAIN Steps /\ thread[t].dev \in Devices /\ thread[t].ctx \in Contexts
      /\ thread[t].call \in DOMAIN OnError \/ NoCheck(s)
      /\ lock = t <=> x \in Inside
      /\ thread[t].got \in {None, t}
  BY DEF Exclusive, Holding, At
<1> HIDE DEF s
<1>2. x \in {"lock", "ctx"} \cup Running
  BY DEF Running, Inside
<1>3. Bracketed(u) /\ u # <<>> /\ Head(u) = "unlock" /\ (NoCheck(s) => NoCheck(u))
  BY <1>1, <1>2, UnlockingFacts
<1> HIDE DEF u
<1>4. CASE x \in {"auth", "send"} /\ h.todo = u
  <2>1. lock' = t <=> h.todo # <<>> /\ Head(h.todo) \in Inside
    BY <1>1, <1>3, <1>4 DEF Inside
  <2> QED
    BY <1>1, <1>3, <1>4, <2>1, GoesKeeps
<1>5. CASE x = "ctx" /\ h.todo = Tail(u)
  <2>1. /\ Bracketed(h.todo) /\ (NoCheck(u) => NoCheck(h.todo))
        /\ h.todo # <<>> => Head(h.todo) \notin Inside
    BY <1>3, <1>5, TailFacts DEF Running
  <2>2. lock' # t
    BY <1>1, <1>5 DEF Inside
  <2> QED
    BY <1>1, <1>3, <2>1, <2>2, GoesKeeps DEF Inside
<1> QED
  BY <1>4, <1>5 DEF s, u

LEMMA OnFields ==
    ASSUME Exclusive, NEW t \in Threads, thread[t].todo # <<>>
    PROVE  /\ On(t) \in ThreadState /\ On(t).todo = Tail(thread[t].todo)
           /\ On(t).call = thread[t].call /\ On(t).dev = thread[t].dev
           /\ On(t).ctx = thread[t].ctx /\ On(t).got = thread[t].got
           /\ thread[t].call \in DOMAIN Steps /\ thread[t].dev \in Devices
           /\ thread[t].ctx \in Contexts /\ thread[t].got \in {None, t}
           /\ Own(t) \in Contexts
<1>1. thread[t] \in ThreadState /\ Bracketed(thread[t].todo)
  BY DEF Exclusive, TypeOK, Holding
<1>2. Tail(thread[t].todo) \in Seq(StepNames)
  BY <1>1, TailFacts DEF Bracketed
<1>3. /\ On(t) \in ThreadState /\ On(t).todo = Tail(thread[t].todo)
      /\ On(t).call = thread[t].call /\ On(t).dev = thread[t].dev
      /\ On(t).ctx = thread[t].ctx /\ On(t).got = thread[t].got
  BY <1>1, <1>2 DEF On, ThreadState
<1>4. /\ thread[t].call \in DOMAIN Steps /\ thread[t].dev \in Devices
      /\ thread[t].ctx \in Contexts /\ thread[t].got \in {None, t}
  BY DEF Exclusive, Holding
<1>5. Own(t) \in Contexts
  BY <1>4 DEF Own, Contexts
<1> QED
  BY <1>3, <1>4, <1>5

\* What the steps note down about their thread.
LEMMA NoteContext ==
    ASSUME NEW r \in ThreadState, NEW c \in Contexts \cup {None}, NEW h, h = [r EXCEPT !.ctx = c]
    PROVE  /\ h \in ThreadState /\ h.todo = r.todo /\ h.call = r.call /\ h.dev = r.dev
           /\ h.ctx = c /\ h.got = r.got
BY DEF ThreadState

LEMMA NoteAuth ==
    ASSUME NEW r \in ThreadState, NEW a \in Threads \cup {"empty"}, NEW h, h = [r EXCEPT !.auth = a]
    PROVE  /\ h \in ThreadState /\ h.todo = r.todo /\ h.call = r.call /\ h.dev = r.dev
           /\ h.ctx = r.ctx /\ h.got = r.got
BY DEF ThreadState

LEMMA NoteAnswer ==
    ASSUME NEW r \in ThreadState, NEW who \in Threads, NEW h, h = [r EXCEPT !.got = who]
    PROVE  /\ h \in ThreadState /\ h.todo = r.todo /\ h.call = r.call /\ h.dev = r.dev
           /\ h.ctx = r.ctx /\ h.got = who
BY DEF ThreadState

LEMMA MemType ==
    ASSUME context \in [Contexts -> [mem : BOOLEAN, session : Devices \cup {None}]],
           NEW c \in Contexts, NEW mem \in BOOLEAN
    PROVE  [context EXCEPT ![c].mem = mem] \in [Contexts -> [mem : BOOLEAN, session : Devices \cup {None}]]
OBVIOUS

\* A step that only goes on.
LEMMA EndsKeeps ==
    ASSUME Exclusive, NEW t \in Threads, NEW x, At(t, x), Ends(t),
           x = "lock" => lock = None /\ lock' = t,
           x = "unlock" => lock' = None,
           x \notin {"lock", "unlock"} => lock' = lock,
           chip' # chip => x \in {"send", "receive"},
           x = "send" => chip'.who = t
    PROVE  thread' \in [Threads -> ThreadState] /\ \A u \in Threads : Holding(u)'
<1>1. Goes(t, On(t)) /\ thread[t].todo # <<>>
  BY DEF Ends, At
<1> QED
  BY <1>1, OnFields, OnKeeps

LEMMA StepKeeps ==
    ASSUME Exclusive, NEW t \in Threads, Step(t)
    PROVE  Exclusive'
<1> SUFFICES /\ active' \in Contexts \cup {None} /\ lock' \in Threads \cup {None}
             /\ count' \in Nat /\ crypto' \in BOOLEAN
             /\ slots' \in [Devices -> Threads \cup {"empty"}]
             /\ device' \in [Devices -> {"on", "off", "failed"}]
             /\ context' \in [Contexts -> [mem : BOOLEAN, session : Devices \cup {None}]]
             /\ chip' \in [who : Threads \cup {"nobody"}, call : DOMAIN Steps \cup {None},
                           auth : Threads \cup {"empty"}]
             /\ thread' \in [Threads -> ThreadState] /\ \A u \in Threads : Holding(u)'
  BY DEF Exclusive, TypeOK
<1>1. /\ active \in Contexts \cup {None} /\ lock \in Threads \cup {None}
      /\ count \in Nat /\ crypto \in BOOLEAN
      /\ slots \in [Devices -> Threads \cup {"empty"}]
      /\ device \in [Devices -> {"on", "off", "failed"}]
      /\ context \in [Contexts -> [mem : BOOLEAN, session : Devices \cup {None}]]
      /\ chip \in [who : Threads \cup {"nobody"}, call : DOMAIN Steps \cup {None},
                   auth : Threads \cup {"empty"}]
      /\ thread[t] \in ThreadState
  BY DEF Exclusive, TypeOK
<1>2. CASE ReadActive(t)
  <2>1. thread[t].todo # <<>> /\ At(t, "ctx")
    BY <1>2 DEF ReadActive, At
  <2>2. CASE active # None
    <3> DEFINE h == [On(t) EXCEPT !.ctx = active]
    <3>1. h \in ThreadState /\ h.todo = On(t).todo /\ h.call = On(t).call /\ h.dev = On(t).dev
          /\ h.ctx = active /\ h.got = On(t).got
      <4>1. On(t) \in ThreadState /\ active \in Contexts \cup {None}
        BY <1>1, <2>1, OnFields
      <4> QED
        BY <4>1, NoteContext
    <3>2. Goes(t, h)
      BY <1>2, <2>2 DEF ReadActive
    <3> HIDE DEF h
    <3> QED
      BY <1>1, <1>2, <2>1, <2>2, <3>1, <3>2, OnFields, OnKeeps DEF ReadActive
  <2>3. CASE active = None
    <3> DEFINE todo == Tail(Unlocking(thread[t].todo))
               h == [thread[t] EXCEPT !.todo = todo, !.rc = "fail"]
    <3>1. todo \in Seq(StepNames)
      <4>1. Bracketed(thread[t].todo) /\ Head(thread[t].todo) = "ctx"
        BY <2>1 DEF Exclusive, Holding, At
      <4>2. Bracketed(Unlocking(thread[t].todo)) /\ Unlocking(thread[t].todo) # <<>>
        BY <2>1, <4>1, UnlockingFacts
      <4> QED
        BY <4>2, TailFacts DEF Bracketed
    <3>2. Goes(t, h)
      BY <1>2, <2>3 DEF ReadActive
    <3>3. /\ h \in ThreadState /\ h.todo = todo /\ h.call = thread[t].call /\ h.dev = thread[t].dev
          /\ h.ctx = thread[t].ctx /\ h.got = thread[t].got
      BY <1>1, <3>1 DEF ThreadState
    <3> HIDE DEF h
    <3> QED
      BY <1>1, <1>2, <2>1, <3>2, <3>3, JumpKeeps DEF ReadActive
  <2> QED
    BY <2>2, <2>3
<1>3. CASE TPM2_AcquireLock(t)
  BY <1>1, <1>3, EndsKeeps DEF TPM2_AcquireLock
<1>4. CASE TPM2_ReleaseLock(t)
  <2>1. thread[t].todo # <<>> /\ At(t, "unlock")
    BY <1>4 DEF TPM2_ReleaseLock, At
  <2> DEFINE h == [On(t) EXCEPT !.ctx = Own(t), !.auth = "empty", !.got = None]
  <2>2. h \in ThreadState /\ h.todo = On(t).todo /\ h.call = On(t).call /\ h.dev = On(t).dev
        /\ h.ctx = Own(t) /\ h.got = None
    <3> DEFINE r == On(t)
               c == Own(t)
    <3>1. r \in ThreadState /\ c \in Contexts
      BY <2>1, OnFields
    <3> HIDE DEF r, c
    <3>2. h = [r EXCEPT !.ctx = c, !.auth = "empty", !.got = None]
      BY DEF r, c
    <3> HIDE DEF h
    <3>3. /\ h \in ThreadState /\ h.todo = r.todo /\ h.call = r.call /\ h.dev = r.dev
          /\ h.ctx = c /\ h.got = None
      BY <3>1, <3>2 DEF ThreadState
    <3> QED
      BY <3>3 DEF r, c
  <2>3. Goes(t, h)
    BY <1>4 DEF TPM2_ReleaseLock
  <2> HIDE DEF h
  <2> QED
    BY <1>1, <1>4, <2>1, <2>2, <2>3, OnFields, OnKeeps DEF TPM2_ReleaseLock
<1>5. CASE CommandProcess(t)
  <2>1. thread[t].todo # <<>> /\ At(t, "auth")
    BY <1>5 DEF CommandProcess, At
  <2> DEFINE d == context[thread[t].ctx].session
  <2>2. d \in Devices \cup {None}
    BY <1>1, <2>1, OnFields
  <2>3. CASE d # None
    <3> DEFINE h == [On(t) EXCEPT !.auth = slots[d]]
    <3>1. h \in ThreadState /\ h.todo = On(t).todo /\ h.call = On(t).call /\ h.dev = On(t).dev
          /\ h.ctx = On(t).ctx /\ h.got = On(t).got
      <4>1. On(t) \in ThreadState
        BY <2>1, OnFields
      <4>2. slots[d] \in Threads \cup {"empty"}
        BY <1>1, <2>2, <2>3
      <4> HIDE DEF d
      <4> QED
        BY <4>1, <4>2, NoteAuth
    <3>2. Goes(t, h)
      BY <1>5, <2>3 DEF CommandProcess
    <3> HIDE DEF h
    <3> QED
      BY <1>1, <1>5, <2>1, <3>1, <3>2, OnFields, OnKeeps DEF CommandProcess
  <2>4. CASE d = None
    <3> DEFINE todo == Unlocking(thread[t].todo)
               h == [thread[t] EXCEPT !.todo = todo, !.rc = "fail"]
    <3>1. todo \in Seq(StepNames)
      BY <2>1, UnlockingFacts DEF Exclusive, Holding, At, Bracketed, Running, Inside
    <3>2. Goes(t, h)
      BY <1>5, <2>4 DEF CommandProcess
    <3>3. /\ h \in ThreadState /\ h.todo = todo /\ h.call = thread[t].call /\ h.dev = thread[t].dev
          /\ h.ctx = thread[t].ctx /\ h.got = thread[t].got
      BY <1>1, <3>1 DEF ThreadState
    <3> HIDE DEF h
    <3> QED
      BY <1>1, <1>5, <2>1, <3>2, <3>3, JumpKeeps DEF CommandProcess
  <2> QED
    BY <2>3, <2>4
<1>6. CASE SendCommand(t)
  <2>1. thread[t].todo # <<>> /\ At(t, "send")
    BY <1>6 DEF SendCommand, At
  <2>2. CASE chip' = [who |-> t, call |-> thread[t].call, auth |-> thread[t].auth] /\ Ends(t)
    <3>1. chip'.who = t /\ chip' \in [who : Threads \cup {"nobody"}, call : DOMAIN Steps \cup {None},
                                      auth : Threads \cup {"empty"}]
      BY <1>1, <2>2 DEF ThreadState
    <3> QED
      BY <1>1, <1>6, <2>1, <2>2, <3>1, EndsKeeps DEF SendCommand
  <2>3. CASE UNCHANGED chip /\ Goes(t, [thread[t] EXCEPT !.todo = Unlocking(@), !.rc = "fail"])
    <3> DEFINE todo == Unlocking(thread[t].todo)
               h == [thread[t] EXCEPT !.todo = todo, !.rc = "fail"]
    <3>1. todo \in Seq(StepNames)
      BY <2>1, UnlockingFacts DEF Exclusive, Holding, At, Bracketed, Running, Inside
    <3>2. Goes(t, h)
      BY <2>3
    <3>3. /\ h \in ThreadState /\ h.todo = todo /\ h.call = thread[t].call /\ h.dev = thread[t].dev
          /\ h.ctx = thread[t].ctx /\ h.got = thread[t].got
      BY <1>1, <3>1 DEF ThreadState
    <3> HIDE DEF h
    <3> QED
      BY <1>1, <1>6, <2>1, <2>3, <3>2, <3>3, JumpKeeps DEF SendCommand
  <2> QED
    BY <1>6, <2>2, <2>3 DEF SendCommand
<1>7. CASE ReceiveAnswer(t)
  <2>1. thread[t].todo # <<>> /\ At(t, "receive") /\ chip.who = t
    BY <1>7 DEF ReceiveAnswer, At, Exclusive, Holding
  <2> DEFINE h == [On(t) EXCEPT !.got = chip.who]
  <2>2. h \in ThreadState /\ h.todo = On(t).todo /\ h.call = On(t).call /\ h.dev = On(t).dev
        /\ h.ctx = On(t).ctx /\ h.got = t
    <3>1. On(t) \in ThreadState
      BY <2>1, OnFields
    <3> QED
      BY <2>1, <3>1, NoteAnswer
  <2>3. Goes(t, h) /\ chip' = Quiet /\ Quiet \in [who : Threads \cup {"nobody"},
                     call : DOMAIN Steps \cup {None}, auth : Threads \cup {"empty"}]
    BY <1>7 DEF ReceiveAnswer, Quiet
  <2> HIDE DEF h
  <2> QED
    BY <1>1, <1>7, <2>1, <2>2, <2>3, OnFields, OnKeeps DEF ReceiveAnswer
<1>8. CASE WriteSlot(t)
  <2>1. PICK x \in {"clear", "fill"} : At(t, x)
    BY <1>8 DEF WriteSlot
  <2>2. slots' \in [Devices -> Threads \cup {"empty"}]
    BY <1>1, <1>8 DEF WriteSlot
  <2> QED
    BY <1>1, <1>8, <2>1, <2>2, EndsKeeps DEF WriteSlot
<1>9. CASE PointAtSlots(t)
  <2>1. thread[t].todo # <<>> /\ At(t, "session")
    BY <1>9 DEF PointAtSlots, At
  <2>2. context' \in [Contexts -> [mem : BOOLEAN, session : Devices \cup {None}]]
    BY <1>1, <1>9, <2>1, OnFields DEF PointAtSlots
  <2> QED
    BY <1>1, <1>9, <2>1, <2>2, EndsKeeps DEF PointAtSlots
<1>10. CASE TPM2_WolfCrypt_Init(t)
  <2>1. PICK x \in {"initCrypt", "refer"} : At(t, x)
    BY <1>10 DEF TPM2_WolfCrypt_Init
  <2>2. count' \in Nat /\ crypto' \in BOOLEAN
    <3>1. count' = count \/ count' = count + 1
      BY <1>10 DEF TPM2_WolfCrypt_Init
    <3>2. crypto' \in BOOLEAN
      BY <1>1, <1>10, Zenon DEF TPM2_WolfCrypt_Init
    <3> QED
      BY <1>1, <3>1, <3>2
  <2> QED
    BY <1>1, <1>10, <2>1, <2>2, EndsKeeps DEF TPM2_WolfCrypt_Init
<1>11. CASE InitContext(t)
  <2>1. PICK x \in {"memset", "ioCb", "activate"} : At(t, x)
    BY <1>11 DEF InitContext
  <2>2. /\ context' \in [Contexts -> [mem : BOOLEAN, session : Devices \cup {None}]]
        /\ active' \in Contexts \cup {None}
    <3>1. Own(t) \in Contexts
      BY <2>1, OnFields DEF At
    <3> QED
      BY <1>1, <1>11, <3>1 DEF InitContext
  <2> QED
    BY <1>1, <1>11, <2>1, <2>2, EndsKeeps DEF InitContext
<1>12. CASE TPM2_ChipStartup(t)
  <2>1. At(t, "startup") /\ thread[t].todo # <<>>
    BY <1>12 DEF TPM2_ChipStartup, At
  <2>2. CASE Ends(t)
    BY <1>1, <1>12, <2>1, <2>2, EndsKeeps DEF TPM2_ChipStartup
  <2>3. CASE Goes(t, [On(t) EXCEPT !.rc = "fail"])
    <3> DEFINE h == [On(t) EXCEPT !.rc = "fail"]
    <3>1. h \in ThreadState /\ h.todo = On(t).todo /\ h.call = On(t).call /\ h.dev = On(t).dev
          /\ h.ctx = On(t).ctx /\ h.got = On(t).got
      BY <1>1, <2>1, OnFields DEF ThreadState
    <3>2. Goes(t, h)
      BY <2>3
    <3> HIDE DEF h
    <3> QED
      BY <1>1, <1>12, <2>1, <3>1, <3>2, OnFields, OnKeeps DEF TPM2_ChipStartup
  <2> QED
    BY <1>12, <2>2, <2>3 DEF TPM2_ChipStartup
<1>13. CASE CheckError(t)
  <2>1. At(t, "check") /\ thread[t].todo # <<>>
    BY <1>13 DEF CheckError, At
  <2>2. CASE thread[t].rc = "ok"
    <3>1. Goes(t, On(t))
      BY <1>13, <2>2 DEF CheckError
    <3> QED
      BY <1>1, <1>13, <2>1, <3>1, EndsKeeps DEF CheckError, Ends
  <2>3. CASE thread[t].rc # "ok"
    <3> DEFINE todo == OnError[thread[t].call]
               h == [thread[t] EXCEPT !.todo = todo]
    <3>1. thread[t].call \in DOMAIN OnError
      <4>1. Bracketed(thread[t].todo) /\ Head(thread[t].todo) = "check"
        BY <2>1 DEF At, Exclusive, Holding
      <4>2. ~NoCheck(thread[t].todo)
        BY <2>1, <4>1, TailFacts
      <4> QED
        BY <4>2 DEF Exclusive, Holding
    <3>2. Complete(todo) /\ NoCheck(todo)
      BY <3>1, StepsComplete
    <3>3. Goes(t, h)
      BY <1>13, <2>3 DEF CheckError
    <3> HIDE DEF todo
    <3>4. /\ h \in ThreadState /\ h.todo = todo /\ h.call = thread[t].call /\ h.dev = thread[t].dev
          /\ h.ctx = thread[t].ctx /\ h.got = thread[t].got
      BY <1>1, <3>2 DEF ThreadState, Complete, Bracketed
    <3> HIDE DEF h
    <3>5. todo # <<>> => Head(todo) \notin Inside
      BY <3>2 DEF Complete, Bracketed
    <3>6. lock # t
      BY <2>1 DEF At, Exclusive, Holding, Inside
    <3>7. lock' = lock /\ chip' = chip
      BY <1>13 DEF CheckError
    <3>8. Head(todo) # "receive" \/ todo = <<>>
      BY <3>5 DEF Inside
    <3>9. thread' \in [Threads -> ThreadState] /\ \A u \in Threads : Holding(u)'
      BY <2>1, <3>2, <3>3, <3>4, <3>5, <3>6, <3>7, <3>8, OnFields, GoesKeeps DEF Complete
    <3> QED
      BY <1>1, <1>13, <3>9 DEF CheckError
  <2> QED
    BY <2>2, <2>3
<1>14. CASE Deactivate(t)
  BY <1>1, <1>14, EndsKeeps DEF Deactivate
<1>15. CASE FreeCrypt(t)
  <2>1. PICK pc \in {"unrefer", "freeCrypt"} : At(t, pc)
    BY <1>15 DEF FreeCrypt
  <2>2. Max({count - 1, 0}) \in Nat
    <3>1. Max({count - 1, 0}) \in {count - 1, 0} /\ \A y \in {count - 1, 0} : Max({count - 1, 0}) >= y
      <4>1. \E x \in {count - 1, 0} : \A y \in {count - 1, 0} : x >= y
        BY <1>1
      <4> QED
        BY <4>1 DEF Max
    <3> QED
      BY <1>1, <3>1
  <2>3. count' \in Nat /\ crypto' \in BOOLEAN
    BY <1>1, <1>15, <2>2 DEF FreeCrypt
  <2> QED
    BY <1>1, <1>15, <2>1, <2>3, EndsKeeps DEF FreeCrypt
<1>16. CASE Memory(t)
  <2>1. PICK x \in {"malloc", "free", "return"} : At(t, x)
    BY <1>16 DEF Memory
  <2>2. thread[t].dev \in Contexts /\ Stack \in Contexts
    BY <2>1, OnFields DEF At, Contexts
  <2>3. context' \in [Contexts -> [mem : BOOLEAN, session : Devices \cup {None}]]
    <3>1. CASE context' = [context EXCEPT ![thread[t].dev] = [mem |-> TRUE, session |-> None]]
      BY <1>1, <2>2, <3>1
    <3>2. CASE context' = [context EXCEPT ![thread[t].dev].mem = FALSE]
      BY <1>1, <2>2, <3>2, MemType
    <3>3. CASE context' = [context EXCEPT ![Stack].mem = FALSE]
      BY <1>1, <2>2, <3>3, MemType
    <3> QED
      BY <1>16, <3>1, <3>2, <3>3 DEF Memory
  <2> QED
    BY <1>1, <1>16, <2>1, <2>3, EndsKeeps DEF Memory
<1>17. CASE BackupContext(t)
  <2>1. CASE At(t, "save") /\ Goes(t, [On(t) EXCEPT !.saved = active]) /\ UNCHANGED active
    <3> DEFINE h == [On(t) EXCEPT !.saved = active]
    <3>0. thread[t].todo # <<>>
      BY <2>1 DEF At
    <3>1. h \in ThreadState /\ h.todo = On(t).todo /\ h.call = On(t).call /\ h.dev = On(t).dev
          /\ h.ctx = On(t).ctx /\ h.got = On(t).got
      BY <1>1, <3>0, OnFields DEF ThreadState
    <3>2. Goes(t, h)
      BY <2>1
    <3> HIDE DEF h
    <3> QED
      BY <1>1, <1>17, <2>1, <3>0, <3>1, <3>2, OnFields, OnKeeps DEF BackupContext
  <2>2. CASE At(t, "restore") /\ active' = thread[t].saved /\ Ends(t)
    <3>1. thread[t].saved \in Contexts \cup {None}
      BY <1>1 DEF ThreadState
    <3> QED
      BY <1>1, <1>17, <2>2, <3>1, EndsKeeps DEF BackupContext
  <2> QED
    BY <1>17, <2>1, <2>2 DEF BackupContext
<1>18. CASE Note(t)
  <2>1. PICK x \in {"on", "off", "failed"} : At(t, x) /\ device' = [device EXCEPT ![thread[t].dev] = x]
    BY <1>18 DEF Note
  <2>2. device' \in [Devices -> {"on", "off", "failed"}]
    BY <1>1, <2>1
  <2> QED
    BY <1>1, <1>18, <2>1, <2>2, EndsKeeps DEF Note
<1> QED
  BY <1>2, <1>3, <1>4, <1>5, <1>6, <1>7, <1>8, <1>9, <1>10, <1>11, <1>12, <1>13, <1>14, <1>15,
     <1>16, <1>17, <1>18 DEF Step

\* A thread calls.
LEMMA BeginKeeps ==
    ASSUME Exclusive, NEW t \in Threads, NEW call \in DOMAIN Steps, NEW d \in Devices, Begin(t, call, d)
    PROVE  Exclusive'
<1> DEFINE ctx == IF call = "Test" THEN Stack ELSE d
           todo == Steps[call]
           h == [Idle EXCEPT !.call = call, !.dev = d, !.todo = todo, !.ctx = ctx]
<1>1. Complete(todo) /\ (call \in DOMAIN OnError \/ NoCheck(todo))
  BY StepsComplete
<1>2. todo # <<>> /\ todo \in Seq(StepNames) /\ Head(todo) \notin Inside /\ Bracketed(todo)
  BY <1>1 DEF Complete, Bracketed
<1>3. ctx \in Contexts
  BY DEF Contexts
<1>4. thread' = [thread EXCEPT ![t] = h] /\ UNCHANGED <<active, count, crypto, lock, slots, device, chip>>
  BY DEF Begin
<1> HIDE DEF todo, ctx
<1>5. /\ h \in ThreadState /\ h.todo = todo /\ h.call = call /\ h.dev = d /\ h.ctx = ctx /\ h.got = None
  BY <1>2, <1>3, IdleFacts DEF ThreadState, Idle
<1> HIDE DEF h
<1>6. Goes(t, h)
  BY <1>2, <1>4, <1>5 DEF Goes
<1>7. lock # t
  BY DEF Begin, Exclusive, Holding
<1>8. thread' \in [Threads -> ThreadState] /\ \A u \in Threads : Holding(u)'
  BY <1>1, <1>2, <1>3, <1>4, <1>5, <1>6, <1>7, GoesKeeps DEF Inside
<1>9. context' \in [Contexts -> [mem : BOOLEAN, session : Devices \cup {None}]]
  <2>1. context \in [Contexts -> [mem : BOOLEAN, session : Devices \cup {None}]]
    BY DEF Exclusive, TypeOK
  <2>2. d \in Contexts /\ Stack \in Contexts
    BY DEF Contexts
  <2>3. \/ context' = [context EXCEPT ![Stack].mem = TRUE]
        \/ context' = [context EXCEPT ![d].mem = TRUE] \/ context' = context
    BY DEF Begin
  <2>4. CASE context' = [context EXCEPT ![Stack].mem = TRUE]
    BY <2>1, <2>2, <2>4
  <2>5. CASE context' = [context EXCEPT ![d].mem = TRUE]
    BY <2>1, <2>2, <2>5
  <2> QED
    BY <2>1, <2>3, <2>4, <2>5
<1> QED
  BY <1>4, <1>8, <1>9 DEF Exclusive, TypeOK

LEMMA AlwaysExclusive == Spec => []Exclusive
<1>1. Init => Exclusive
  <2> SUFFICES ASSUME Init PROVE Exclusive
    OBVIOUS
  <2>1. TypeOK
    BY IdleFacts DEF Init, TypeOK, Quiet, Contexts
  <2>2. ASSUME NEW t \in Threads PROVE Holding(t)
    <3>1. thread[t] = Idle /\ lock # t
      BY NamesAssumption DEF Init
    <3> QED
      BY <3>1, IdleFacts DEF Holding, At
  <2> QED
    BY <2>1, <2>2 DEF Exclusive
<1>2. Exclusive /\ [Next]_vars => Exclusive'
  <2>1. CASE UNCHANGED vars
    BY <2>1 DEF vars, Exclusive, TypeOK, Holding, At
  <2>2. ASSUME Exclusive, NEW t \in Threads,
               Step(t) \/ \E call \in DOMAIN Steps, d \in Devices : Begin(t, call, d)
        PROVE  Exclusive'
    BY <2>2, StepKeeps, BeginKeeps
  <2> QED
    BY <2>1, <2>2 DEF Next
<1> QED
  BY <1>1, <1>2, PTL DEF Spec

-----------------------------------------------------------------------------
(* The theorems.                                                           *)

\* The global context, the lock, the counts, the slots and what each thread has
\* before it are well formed, for any number of threads that call anything.
THEOREM LockTypeCorrect == Spec => []TypeOK
<1>1. Exclusive => TypeOK
  BY DEF Exclusive
<1> QED
  BY <1>1, AlwaysExclusive, PTL

\* gHwLock is held from the first byte sent to the last received: a command
\* takes for its answer what the TPM said to that very command.
THEOREM AnswersAreOwn == Spec => []OwnAnswer
<1>1. Exclusive => OwnAnswer
  BY DEF Exclusive, Holding, OwnAnswer
<1> QED
  BY <1>1, AlwaysExclusive, PTL
=============================================================================

-------------------------- MODULE TransportProofs --------------------------
(***************************************************************************)
(* Proofs about Transports, for any number of processes, commands, tries   *)
(* and faults and any size of command and answer: that every transport     *)
(* implements CommandTransport, and that a call fails only for a reason    *)
(* within it.                                                              *)
(***************************************************************************)
EXTENDS Transports, FiniteSetTheorems, SequenceTheorems, TLAPS

-----------------------------------------------------------------------------
(* The register interface: the invariant.                                  *)

Starting == {"startup", "check", "request", "granted", "info"}
Writing  == {"burst", "write", "waitExpect", "waitValid", "go"}
Reading  == {"waitAvail", "rburst", "read"}
Inside   == {"status", "ready", "waitReady", "done"} \cup Writing \cup Reading
Holding  == Inside \cup {"unlock"}
Unsent   == {"lock", "status", "ready", "waitReady"}

Units == [id : [who : Processes, num : Nat], size : Nat, k : Nat]
HostStates ==
    [pc : {"idle", "lock"} \cup Starting \cup Holding, tries : Int, pos : Nat, burst : Nat,
     rspSz : Nat, got : Seq(Units), cnt : {0, 1}, started : BOOLEAN, num : Nat,
     res : {"none", "ok", "fail"}, fault : BOOLEAN]
ChipStates ==
    [st : {"idle", "ready", "recv", "exec", "done", "abort"}, in : Seq(Ids), out : Seq(Units),
     up : BOOLEAN, active : BOOLEAN]

TisTypes ==
    /\ chip \in ChipStates /\ host \in [Processes -> HostStates]
    /\ runs \in [Ids -> Nat] /\ sem \in {0, 1}

\* pos units of a command; the first pos units of an answer, and the others.
Copies(id, pos) == [k \in 1 .. pos |-> id]
Taken(a, pos) == SubSeq(a, 1, pos)
Left(a, pos) == SubSeq(a, pos + 1, Len(a))

\* What a process knows by itself: r is how often the chip ran its command.
Local(h, id, r) ==
    /\ h.cnt = IF h.pc \in Holding THEN 1 ELSE 0
    /\ h.num <= MaxCalls
    /\ h.pc \in {"lock"} \cup Inside => h.res = "none" /\ h.num > 0
    /\ h.pc = "unlock" => h.res \in {"ok", "fail"} /\ h.num > 0
    /\ h.pc = "idle" /\ h.num > 0 => h.res \in {"ok", "fail"}
    /\ h.pc \in Starting => ~h.started
    /\ ~h.started => h.num = 0 \/ h.res = "fail"
    /\ h.res = "fail" => h.fault
    /\ h.pc \in Unsent =>
          h.pos = 0 /\ h.rspSz = Header /\ h.got = <<>> /\ r = 0
    /\ h.num > 0 /\ (h.res = "ok" \/ h.pc = "done") =>
          h.got = Answer(id, Len(h.got)) /\ r = 1

\* What the one that holds the semaphore knows of the chip, as it writes a
\* command and as it reads the answer.
WriteKnows(h, id, r, c) ==
    /\ c.st = IF h.pos = 0 THEN "ready" ELSE "recv"
    /\ c.in = Copies(id, h.pos)
    /\ h.rspSz = Header /\ h.got = <<>> /\ r = 0
    /\ IF h.pc \in {"waitValid", "go"} THEN h.pos = CmdLen ELSE h.pos < CmdLen
    /\ h.pc = "waitExpect" => h.pos > 0
Running(h, id, c) ==
    /\ h.pc = "waitAvail" /\ c.st = "exec" /\ c.in = Copies(id, CmdLen)
    /\ h.pos = 0 /\ h.rspSz = Header /\ h.got = <<>>
Answered(h, id, c, size) ==
    /\ c.out = Left(Answer(id, size), h.pos) /\ h.got = Taken(Answer(id, size), h.pos)
    /\ h.rspSz = (IF h.pos = 0 THEN Header ELSE size) /\ h.pos < h.rspSz
ReadKnows(h, id, r, c) ==
    \/ Running(h, id, c)
    \/ c.st = "done" /\ r = 1 /\ \E size \in Header .. RspCap + 1 : Answered(h, id, c, size)

InTouch(h, id, r, c) ==
    /\ h.pc = "waitReady" => c.st \in {"ready", "abort"}
    /\ h.pc \in Writing => WriteKnows(h, id, r, c)
    /\ h.pc \in {"write", "read"} => h.burst > 0
    /\ h.pc \in Reading => ReadKnows(h, id, r, c)

\* What the chip holds: a command it is about to run is whole, was sent, and
\* has not been run.
Given(id) ==
    id.num <= host[id.who].num /\ (id.num = host[id.who].num => host[id.who].pc \notin Unsent)
ChipFits(c) ==
    /\ c.st \in {"idle", "ready", "abort"} => c.in = <<>>
    /\ c.st = "exec" =>
          \E id \in Ids : c.in = Copies(id, CmdLen) /\ Given(id) /\ runs[id] = 0
NotYetRun == \A id \in Ids : id.num > host[id.who].num => runs[id] = 0

TisInv ==
    /\ TisTypes
    /\ \A p \in Processes : Local(host[p], Me(p), TisRan[p])
    /\ \A p \in Processes : host[p].pc \in Holding =>
          sem = 0 /\ InTouch(host[p], Me(p), TisRan[p], chip)
    /\ \A p, q \in Processes : host[p].pc \in Holding /\ host[q].pc \in Holding => p = q
    /\ ChipFits(chip) /\ NotYetRun

-----------------------------------------------------------------------------
(* Units taken from one sequence and left in the other.                    *)

LEMMA TakeMore ==
    ASSUME NEW S, NEW a \in Seq(S), NEW pos \in 0 .. Len(a), NEW n \in 0 .. Len(a) - pos
    PROVE  /\ Left(a, pos) \in Seq(S) /\ Len(Left(a, pos)) = Len(a) - pos
           /\ Taken(a, pos) \in Seq(S) /\ Len(Taken(a, pos)) = pos
           /\ Taken(a, pos) \o SubSeq(Left(a, pos), 1, n) = Taken(a, pos + n)
           /\ SubSeq(Left(a, pos), n + 1, Len(Left(a, pos))) = Left(a, pos + n)
           /\ \A k \in 1 .. n : Left(a, pos)[k] = a[pos + k]
<1> Len(a) \in Nat
  BY LenProperties
<1>1. \A i \in 1 .. Len(a) : a[i] \in S
  BY ElementOfSeq
<1>2. /\ Left(a, pos) \in Seq(S) /\ Len(Left(a, pos)) = Len(a) - pos
      /\ \A i \in 1 .. Len(a) - pos : Left(a, pos)[i] = a[pos + i]
  <2>1. \A i \in pos + 1 .. Len(a) : a[i] \in S
    BY <1>1
  <2>2. /\ SubSeq(a, pos + 1, Len(a)) \in Seq(S)
        /\ Len(SubSeq(a, pos + 1, Len(a))) = IF pos + 1 <= Len(a) THEN Len(a) - (pos + 1) + 1 ELSE 0
        /\ \A i \in 1 .. Len(a) - (pos + 1) + 1 : SubSeq(a, pos + 1, Len(a))[i] = a[(pos + 1) + i - 1]
    BY <2>1, SubSeqProperties
  <2> QED
    BY <2>2 DEF Left
<1>3. Taken(a, pos) \in Seq(S) /\ Len(Taken(a, pos)) = pos
  <2>1. \A i \in 1 .. pos : a[i] \in S
    BY <1>1
  <2> QED
    BY <2>1, SubSeqProperties DEF Taken
<1>4. SubSeq(Left(a, pos), 1, n) = SubSeq(a, pos + 1, pos + n)
  <2>1. CASE n = 0
    <3>1. SubSeq(Left(a, pos), 1, n) = << >>
      BY <2>1, SubSeqEmpty
    <3>2. SubSeq(a, pos + 1, pos + n) = << >>
      BY <2>1, SubSeqEmpty
    <3> QED
      BY <3>1, <3>2
  <2>2. CASE n # 0
    <3>1. /\ pos + 1 \in 1 .. Len(a) /\ Len(a) \in 1 .. Len(a)
          /\ 1 \in 1 .. Len(a) - (pos + 1) + 1 /\ n \in 1 .. Len(a) - (pos + 1) + 1
      BY <2>2
    <3>2. SubSeq(SubSeq(a, pos + 1, Len(a)), 1, n) = SubSeq(a, (pos + 1) + 1 - 1, (pos + 1) + n - 1)
      BY <3>1, SubSeqOfSubSeq
    <3> QED
      BY <3>2 DEF Left
  <2> QED
    BY <2>1, <2>2
<1>5. Taken(a, pos) \o SubSeq(a, pos + 1, pos + n) = Taken(a, pos + n)
  BY ConcatAdjacentSubSeq DEF Taken
<1>6. SubSeq(Left(a, pos), n + 1, Len(a) - pos) = Left(a, pos + n)
  <2>1. CASE n = Len(a) - pos
    <3>1. SubSeq(Left(a, pos), n + 1, Len(a) - pos) = << >>
      BY <2>1, SubSeqEmpty
    <3>2. SubSeq(a, pos + n + 1, Len(a)) = << >>
      BY <2>1, SubSeqEmpty
    <3> QED
      BY <3>1, <3>2 DEF Left
  <2>2. CASE n # Len(a) - pos
    <3>1. /\ pos + 1 \in 1 .. Len(a) /\ Len(a) \in 1 .. Len(a)
          /\ n + 1 \in 1 .. Len(a) - (pos + 1) + 1 /\ Len(a) - pos \in 1 .. Len(a) - (pos + 1) + 1
      BY <2>2
    <3>2. SubSeq(SubSeq(a, pos + 1, Len(a)), n + 1, Len(a) - pos)
          = SubSeq(a, (pos + 1) + (n + 1) - 1, (pos + 1) + (Len(a) - pos) - 1)
      BY <3>1, SubSeqOfSubSeq
    <3>3. (pos + 1) + (n + 1) - 1 = pos + n + 1 /\ (pos + 1) + (Len(a) - pos) - 1 = Len(a)
      OBVIOUS
    <3> QED
      BY <3>2, <3>3 DEF Left
  <2> QED
    BY <2>1, <2>2
<1>7. \A k \in 1 .. n : Left(a, pos)[k] = a[pos + k]
  BY <1>2
<1>8. SubSeq(Left(a, pos), n + 1, Len(Left(a, pos))) = Left(a, pos + n)
  BY <1>2, <1>6, Zenon
<1>9. Taken(a, pos) \o SubSeq(Left(a, pos), 1, n) = Taken(a, pos + n)
  BY <1>4, <1>5, Zenon
<1> QED
  BY <1>2, <1>3, <1>7, <1>8, <1>9, Zenon

LEMMA FirstOf ==
    ASSUME NEW S, NEW a \in Seq(S), Len(a) > 0
    PROVE  Taken(a, 0) = << >> /\ Left(a, 0) = a /\ Taken(a, Len(a)) = a
<1>1. Len(a) \in Nat
  BY LenProperties
<1> QED
  BY <1>1, SubSeqEmpty, SubSeqFull DEF Taken, Left

LEMMA CopyMore ==
    ASSUME NEW id \in Ids, NEW pos \in Nat, NEW n \in Nat
    PROVE  /\ Copies(id, pos) \in Seq(Ids) /\ Len(Copies(id, pos)) = pos
           /\ Copies(id, pos) \o [k \in 1 .. n |-> id] = Copies(id, pos + n)
<1>1. \A m \in Nat : /\ Copies(id, m) \in Seq(Ids) /\ Len(Copies(id, m)) = m
                     /\ \A i \in 1 .. m : Copies(id, m)[i] = id
  BY DEF Copies
<1>2. /\ Copies(id, pos) \o Copies(id, n) \in Seq(Ids)
      /\ Len(Copies(id, pos) \o Copies(id, n)) = pos + n
      /\ \A i \in 1 .. pos + n : (Copies(id, pos) \o Copies(id, n))[i] =
             IF i <= pos THEN Copies(id, pos)[i] ELSE Copies(id, n)[i - pos]
  BY <1>1, ConcatProperties
<1>3. ASSUME NEW i \in 1 .. pos + n
      PROVE  (Copies(id, pos) \o Copies(id, n))[i] = Copies(id, pos + n)[i]
  <2>1. CASE i <= pos
    BY <1>1, <1>2, <2>1
  <2>2. CASE ~(i <= pos)
    <3>1. i - pos \in 1 .. n
      BY <2>2
    <3>2. Copies(id, n)[i - pos] = id /\ Copies(id, pos + n)[i] = id
      BY <1>1, <3>1
    <3> QED
      BY <1>2, <2>2, <3>2
  <2> QED
    BY <2>1, <2>2
<1>4. Copies(id, pos) \o Copies(id, n) = Copies(id, pos + n)
  BY <1>1, <1>2, <1>3, SeqEqual
<1> QED
  BY <1>1, <1>4 DEF Copies

LEMMA AnswerSeq ==
    ASSUME NEW id \in [who : Processes, num : Nat], NEW size \in Nat
    PROVE  /\ Answer(id, size) \in Seq(Units) /\ Len(Answer(id, size)) = size
           /\ \A k \in 1 .. size : Answer(id, size)[k].size = size
BY DEF Answer, Units

-----------------------------------------------------------------------------
(* The register interface: one process moves.                              *)

\* How the call of process p goes on in the abstract specification.
CallAt(h, id) ==
    IF h.num = 0 THEN "idle"
    ELSE IF h.pc = "unlock" THEN "called"
    ELSE IF h.res = "ok" THEN (IF h.got = Answer(id, Len(h.got)) THEN "ok" ELSE "garbled")
    ELSE IF h.res = "fail" THEN "fail" ELSE "called"

Shift(p) ==
    /\ TisRan' = TisRan
    /\ \A q \in Processes \ {p} : TisAt'[q] = TisAt[q]
    /\ \/ TisAt'[p] = TisAt[p]
       \/ TisAt[p] = "called" /\ TisAt'[p] = "fail"
       \/ TisAt[p] = "called" /\ TisAt'[p] = "ok" /\ TisRan[p] = 1

Others(p) == \A q \in Processes : host[q].pc \in Holding => q = p
SameChip(c) == c.st = chip.st /\ c.in = chip.in /\ c.out = chip.out

LEMMA HostFields ==
    ASSUME NEW h \in HostStates
    PROVE  /\ h.pc \in {"idle", "lock"} \cup Starting \cup Holding /\ h.tries \in Int
           /\ h.pos \in Nat /\ h.burst \in Nat /\ h.rspSz \in Nat /\ h.got \in Seq(Units)
           /\ h.cnt \in {0, 1} /\ h.started \in BOOLEAN /\ h.num \in Nat
           /\ h.res \in {"none", "ok", "fail"} /\ h.fault \in BOOLEAN
BY DEF HostStates

LEMMA Names ==
    /\ "idle" \notin {"lock"} \cup Starting \cup Holding /\ "lock" \notin Starting \cup Holding
    /\ Starting \cap Holding = {} /\ Inside \subseteq Holding /\ "unlock" \notin Inside
    /\ Writing \cap Reading = {} /\ Writing \cup Reading \subseteq Inside
    /\ {"status", "ready", "waitReady", "done"} \cap (Writing \cup Reading) = {}
BY DEF Starting, Writing, Reading, Inside, Holding

LEMMA CalledHow ==
    ASSUME NEW h \in HostStates, NEW id, NEW r, Local(h, id, r)
    PROVE  /\ h.pc \in {"lock"} \cup Holding => CallAt(h, id) = "called"
           /\ h.pc \notin {"lock"} \cup Holding =>
                 CallAt(h, id) = IF h.num = 0 THEN "idle" ELSE h.res
           /\ h.pc \in Starting /\ h.num # 0 => h.res = "fail"
           /\ h.pc = "idle" /\ h.num # 0 => h.res \in {"ok", "fail"}
           /\ h.num # 0 /\ h.res = "ok" => r = 1
<1> h.num \in Nat /\ h.res \in {"none", "ok", "fail"} /\ h.started \in BOOLEAN
  BY HostFields
<1> h.pc \in {"idle", "lock"} \cup Starting \cup Holding
  BY HostFields
<1>1. CASE h.pc = "unlock"
  BY <1>1, Names DEF CallAt, Local, Holding
<1>2. CASE h.pc \in {"lock"} \cup Inside
  BY <1>2, Names DEF CallAt, Local, Holding
<1>3. CASE h.pc = "idle"
  BY <1>3, Names DEF CallAt, Local
<1>4. CASE h.pc \in Starting
  <2>1. h.pc \notin {"idle", "lock", "unlock"} \cup Holding
    BY <1>4, Names DEF Holding
  <2>2. h.num = 0 \/ h.res = "fail"
    BY <1>4 DEF Local
  <2> QED
    BY <2>1, <2>2 DEF CallAt
<1> QED
  BY <1>1, <1>2, <1>3, <1>4, Names DEF Holding

\* TisAt is CallAt of every process, before a step and after it.
AllSeen == host \in [Processes -> HostStates] => \A p \in Processes : TisAt[p] = CallAt(host[p], Me(p))

LEMMA SeenAs == AllSeen /\ AllSeen'
<1>1. AllSeen
  <2> SUFFICES ASSUME host \in [Processes -> HostStates], NEW p \in Processes
               PROVE  TisAt[p] = CallAt(host[p], Me(p))
    BY DEF AllSeen
  <2>1. host[p] \in HostStates
    OBVIOUS
  <2>2. host[p].res \in {"none", "ok", "fail"}
    BY <2>1, HostFields
  <2>3. TisAt[p] = IF host[p].num = 0 THEN "idle"
                   ELSE CASE At(p, "unlock") -> "called"
                          [] ~At(p, "unlock") /\ host[p].res = "ok" ->
                                (IF host[p].got = Answer(Me(p), Len(host[p].got)) THEN "ok" ELSE "garbled")
                          [] ~At(p, "unlock") /\ host[p].res = "fail" -> "fail"
                          [] ~At(p, "unlock") /\ host[p].res = "none" -> "called"
    BY DEF TisAt
  <2> HIDE DEF TisAt
  <2>4. CASE host[p].num = 0
    BY <2>3, <2>4 DEF CallAt
  <2>5. CASE host[p].num # 0 /\ At(p, "unlock")
    BY <2>3, <2>5 DEF CallAt, At
  <2>6. CASE host[p].num # 0 /\ ~At(p, "unlock")
    BY <2>2, <2>3, <2>6 DEF CallAt, At
  <2> QED
    BY <2>4, <2>5, <2>6
<1> QED
  BY <1>1, PTL

\* The chip's answer and the bus are seen through st, in and out alone.
LEMMA SameInTouch ==
    ASSUME NEW c, SameChip(c), NEW h, NEW id, NEW r
    PROVE  (InTouch(h, id, r, chip) => InTouch(h, id, r, c)) /\ (ChipFits(chip) => ChipFits(c))
BY DEF SameChip, InTouch, ChipFits, WriteKnows, ReadKnows, Running, Answered

\* What is asked of a process that moves from host[p] to h.
Moves(p, h) ==
    /\ h \in HostStates /\ h.num = host[p].num /\ Local(h, Me(p), TisRan[p])
    /\ h.pc \in {"lock"} \cup Holding => host[p].pc \in {"lock"} \cup Holding
    /\ h.pc \in Unsent => host[p].pc \in Unsent
    /\ h.pc \notin {"lock"} \cup Holding => h.res = host[p].res \/ (host[p].pc # "idle" /\ h.res = "fail")

LEMMA ProcessMoves ==
    ASSUME TisInv, NEW p \in Processes, NEW h, Moves(p, h),
           host' = [host EXCEPT ![p] = h], runs' = runs, chip' \in ChipStates, sem' \in {0, 1},
           (SameChip(chip') /\ sem' = sem) \/ (Others(p) /\ ChipFits(chip')),
           h.pc \in Holding => Others(p) /\ sem' = 0 /\ InTouch(h, Me(p), TisRan[p], chip')
    PROVE  TisInv' /\ Shift(p)
<1> USE DEF Moves
<1>1. host \in [Processes -> HostStates] /\ h \in HostStates
  BY DEF TisInv, TisTypes
<1>2. host' \in [Processes -> HostStates] /\ host'[p] = h
  BY <1>1
<1>3. \A q \in Processes : q # p => host'[q] = host[q]
  BY <1>1
<1>4. \A q \in Processes : host'[q].num = host[q].num
  BY <1>1, <1>2, <1>3
<1>5. \A q \in Processes : Me(q)' = Me(q)
  BY <1>4 DEF Me
<1>6. TisRan' = TisRan
  BY <1>4, <1>5 DEF TisRan
<1>7. TisTypes'
  BY <1>2 DEF TisInv, TisTypes
<1>8. ASSUME NEW q \in Processes
      PROVE  Local(host[q], Me(q), TisRan[q])'
  <2>1. CASE q = p
    <3>1. Local(h, Me(q)', TisRan'[q])
      BY <1>5, <1>6, <2>1, Zenon
    <3> QED
      BY <1>2, <2>1, <3>1 DEF Local
  <2>2. CASE q # p
    <3>1. Local(host[q], Me(q), TisRan[q])
      BY DEF TisInv
    <3>2. host'[q] = host[q] /\ Me(q)' = Me(q) /\ TisRan'[q] = TisRan[q]
      BY <1>3, <1>5, <1>6, <2>2, Zenon
    <3> QED
      BY <3>1, <3>2 DEF Local
  <2> QED
    BY <2>1, <2>2
<1>9. ASSUME NEW q \in Processes, host'[q].pc \in Holding
      PROVE  sem' = 0 /\ InTouch(host[q], Me(q), TisRan[q], chip)'
  <2>1. CASE q = p
    <3>1. sem' = 0 /\ InTouch(h, Me(q)', TisRan'[q], chip')
      BY <1>2, <1>5, <1>6, <1>9, <2>1, Zenon
    <3> QED
      BY <1>2, <2>1, <3>1 DEF InTouch, WriteKnows, ReadKnows, Running, Answered
  <2>2. CASE q # p
    <3>1. host'[q] = host[q] /\ Me(q)' = Me(q) /\ TisRan'[q] = TisRan[q]
      BY <1>3, <1>5, <1>6, <2>2, Zenon
    <3>2. sem = 0 /\ InTouch(host[q], Me(q), TisRan[q], chip)
      BY <1>9, <3>1 DEF TisInv
    <3>3. ~Others(p)
      BY <1>9, <2>2, <3>1 DEF Others
    <3>4. sem' = 0 /\ InTouch(host[q], Me(q), TisRan[q], chip')
      BY <3>2, <3>3, SameInTouch, Zenon
    <3> QED
      BY <3>1, <3>4 DEF InTouch, WriteKnows, ReadKnows, Running, Answered
  <2> QED
    BY <2>1, <2>2
<1>10. ASSUME NEW q \in Processes, NEW o \in Processes, host'[q].pc \in Holding, host'[o].pc \in Holding
       PROVE  q = o
  <2>1. CASE h.pc \in Holding
    <3>1. Others(p)
      BY <2>1
    <3>2. q = p /\ o = p
      BY <1>3, <1>10, <3>1 DEF Others
    <3> QED
      BY <3>2
  <2>2. CASE h.pc \notin Holding
    <3>1. q # p /\ o # p
      BY <1>2, <1>10, <2>2
    <3> QED
      BY <1>3, <1>10, <3>1 DEF TisInv
  <2> QED
    BY <2>1, <2>2
<1>11. ChipFits(chip)'
  <2>1. ChipFits(chip')
    BY SameInTouch DEF TisInv
  <2>2. ASSUME NEW id \in Ids, Given(id)
        PROVE  Given(id)'
    <3>1. id.who \in Processes
      BY DEF Ids
    <3>2. host'[id.who].num = host[id.who].num
      BY <1>4, <3>1
    <3>3. host'[id.who].pc \in Unsent => host[id.who].pc \in Unsent
      BY <1>2, <1>3, <3>1
    <3> QED
      BY <2>2, <3>2, <3>3 DEF Given
  <2> QED
    BY <2>1, <2>2 DEF ChipFits
<1>12. NotYetRun'
  BY <1>4 DEF TisInv, NotYetRun, Ids
<1>13. TisInv'
  BY <1>7, <1>8, <1>9, <1>10, <1>11, <1>12 DEF TisInv
<1>14. \A q \in Processes : TisAt[q] = CallAt(host[q], Me(q)) /\ TisAt'[q] = CallAt(host'[q], Me(q)')
  <2>1. \A q \in Processes : TisAt[q] = CallAt(host[q], Me(q))
    BY <1>1, SeenAs DEF AllSeen
  <2>2. \A q \in Processes : TisAt'[q] = CallAt(host'[q], Me(q)')
    BY <1>2, SeenAs DEF AllSeen, CallAt
  <2> QED
    BY <2>1, <2>2
<1>15. \A q \in Processes \ {p} : TisAt'[q] = TisAt[q]
  BY <1>3, <1>5, <1>14 DEF CallAt
<1>16. TisAt[p] = CallAt(host[p], Me(p)) /\ TisAt'[p] = CallAt(h, Me(p))
  BY <1>2, <1>5, <1>14 DEF CallAt
<1>17. \/ TisAt'[p] = TisAt[p]
       \/ TisAt[p] = "called" /\ TisAt'[p] = "fail"
       \/ TisAt[p] = "called" /\ TisAt'[p] = "ok" /\ TisRan[p] = 1
  <2> DEFINE g == host[p]  r == TisRan[p]  id == Me(p)
  <2>1. Local(g, id, r) /\ Local(h, id, r) /\ g \in HostStates
    BY <1>1 DEF TisInv
  <2>2. g.num \in Nat /\ h.num = g.num /\ h.res \in {"none", "ok", "fail"}
    BY <1>1, <2>1, HostFields
  <2>3. /\ g.pc \in {"lock"} \cup Holding => CallAt(g, id) = "called"
        /\ g.pc \notin {"lock"} \cup Holding => CallAt(g, id) = IF g.num = 0 THEN "idle" ELSE g.res
        /\ g.pc \in Starting /\ g.num # 0 => g.res = "fail"
        /\ g.pc = "idle" /\ g.num # 0 => g.res \in {"ok", "fail"}
    BY <2>1, CalledHow, Zenon
  <2>4. /\ h.pc \in {"lock"} \cup Holding => CallAt(h, id) = "called"
        /\ h.pc \notin {"lock"} \cup Holding => CallAt(h, id) = IF h.num = 0 THEN "idle" ELSE h.res
        /\ h.pc \in Starting /\ h.num # 0 => h.res = "fail"
        /\ h.pc = "idle" /\ h.num # 0 => h.res \in {"ok", "fail"}
        /\ h.num # 0 /\ h.res = "ok" => r = 1
    BY <1>1, <2>1, CalledHow, Zenon
  <2>5. g.pc \in {"lock"} \cup Holding => g.num # 0
    BY <2>1, <2>2, Names DEF Local, Holding
  <2>6. g.pc \in {"idle", "lock"} \cup Starting \cup Holding /\ h.pc \in {"idle", "lock"} \cup Starting \cup Holding
    BY <1>1, <2>1, HostFields
  <2>7. /\ h.pc \in {"lock"} \cup Holding => g.pc \in {"lock"} \cup Holding
        /\ h.pc \notin {"lock"} \cup Holding => h.res = g.res \/ (g.pc # "idle" /\ h.res = "fail")
    OBVIOUS
  <2> HIDE DEF g, r, id, Moves
  <2>8. \/ CallAt(h, id) = CallAt(g, id)
        \/ CallAt(g, id) = "called" /\ CallAt(h, id) = "fail"
        \/ CallAt(g, id) = "called" /\ CallAt(h, id) = "ok" /\ r = 1
    BY <2>2, <2>3, <2>4, <2>5, <2>6, <2>7
  <2> QED
    BY <1>16, <2>8 DEF g, r, id
<1> QED
  BY <1>6, <1>13, <1>15, <1>17 DEF Shift

-----------------------------------------------------------------------------
(* How a transaction ends, and a function that fails.                      *)

LEMMA HostIs ==
    ASSUME TisInv, NEW p \in Processes
    PROVE  /\ host \in [Processes -> HostStates] /\ host[p] \in HostStates
           /\ Local(host[p], Me(p), TisRan[p])
           /\ host[p].cnt = IF host[p].pc \in Holding THEN 1 ELSE 0
           /\ host[p].pc \in Holding => Others(p) /\ sem = 0 /\ InTouch(host[p], Me(p), TisRan[p], chip)
           /\ chip \in ChipStates /\ sem \in {0, 1}
BY DEF TisInv, TisTypes, Local, Others

LEMMA SameCount ==
    ASSUME NEW h \in HostStates, NEW c, c = h.cnt
    PROVE  [h EXCEPT !.cnt = c] = h
BY DEF HostStates

\* The lock of a transaction is given back, whether it nests or not.
LEMMA BusEnds ==
    ASSUME TisInv, NEW p \in Processes, NEW chips, NEW h \in HostStates, h.cnt = host[p].cnt,
           \A after \in AfterFault(p) : after \in HostStates /\ after.cnt = host[p].cnt,
           Bus(p, chips, h)
    PROVE  /\ sem' = sem /\ runs' = runs /\ stm' = stm
           /\ \/ chip' \in chips /\ host' = [host EXCEPT ![p] = h]
              \/ chip' \in chips \cup {chip}
                 /\ \E after \in AfterFault(p) : host' = [host EXCEPT ![p] = after]
<1>1. host[p].cnt \in {0, 1} /\ sem \in {0, 1}
  BY HostIs, HostFields
<1> DEFINE l == TPM2_TIS_Unlock(TPM2_TIS_Lock(LockOf(p)))
<1>2. l.cnt = host[p].cnt /\ l.sem = sem
  <2>1. CASE host[p].cnt = 0
    BY <1>1, <2>1 DEF LockOf, TPM2_TIS_Unlock, TPM2_TIS_Lock
  <2>2. CASE host[p].cnt = 1
    BY <1>1, <2>2 DEF LockOf, TPM2_TIS_Unlock, TPM2_TIS_Lock
  <2> QED
    BY <1>1, <2>1, <2>2
<1>3. /\ sem' = l.sem
      /\ \/ chip' \in chips /\ host' = [host EXCEPT ![p] = [h EXCEPT !.cnt = l.cnt]]
         \/ chip' \in chips \cup {chip}
            /\ \E after \in AfterFault(p) : host' = [host EXCEPT ![p] = [after EXCEPT !.cnt = l.cnt]]
      /\ UNCHANGED <<stm, runs>>
  BY Zenon DEF Bus
<1> HIDE DEF l
<1>4. [h EXCEPT !.cnt = l.cnt] = h
  BY <1>2, SameCount
<1>5. \A after \in AfterFault(p) : [after EXCEPT !.cnt = l.cnt] = after
  BY <1>2, SameCount
<1> QED
  BY <1>2, <1>3, <1>4, <1>5

\* A function that fails goes to the unlock if it holds the lock.
LEMMA FailedMoves ==
    ASSUME TisInv, NEW p \in Processes, host[p].pc \notin {"idle", "unlock"}
    PROVE  LET f == Failed(host[p], TRUE)
           IN  /\ Moves(p, f) /\ f.cnt = host[p].cnt /\ f.pc \in {"idle", "unlock"}
               /\ f.pc = "unlock" => host[p].pc \in Inside
               /\ f.pc = "idle" => host[p].pc \notin Holding
<1> DEFINE g == host[p]  f == Failed(g, TRUE)
<1>1. g \in HostStates /\ Local(g, Me(p), TisRan[p]) /\ g.cnt = IF g.pc \in Holding THEN 1 ELSE 0
  BY HostIs
<1>2. g.pc \in {"lock"} \cup Starting \cup Inside
  BY <1>1, HostFields DEF Holding
<1>3. f = [g EXCEPT !.res = "fail", !.fault = TRUE, !.pc = IF g.pc \in Holding THEN "unlock" ELSE "idle"]
  <2>1. (g.fault \/ TRUE) = TRUE
    OBVIOUS
  <2>2. (IF g.cnt > 0 THEN "unlock" ELSE "idle") = IF g.pc \in Holding THEN "unlock" ELSE "idle"
    BY <1>1
  <2> QED
    BY <2>1, <2>2, Zenon DEF Failed
<1> HIDE DEF f
<1>4. /\ f \in HostStates /\ f.num = g.num /\ f.cnt = g.cnt /\ f.res = "fail" /\ f.fault
      /\ f.pc = (IF g.pc \in Holding THEN "unlock" ELSE "idle") /\ f.started = g.started
  BY <1>1, <1>3 DEF HostStates, Holding
<1>5. f.pc = "unlock" => g.num > 0
  BY <1>1, <1>2, <1>4, Names DEF Local, Holding
<1>6. Local(f, Me(p), TisRan[p])
  <2>1. /\ f.pc \in {"idle", "unlock"} /\ f.pc \notin {"lock"} \cup Inside /\ f.pc \notin Starting
        /\ f.pc \notin {"lock", "status", "ready", "waitReady"} /\ f.pc # "done"
    BY <1>4, Names DEF Holding, Starting, Inside
  <2>2. f.cnt = IF f.pc \in Holding THEN 1 ELSE 0
    BY <1>1, <1>4, Names DEF Holding
  <2>3. f.num <= MaxCalls
    BY <1>1, <1>4 DEF Local
  <2> QED
    BY <1>4, <1>5, <2>1, <2>2, <2>3 DEF Local, Unsent
<1> QED
  BY <1>2, <1>4, <1>6, Names DEF f, Moves, Holding, Unsent

\* Once more round a loop, or on to the next register.
Again(p, h)   == h = [host[p] EXCEPT !.tries = @ - 1]
Further(p, h) == h = [host[p] EXCEPT !.pos = @ + 1]

LEMMA OneMore ==
    ASSUME TisInv, NEW p \in Processes, NEW h, Again(p, h) \/ Further(p, h)
    PROVE  /\ h \in HostStates /\ h.pc = host[p].pc /\ h.cnt = host[p].cnt /\ h.num = host[p].num
           /\ h.res = host[p].res /\ h.fault = host[p].fault /\ h.got = host[p].got
           /\ h.rspSz = host[p].rspSz /\ h.started = host[p].started /\ h.burst = host[p].burst
           /\ Again(p, h) => h.pos = host[p].pos
<1> DEFINE g == host[p]
<1>1. g \in HostStates
  BY HostIs
<1>2. \/ h = [g EXCEPT !.tries = g.tries - 1]
      \/ h = [g EXCEPT !.pos = g.pos + 1] /\ ~Again(p, h)
  BY DEF Again, Further
<1> HIDE DEF g
<1>3. CASE h = [g EXCEPT !.tries = g.tries - 1]
  <2>1. /\ h \in HostStates /\ h.pc = g.pc /\ h.cnt = g.cnt /\ h.num = g.num /\ h.res = g.res
        /\ h.pos = g.pos /\ h.got = g.got /\ h.rspSz = g.rspSz /\ h.burst = g.burst
    BY <1>1, <1>3 DEF HostStates
  <2>2. h.fault = g.fault
    BY <1>1, <1>3 DEF HostStates
  <2>3. h.started = g.started
    BY <1>1, <1>3 DEF HostStates
  <2> QED
    BY <2>1, <2>2, <2>3, Zenon DEF g
<1>4. CASE h = [g EXCEPT !.pos = g.pos + 1] /\ ~Again(p, h)
  <2>1. /\ h \in HostStates /\ h.pc = g.pc /\ h.cnt = g.cnt /\ h.num = g.num /\ h.res = g.res
        /\ h.got = g.got /\ h.rspSz = g.rspSz /\ h.burst = g.burst
    BY <1>1, <1>4 DEF HostStates
  <2>2. h.fault = g.fault
    BY <1>1, <1>4 DEF HostStates
  <2>3. h.started = g.started
    BY <1>1, <1>4 DEF HostStates
  <2> QED
    BY <1>4, <2>1, <2>2, <2>3, Zenon DEF g
<1> QED
  BY <1>2, <1>3, <1>4

LEMMA GotoFields ==
    ASSUME TisInv, NEW p \in Processes, NEW pc \in {"idle", "lock"} \cup Starting \cup Holding,
           NEW h, h = Goto(p, pc)
    PROVE  /\ h \in HostStates /\ h.pc = pc /\ h.cnt = host[p].cnt /\ h.num = host[p].num
           /\ h.res = host[p].res /\ h.fault = host[p].fault /\ h.pos = host[p].pos
           /\ h.got = host[p].got /\ h.rspSz = host[p].rspSz /\ h.started = host[p].started
           /\ h.burst = host[p].burst
<1>1. host[p] \in HostStates /\ Tries \in Int
  BY HostIs, TisAssumption
<1>2. h = [host[p] EXCEPT !.pc = pc, !.tries = Tries]
  BY DEF Goto
<1> DEFINE g == host[p]
<1> HIDE DEF g
<1>3. g \in HostStates /\ h = [g EXCEPT !.pc = pc, !.tries = Tries]
  BY <1>1, <1>2 DEF g
<1>4. /\ h \in HostStates /\ h.pc = pc /\ h.cnt = g.cnt /\ h.num = g.num /\ h.res = g.res
      /\ h.pos = g.pos /\ h.got = g.got /\ h.rspSz = g.rspSz /\ h.burst = g.burst
  BY <1>1, <1>3 DEF HostStates
<1>5. h.fault = g.fault
  BY <1>3 DEF HostStates
<1>6. h.started = g.started
  BY <1>3 DEF HostStates
<1> QED
  BY <1>4, <1>5, <1>6, Zenon DEF g

LEMMA TransferFields ==
    ASSUME TisInv, NEW p \in Processes, host[p].pc \in {"burst", "rburst"}, NEW b \in Nat
    PROVE  LET h == Transfer(p, b)  g == host[p]
           IN  /\ h \in HostStates /\ [h EXCEPT !.fault = TRUE] \in HostStates
               /\ h.pc = (IF g.pc = "burst" THEN "write" ELSE "read") /\ h.cnt = g.cnt
               /\ h.num = g.num /\ h.res = g.res /\ h.fault = g.fault /\ h.pos = g.pos
               /\ h.got = g.got /\ h.rspSz = g.rspSz /\ h.started = g.started /\ h.burst = b
<1> DEFINE pc == IF At(p, "burst") THEN "write" ELSE "read"  t == Goto(p, pc)
<1>1. pc \in {"idle", "lock"} \cup Starting \cup Holding
  BY DEF Holding, Inside, Writing, Reading
<1>2. /\ t \in HostStates /\ t.pc = pc /\ t.cnt = host[p].cnt /\ t.num = host[p].num
      /\ t.res = host[p].res /\ t.fault = host[p].fault /\ t.pos = host[p].pos
      /\ t.got = host[p].got /\ t.rspSz = host[p].rspSz /\ t.started = host[p].started
  BY <1>1, GotoFields
<1>3. Transfer(p, b) = [t EXCEPT !.burst = b]
  BY DEF Transfer
<1> HIDE DEF t
<1> QED
  BY <1>2, <1>3 DEF HostStates, At

\* What AfterFault may lead to.
LEMMA FaultEnds ==
    ASSUME TisInv, NEW p \in Processes, host[p].pc \notin {"idle", "unlock"}
    PROVE  \A after \in AfterFault(p) :
              /\ after \in HostStates /\ after.cnt = host[p].cnt
              /\ \/ after = Failed(host[p], TRUE)
                 \/ At(p, "check") /\ after = Goto(p, "request")
                 \/ At(p, "info") /\ Further(p, after)
                 \/ At(p, "granted") /\ Again(p, after)
                 \/ host[p].pc \in {"burst", "rburst"}
                    /\ \E b \in Bursts : after = [Transfer(p, b) EXCEPT !.fault = TRUE]
<1> SUFFICES ASSUME NEW after \in AfterFault(p)
             PROVE  /\ after \in HostStates /\ after.cnt = host[p].cnt
                    /\ \/ after = Failed(host[p], TRUE)
                       \/ At(p, "check") /\ after = Goto(p, "request")
                       \/ At(p, "info") /\ Further(p, after)
                       \/ At(p, "granted") /\ Again(p, after)
                       \/ host[p].pc \in {"burst", "rburst"}
                          /\ \E b \in Bursts : after = [Transfer(p, b) EXCEPT !.fault = TRUE]
  OBVIOUS
<1>1. host[p] \in HostStates
  BY HostIs
<1>2. CASE after = Failed(host[p], TRUE)
  BY <1>2, FailedMoves DEF Moves
<1>3. CASE At(p, "check") /\ after = Goto(p, "request")
  <2>1. "request" \in {"idle", "lock"} \cup Starting \cup Holding
    BY DEF Starting
  <2>2. after \in HostStates /\ after.cnt = host[p].cnt
    BY <1>3, <2>1, GotoFields, Zenon
  <2> QED
    BY <1>3, <2>2
<1>4. CASE At(p, "info") /\ Further(p, after)
  BY <1>4, OneMore
<1>5. CASE At(p, "granted") /\ Again(p, after)
  BY <1>5, OneMore
<1>6. CASE host[p].pc \in {"burst", "rburst"} /\ \E b \in Bursts : after = [Transfer(p, b) EXCEPT !.fault = TRUE]
  <2>1. PICK b \in Bursts : after = [Transfer(p, b) EXCEPT !.fault = TRUE]
    BY <1>6
  <2>2. b \in Nat
    BY DEF Bursts
  <2>3. Transfer(p, b) \in HostStates /\ after \in HostStates /\ Transfer(p, b).cnt = host[p].cnt
    <3>1. host[p].pc \in {"burst", "rburst"}
      BY <1>6
    <3>2. Transfer(p, b) \in HostStates /\ Transfer(p, b).cnt = host[p].cnt
      BY <2>2, <3>1, TransferFields
    <3>3. after \in HostStates
      BY <2>1, <3>2 DEF HostStates
    <3> QED
      BY <3>2, <3>3
  <2>4. after.cnt = Transfer(p, b).cnt
    BY <2>1, <2>3 DEF HostStates
  <2> QED
    BY <1>6, <2>3, <2>4
<1>7. \/ after = Failed(host[p], TRUE)
      \/ At(p, "check") /\ after = Goto(p, "request")
      \/ At(p, "info") /\ Further(p, after)
      \/ At(p, "granted") /\ Again(p, after)
      \/ host[p].pc \in {"burst", "rburst"} /\ \E b \in Bursts : after = [Transfer(p, b) EXCEPT !.fault = TRUE]
  BY DEF AfterFault, At, Again, Further
<1> QED
  BY <1>2, <1>3, <1>4, <1>5, <1>6, <1>7

-----------------------------------------------------------------------------
(* A process that starts the chip up.                                      *)

\* It goes on with the start-up, or is through with it.
Restarts(p, h) ==
    /\ h \in HostStates /\ h.pc \in Starting \cup {"idle"}
    /\ h.cnt = host[p].cnt /\ h.num = host[p].num /\ h.res = host[p].res
    /\ host[p].fault => h.fault
    /\ h.pc \in Starting => ~h.started

LEMMA RestartsMoves ==
    ASSUME TisInv, NEW p \in Processes, host[p].pc \in Starting, NEW h, Restarts(p, h)
    PROVE  Moves(p, h) /\ h.pc \notin Holding
<1> DEFINE g == host[p]
<1>1. g \in HostStates /\ Local(g, Me(p), TisRan[p]) /\ g.cnt = IF g.pc \in Holding THEN 1 ELSE 0
  BY HostIs
<1>2. ~g.started /\ (g.num = 0 \/ g.res = "fail") /\ (g.res = "fail" => g.fault) /\ g.num <= MaxCalls
  BY <1>1 DEF Local
<1>3. /\ h \in HostStates /\ h.pc \in Starting \cup {"idle"}
      /\ h.cnt = g.cnt /\ h.num = g.num /\ h.res = g.res
      /\ g.fault => h.fault
      /\ h.pc \in Starting => ~h.started
  BY DEF Restarts
<1>4. /\ h.pc \notin Holding /\ g.pc \notin Holding /\ h.pc \notin {"lock"} \cup Inside /\ g.pc # "idle"
      /\ h.pc \notin {"unlock", "lock", "status", "ready", "waitReady", "done"}
  BY <1>3, Names DEF Holding, Inside
<1>5. h.num \in Nat
  BY <1>3, HostFields
<1> HIDE DEF g
<1>6. Local(h, Me(p), TisRan[p])
  <2>1. h.num = 0 \/ h.res = "fail"
    BY <1>2, <1>3
  <2>2. h.res = "fail" => h.fault
    BY <1>2, <1>3
  <2>3. h.pc \in Starting => ~h.started
    BY <1>3
  <2>4. h.num \in Nat /\ h.num <= MaxCalls /\ h.cnt = IF h.pc \in Holding THEN 1 ELSE 0
    BY <1>1, <1>2, <1>3, <1>4, <1>5
  <2> QED
    BY <1>4, <2>1, <2>2, <2>3, <2>4 DEF Local, Unsent
<1> QED
  BY <1>3, <1>4, <1>6 DEF Moves, g, Unsent

LEMMA StartStep ==
    ASSUME TisInv, NEW p \in Processes, host[p].pc \in Starting, NEW h,
           Restarts(p, h) \/ h = Failed(host[p], TRUE),
           host' = [host EXCEPT ![p] = h], runs' = runs, sem' = sem,
           chip' \in ChipStates, SameChip(chip')
    PROVE  TisInv' /\ Shift(p)
<1>1. host[p].pc \notin {"idle", "unlock"} \cup Inside
  BY Names DEF Holding
<1>2. Moves(p, h) /\ h.pc \notin Holding
  <2>1. CASE Restarts(p, h)
    BY <2>1, RestartsMoves
  <2>2. CASE h = Failed(host[p], TRUE)
    <3>1. Moves(p, h) /\ h.pc \in {"idle", "unlock"} /\ (h.pc = "unlock" => host[p].pc \in Inside)
      BY <1>1, <2>2, FailedMoves
    <3> QED
      BY <1>1, <3>1, Names
  <2> QED
    BY <2>1, <2>2
<1>3. sem' \in {0, 1}
  BY HostIs
<1>4. h.pc \in Holding => Others(p) /\ sem' = 0 /\ InTouch(h, Me(p), TisRan[p], chip')
  BY <1>2
<1>5. (SameChip(chip') /\ sem' = sem) \/ (Others(p) /\ ChipFits(chip'))
  OBVIOUS
<1> QED
  BY <1>2, <1>3, <1>4, <1>5, ProcessMoves, Zenon

LEMMA RestartGoto ==
    ASSUME TisInv, NEW p \in Processes, host[p].pc \in Starting, NEW pc \in Starting,
           NEW h, h = Goto(p, pc)
    PROVE  Restarts(p, h)
<1>1. pc \in {"idle", "lock"} \cup Starting \cup Holding
  OBVIOUS
<1>2. /\ h \in HostStates /\ h.pc = pc /\ h.cnt = host[p].cnt /\ h.num = host[p].num
      /\ h.res = host[p].res /\ h.fault = host[p].fault /\ h.started = host[p].started
  BY <1>1, GotoFields
<1>3. ~host[p].started
  BY HostIs DEF Local
<1> QED
  BY <1>2, <1>3 DEF Restarts

LEMMA RestartMore ==
    ASSUME TisInv, NEW p \in Processes, host[p].pc \in Starting, NEW h, Again(p, h) \/ Further(p, h)
    PROVE  Restarts(p, h)
<1>1. ~host[p].started /\ host[p] \in HostStates
  BY HostIs DEF Local
<1>2. /\ h \in HostStates /\ h.pc = host[p].pc /\ h.cnt = host[p].cnt /\ h.num = host[p].num
      /\ h.res = host[p].res /\ h.fault = host[p].fault /\ h.started = host[p].started
  BY OneMore
<1> QED
  BY <1>1, <1>2 DEF Restarts

LEMMA StartBus ==
    ASSUME TisInv, NEW p \in Processes, host[p].pc \in Starting, NEW chips, NEW h,
           \A c \in chips : c \in ChipStates /\ SameChip(c),
           Restarts(p, h) \/ h = Failed(host[p], TRUE), Bus(p, chips, h)
    PROVE  TisInv' /\ Shift(p)
<1>1. host[p] \in HostStates /\ Local(host[p], Me(p), TisRan[p]) /\ chip \in ChipStates
  BY HostIs
<1>2. /\ host[p].pc \notin {"idle", "unlock", "burst", "rburst"}
      /\ "request" \in {"idle", "lock"} \cup Starting \cup Holding /\ "request" \in Starting
  BY Names DEF Holding, Starting
<1>3. h \in HostStates /\ h.cnt = host[p].cnt
  <2>1. CASE Restarts(p, h)
    BY <2>1 DEF Restarts
  <2>2. CASE h = Failed(host[p], TRUE)
    BY <1>2, <2>2, FailedMoves DEF Moves
  <2> QED
    BY <2>1, <2>2
<1>4. \A after \in AfterFault(p) :
         /\ after \in HostStates /\ after.cnt = host[p].cnt
         /\ Restarts(p, after) \/ after = Failed(host[p], TRUE)
  <2> SUFFICES ASSUME NEW after \in AfterFault(p)
               PROVE  /\ after \in HostStates /\ after.cnt = host[p].cnt
                      /\ Restarts(p, after) \/ after = Failed(host[p], TRUE)
    OBVIOUS
  <2>1. ~host[p].started
    BY <1>1 DEF Local
  <2>2. /\ after \in HostStates /\ after.cnt = host[p].cnt
        /\ \/ after = Failed(host[p], TRUE)
           \/ after = Goto(p, "request")
           \/ Again(p, after) \/ Further(p, after)
    BY <1>2, FaultEnds
  <2>3. CASE after = Goto(p, "request")
    BY <1>2, <2>2, <2>3, RestartGoto
  <2>4. CASE Again(p, after) \/ Further(p, after)
    BY <2>2, <2>4, RestartMore
  <2> QED
    BY <2>2, <2>3, <2>4
<1>5. /\ sem' = sem /\ runs' = runs
      /\ \/ chip' \in chips /\ host' = [host EXCEPT ![p] = h]
         \/ chip' \in chips \cup {chip}
            /\ \E after \in AfterFault(p) : host' = [host EXCEPT ![p] = after]
  BY <1>3, <1>4, BusEnds
<1>6. chip' \in ChipStates /\ SameChip(chip')
  BY <1>1, <1>5 DEF SameChip
<1> QED
  BY <1>4, <1>5, <1>6, StartStep

\* A turn of a polling loop, where running out of tries is not the chip's norm.
LEMMA TurnEnds ==
    ASSUME NEW p, NEW met, NEW then, NEW slow, ~met => slow, NEW h, h = Turn(p, met, then, slow)
    PROVE  /\ h = then \/ Again(p, h) \/ h = Failed(host[p], TRUE)
           /\ met => h = then
           /\ ~met => Again(p, h) \/ h = Failed(host[p], TRUE)
<1>1. CASE met
  BY <1>1 DEF Turn
<1>2. CASE ~met /\ host[p].tries > 1
  BY <1>2 DEF Turn, Again
<1>3. CASE ~met /\ ~(host[p].tries > 1)
  <2>1. (host[p].fault \/ slow) = (host[p].fault \/ TRUE)
    BY <1>3
  <2>2. Failed(host[p], slow) = Failed(host[p], TRUE)
    BY <2>1, Zenon DEF Failed
  <2>3. h = Failed(host[p], slow)
    BY <1>3 DEF Turn
  <2> QED
    BY <1>3, <2>2, <2>3
<1> QED
  BY <1>1, <1>2, <1>3

LEMMA RestartTurn ==
    ASSUME TisInv, NEW p \in Processes, host[p].pc \in Starting, NEW met, NEW t, Restarts(p, t),
           NEW slow, ~met => slow, NEW h, h = Turn(p, met, t, slow)
    PROVE  Restarts(p, h) \/ h = Failed(host[p], TRUE)
<1>1. h = t \/ Again(p, h) \/ h = Failed(host[p], TRUE)
  BY TurnEnds
<1> QED
  BY <1>1, RestartMore

\* The same with the set of chips written out.
LEMMA StartBusOne ==
    ASSUME TisInv, NEW p \in Processes, host[p].pc \in Starting, NEW c, NEW d,
           c \in ChipStates, SameChip(c), d \in ChipStates, SameChip(d), NEW h,
           Restarts(p, h) \/ h = Failed(host[p], TRUE), Bus(p, {c}, h) \/ Bus(p, {c, d}, h)
    PROVE  TisInv' /\ Shift(p)
<1> DEFINE C == {c}  D == {c, d}
<1>1. \A x \in C : x \in ChipStates /\ SameChip(x)
  OBVIOUS
<1>2. \A x \in D : x \in ChipStates /\ SameChip(x)
  OBVIOUS
<1>3. Bus(p, C, h) \/ Bus(p, D, h)
  OBVIOUS
<1> HIDE DEF C, D
<1> QED
  BY <1>1, <1>2, <1>3, StartBus, Zenon

LEMMA StartupSteps ==
    ASSUME TisInv, NEW p \in Processes,
           StartupWait(p) \/ CheckLocality(p) \/ RequestLocality(p) \/ LocalityGranted(p) \/ GetInfo(p)
    PROVE  TisInv' /\ Shift(p)
<1>1. host[p].pc \in Starting
  BY DEF StartupWait, CheckLocality, RequestLocality, LocalityGranted, GetInfo, At, Starting
<1>2. /\ host[p] \in HostStates /\ ~host[p].started /\ chip \in ChipStates
      /\ {"startup", "check", "request", "granted", "info"} = Starting
  BY <1>1, HostIs DEF Local, Starting
<1> DEFINE on == [chip EXCEPT !.active = TRUE]
<1>3. chip \in ChipStates /\ SameChip(chip) /\ on \in ChipStates /\ SameChip(on)
  BY <1>2 DEF ChipStates, SameChip
<1> HIDE DEF on
<1>4. \A pc \in Starting : Restarts(p, Goto(p, pc))
  BY <1>1, RestartGoto
<1>5. CASE StartupWait(p)
  <2> DEFINE h == Turn(p, chip.up, Goto(p, "check"), ~chip.up)
  <2>1. Bus(p, {chip}, h)
    BY <1>5 DEF StartupWait
  <2>2. Restarts(p, h) \/ h = Failed(host[p], TRUE)
    BY <1>1, <1>2, <1>4, RestartTurn
  <2> HIDE DEF h
  <2> QED
    BY <1>1, <1>3, <2>1, <2>2, StartBusOne
<1>6. CASE CheckLocality(p)
  <2> DEFINE h == Goto(p, IF chip.active THEN "info" ELSE "request")
  <2>1. Bus(p, {chip}, h)
    BY <1>6 DEF CheckLocality
  <2>2. Restarts(p, h)
    BY <1>2, <1>4
  <2> HIDE DEF h
  <2> QED
    BY <1>1, <1>3, <2>1, <2>2, StartBusOne
<1>7. CASE RequestLocality(p)
  <2> DEFINE h == Goto(p, "granted")
  <2>1. Bus(p, {chip, on}, h)
    BY <1>7 DEF RequestLocality, on
  <2>2. Restarts(p, h)
    BY <1>2, <1>4
  <2> HIDE DEF h
  <2> QED
    BY <1>1, <1>3, <2>1, <2>2, StartBusOne
<1>8. CASE LocalityGranted(p)
  <2>1. PICK c \in {chip, on} : Bus(p, {c}, Turn(p, c.active, Goto(p, "info"), TRUE))
    BY <1>8 DEF LocalityGranted, on
  <2> DEFINE h == Turn(p, c.active, Goto(p, "info"), TRUE)
  <2>2. Restarts(p, h) \/ h = Failed(host[p], TRUE)
    BY <1>1, <1>2, <1>4, RestartTurn
  <2> HIDE DEF h
  <2>3. Bus(p, {c}, h)
    BY <2>1 DEF h
  <2> QED
    BY <1>1, <1>3, <2>2, <2>3, StartBusOne
<1>9. CASE GetInfo(p)
  <2> DEFINE more == [host[p] EXCEPT !.pos = @ + 1]  last == [host[p] EXCEPT !.pc = "idle", !.started = TRUE]
             h == IF host[p].pos < Registers - 1 THEN more ELSE last
  <2>1. Bus(p, {chip}, h)
    BY <1>9 DEF GetInfo
  <2>2. Restarts(p, more)
    BY <1>1, RestartMore DEF Further
  <2>3. Restarts(p, last)
    <3>1. last \in HostStates
      BY <1>2 DEF HostStates
    <3>2. last.pc = "idle" /\ last.cnt = host[p].cnt /\ last.num = host[p].num /\ last.res = host[p].res
      BY <1>2 DEF HostStates
    <3>3. last.fault = host[p].fault
      BY <1>2 DEF HostStates
    <3>4. last.pc \in Starting \cup {"idle"} /\ last.pc \notin Starting
      BY <3>2, Names
    <3> HIDE DEF last
    <3> QED
      BY <3>1, <3>2, <3>3, <3>4, Zenon DEF Restarts
  <2>4. Restarts(p, h)
    BY <2>2, <2>3
  <2> HIDE DEF h
  <2> QED
    BY <1>1, <1>3, <2>1, <2>4, StartBusOne
<1> QED
  BY <1>5, <1>6, <1>7, <1>8, <1>9

-----------------------------------------------------------------------------
(* A process that holds the semaphore.                                     *)

Holds(p, h, c) ==
    /\ h \in HostStates /\ h.pc \in Inside \cup {"unlock"} /\ h.cnt = 1 /\ h.num = host[p].num
    /\ h.pc \in Unsent => host[p].pc \in Unsent
    /\ Local(h, Me(p), TisRan[p])
    /\ c \in ChipStates /\ ChipFits(c) /\ InTouch(h, Me(p), TisRan[p], c)

LEMMA HolderIs ==
    ASSUME TisInv, NEW p \in Processes, host[p].pc \in {"lock"} \cup Inside
    PROVE  /\ host[p].num \in Nat /\ host[p].num > 0 /\ host[p].res = "none" /\ host[p].started
           /\ host[p].pc \notin {"idle", "unlock"} /\ (host[p].pc \in Inside => host[p].cnt = 1)
           /\ Me(p) \in Ids /\ TisRan[p] = runs[Me(p)] /\ host[Me(p).who].num = Me(p).num
<1> DEFINE g == host[p]
<1>1. g \in HostStates /\ Local(g, Me(p), TisRan[p]) /\ g.cnt = IF g.pc \in Holding THEN 1 ELSE 0
  BY HostIs
<1>2. /\ g.num \in Nat /\ g.num > 0 /\ g.res = "none" /\ g.num <= MaxCalls /\ g.started \in BOOLEAN
      /\ ~g.started => g.num = 0 \/ g.res = "fail"
  BY <1>1, HostFields DEF Local
<1>3. g.started
  BY <1>2
<1>4. Me(p) \in Ids /\ Me(p).who = p /\ Me(p).num = g.num
  BY <1>2, TisAssumption DEF Me, Ids
<1>5. TisRan[p] = runs[Me(p)]
  BY <1>2 DEF TisRan
<1>6. g.pc \notin {"idle", "unlock"} /\ (g.pc \in Inside => g.cnt = 1)
  BY <1>1, Names
<1> QED
  BY <1>2, <1>3, <1>4, <1>5, <1>6

LEMMA HolderStep ==
    ASSUME TisInv, NEW p \in Processes, host[p].pc \in Inside, NEW h, Holds(p, h, chip'),
           host' = [host EXCEPT ![p] = h], runs' = runs, sem' = sem
    PROVE  TisInv' /\ Shift(p)
<1>1. /\ h \in HostStates /\ h.pc \in Inside \cup {"unlock"} /\ h.num = host[p].num
      /\ h.pc \in Unsent => host[p].pc \in Unsent
      /\ Local(h, Me(p), TisRan[p]) /\ chip' \in ChipStates
  BY DEF Holds
<1>2. ChipFits(chip') /\ InTouch(h, Me(p), TisRan[p], chip')
  BY Zenon DEF Holds
<1>3. host[p].pc \in Holding /\ h.pc \in Holding
  BY <1>1, Names DEF Holding
<1>4. Moves(p, h)
  BY <1>1, <1>3 DEF Moves
<1>5. Others(p) /\ sem' = 0 /\ sem' \in {0, 1}
  BY <1>3, HostIs
<1>6. (SameChip(chip') /\ sem' = sem) \/ (Others(p) /\ ChipFits(chip'))
  BY <1>2, <1>5
<1>7. h.pc \in Holding => Others(p) /\ sem' = 0 /\ InTouch(h, Me(p), TisRan[p], chip')
  BY <1>2, <1>5, Zenon
<1> QED
  BY <1>1, <1>4, <1>5, <1>6, <1>7, ProcessMoves, Zenon

LEMMA FailedHolds ==
    ASSUME TisInv, NEW p \in Processes, host[p].pc \in Inside, NEW h, h = Failed(host[p], TRUE),
           NEW c, c \in ChipStates, ChipFits(c)
    PROVE  Holds(p, h, c)
<1>1. host[p].pc \notin {"idle", "unlock"} /\ host[p].pc \in Holding /\ host[p].cnt = 1
  BY HolderIs, Names
<1>2. Moves(p, h) /\ h.cnt = host[p].cnt /\ h.pc \in {"idle", "unlock"} /\ (h.pc = "idle" => host[p].pc \notin Holding)
  BY <1>1, FailedMoves
<1>3. h.pc = "unlock" /\ "unlock" \notin Writing \cup Reading
  BY <1>1, <1>2, Names
<1>4. InTouch(h, Me(p), TisRan[p], c)
  BY <1>3 DEF InTouch
<1> QED
  BY <1>1, <1>2, <1>3, <1>4, Zenon DEF Holds, Moves

LEMMA HolderBus ==
    ASSUME TisInv, NEW p \in Processes, host[p].pc \in Inside, NEW chips, NEW h,
           h \in HostStates, h.cnt = 1, \A c \in chips : Holds(p, h, c),
           host[p].pc \in {"burst", "rburst"} =>
              /\ chips = {chip}
              /\ \A b \in Bursts : Holds(p, [Transfer(p, b) EXCEPT !.fault = TRUE], chip),
           Bus(p, chips, h)
    PROVE  TisInv' /\ Shift(p)
<1>1. /\ host[p].pc \notin {"idle", "unlock", "check", "info", "granted"} /\ host[p].cnt = 1
      /\ chip \in ChipStates /\ ChipFits(chip)
  BY HolderIs, Names DEF Starting, TisInv, TisTypes, Holding
<1>2. \A after \in AfterFault(p) :
         /\ after \in HostStates /\ after.cnt = host[p].cnt
         /\ \/ after = Failed(host[p], TRUE)
            \/ host[p].pc \in {"burst", "rburst"} /\ Holds(p, after, chip)
  <2> SUFFICES ASSUME NEW after \in AfterFault(p)
               PROVE  /\ after \in HostStates /\ after.cnt = host[p].cnt
                      /\ \/ after = Failed(host[p], TRUE)
                         \/ host[p].pc \in {"burst", "rburst"} /\ Holds(p, after, chip)
    OBVIOUS
  <2>1. /\ after \in HostStates /\ after.cnt = host[p].cnt
        /\ \/ after = Failed(host[p], TRUE)
           \/ host[p].pc \in {"burst", "rburst"}
              /\ \E b \in Bursts : after = [Transfer(p, b) EXCEPT !.fault = TRUE]
    BY <1>1, FaultEnds DEF At
  <2>2. CASE host[p].pc \in {"burst", "rburst"} /\ \E b \in Bursts : after = [Transfer(p, b) EXCEPT !.fault = TRUE]
    <3>1. PICK b \in Bursts : after = [Transfer(p, b) EXCEPT !.fault = TRUE]
      BY <2>2
    <3>2. Holds(p, [Transfer(p, b) EXCEPT !.fault = TRUE], chip)
      BY <2>2
    <3> QED
      BY <2>1, <2>2, <3>1, <3>2
  <2> QED
    BY <2>1, <2>2
<1>3. /\ sem' = sem /\ runs' = runs
      /\ \/ chip' \in chips /\ host' = [host EXCEPT ![p] = h]
         \/ chip' \in chips \cup {chip}
            /\ \E after \in AfterFault(p) : host' = [host EXCEPT ![p] = after]
  <2>1. h.cnt = host[p].cnt
    BY <1>1
  <2>2. \A after \in AfterFault(p) : after \in HostStates /\ after.cnt = host[p].cnt
    BY <1>2
  <2> QED
    BY <2>1, <2>2, BusEnds, Zenon
<1>4. CASE chip' \in chips /\ host' = [host EXCEPT ![p] = h]
  BY <1>3, <1>4, HolderStep
<1>5. CASE chip' \in chips \cup {chip} /\ \E after \in AfterFault(p) : host' = [host EXCEPT ![p] = after]
  <2>1. PICK after \in AfterFault(p) : host' = [host EXCEPT ![p] = after]
    BY <1>5
  <2>2. chip' \in ChipStates /\ ChipFits(chip')
    <3>1. CASE chip' \in chips
      <4>1. Holds(p, h, chip')
        BY <3>1
      <4> QED
        BY <4>1, Zenon DEF Holds
    <3>2. CASE chip' = chip
      BY <1>1, <3>2
    <3> QED
      BY <1>5, <3>1, <3>2
  <2>3. CASE after = Failed(host[p], TRUE)
    <3>1. Holds(p, after, chip')
      BY <2>2, <2>3, FailedHolds
    <3> QED
      BY <1>3, <2>1, <3>1, HolderStep
  <2>4. CASE host[p].pc \in {"burst", "rburst"} /\ Holds(p, after, chip)
    <3>1. chip' = chip
      BY <1>5, <2>4
    <3>2. Holds(p, after, chip')
      BY <2>4, <3>1
    <3> QED
      BY <1>3, <2>1, <3>2, HolderStep
  <2> QED
    BY <1>2, <2>1, <2>3, <2>4
<1> QED
  BY <1>3, <1>4, <1>5

\* The bus and the fields that a step leaves alone.
KeepsOn(p, h) ==
    /\ h \in HostStates /\ h.pc \in Inside
    /\ h.cnt = 1 /\ h.num = host[p].num /\ h.res = host[p].res /\ h.started
AtFirst(h, r) == h.pos = 0 /\ h.rspSz = Header /\ h.got = <<>> /\ r = 0

LEMMA KeepsLocal ==
    ASSUME TisInv, NEW p \in Processes, host[p].pc \in {"lock"} \cup Inside, NEW h, KeepsOn(p, h),
           h.pc \in Unsent => AtFirst(h, TisRan[p]),
           h.pc = "done" => h.got = Answer(Me(p), Len(h.got)) /\ TisRan[p] = 1
    PROVE  Local(h, Me(p), TisRan[p])
<1>1. /\ host[p].num \in Nat /\ host[p].num > 0 /\ host[p].res = "none" /\ host[p].num <= MaxCalls
  BY HolderIs, HostIs DEF Local
<1>2. /\ h.pc \in Inside /\ h.cnt = 1 /\ h.num > 0 /\ h.num <= MaxCalls /\ h.res = "none" /\ h.started
  BY <1>1 DEF KeepsOn
<1>3. h.pc \in Holding /\ h.pc \notin Starting /\ h.pc \notin {"idle", "unlock"}
  BY <1>2, Names
<1> QED
  BY <1>2, <1>3 DEF Local, AtFirst

LEMMA GotoKeeps ==
    ASSUME TisInv, NEW p \in Processes, host[p].pc \in Inside, NEW pc \in Inside, NEW h, h = Goto(p, pc)
    PROVE  /\ KeepsOn(p, h) /\ h.pc = pc
           /\ h.pos = host[p].pos /\ h.rspSz = host[p].rspSz /\ h.got = host[p].got
<1>1. pc \in {"idle", "lock"} \cup Starting \cup Holding
  BY DEF Holding
<1>2. /\ h \in HostStates /\ h.pc = pc /\ h.cnt = host[p].cnt /\ h.num = host[p].num
      /\ h.res = host[p].res /\ h.started = host[p].started
      /\ h.pos = host[p].pos /\ h.rspSz = host[p].rspSz /\ h.got = host[p].got
  BY <1>1, GotoFields
<1>3. host[p].started /\ host[p].cnt = 1
  BY HolderIs
<1> QED
  BY <1>2, <1>3 DEF KeepsOn

\* Once more round a polling loop.
LEMMA AgainHolds ==
    ASSUME TisInv, NEW p \in Processes, host[p].pc \in Inside, NEW h, Again(p, h)
    PROVE  Holds(p, h, chip)
<1>1. /\ h \in HostStates /\ h.pc = host[p].pc /\ h.cnt = host[p].cnt /\ h.num = host[p].num
      /\ h.res = host[p].res /\ h.got = host[p].got /\ h.rspSz = host[p].rspSz
      /\ h.burst = host[p].burst /\ h.pos = host[p].pos
  BY OneMore
<1>2. h.started = host[p].started
  BY OneMore
<1>3. host[p].started /\ host[p].cnt = 1 /\ host[p].pc \in Holding
  BY HolderIs, Names
<1>4. chip \in ChipStates /\ ChipFits(chip) /\ InTouch(host[p], Me(p), TisRan[p], chip) /\ Local(host[p], Me(p), TisRan[p])
  BY <1>3, HostIs DEF TisInv
<1>5. KeepsOn(p, h)
  BY <1>1, <1>2, <1>3 DEF KeepsOn
<1>6. /\ h.pc \in Unsent => AtFirst(h, TisRan[p])
      /\ h.pc = "done" => h.got = Answer(Me(p), Len(h.got)) /\ TisRan[p] = 1
  BY <1>1, <1>4, HolderIs DEF Local, AtFirst
<1>7. Local(h, Me(p), TisRan[p])
  BY <1>5, <1>6, KeepsLocal
<1>8. InTouch(h, Me(p), TisRan[p], chip)
  BY <1>1, <1>4 DEF InTouch, WriteKnows, ReadKnows, Running, Answered
<1> QED
  BY <1>1, <1>3, <1>4, <1>7, <1>8 DEF Holds

\* A turn of a loop that the process is in with the semaphore.
LEMMA HolderTurn ==
    ASSUME TisInv, NEW p \in Processes, host[p].pc \in Inside, NEW met, NEW t, met => Holds(p, t, chip),
           NEW slow, ~met => slow, NEW h, h = Turn(p, met, t, slow)
    PROVE  Holds(p, h, chip)
<1>1. /\ met => h = t
      /\ ~met => Again(p, h) \/ h = Failed(host[p], TRUE)
  BY TurnEnds
<1>2. chip \in ChipStates /\ ChipFits(chip)
  BY HostIs DEF TisInv
<1>3. CASE h = Failed(host[p], TRUE)
  BY <1>2, <1>3, FailedHolds
<1>4. CASE Again(p, h)
  BY <1>4, AgainHolds
<1>5. CASE met
  BY <1>1, <1>5
<1> QED
  BY <1>1, <1>3, <1>4, <1>5

\* A transaction that leaves the chip alone, not about the burst count.
LEMMA HolderLooks ==
    ASSUME TisInv, NEW p \in Processes, host[p].pc \in Inside \ {"burst", "rburst"}, NEW h,
           Holds(p, h, chip), Bus(p, {chip}, h)
    PROVE  TisInv' /\ Shift(p)
<1> DEFINE C == {chip}
<1>1. (\A c \in C : Holds(p, h, c)) /\ Bus(p, C, h)
  OBVIOUS
<1>2. h \in HostStates /\ h.cnt = 1 /\ host[p].pc \in Inside /\ host[p].pc \notin {"burst", "rburst"}
  BY DEF Holds
<1> HIDE DEF C
<1>3. host[p].pc \in {"burst", "rburst"} =>
         /\ C = {chip}
         /\ \A b \in Bursts : Holds(p, [Transfer(p, b) EXCEPT !.fault = TRUE], chip)
  BY <1>2
<1> QED
  BY <1>1, <1>2, <1>3, HolderBus, Zenon

-----------------------------------------------------------------------------
(* Waiting until the chip is ready.                                        *)

LEMMA OnReadyChip ==
    ASSUME TisInv, NEW c \in OnReady(chip)
    PROVE  c \in ChipStates /\ ChipFits(c) /\ c.st \in {"ready", "abort"}
<1>1. chip \in ChipStates /\ ChipFits(chip)
  BY HostIs DEF TisInv, TisTypes
<1>2. CASE chip.st = "ready"
  BY <1>1, <1>2 DEF OnReady
<1>3. CASE chip.st # "ready"
  <2>1. PICK s \in {"ready", "abort"} : c = [chip EXCEPT !.st = s, !.in = <<>>, !.out = <<>>]
    BY <1>3 DEF OnReady
  <2>2. <<>> \in Seq(Ids) /\ <<>> \in Seq(Units)
    OBVIOUS
  <2>3. c \in ChipStates
    BY <1>1, <2>1, <2>2 DEF ChipStates
  <2>4. c.st = s /\ c.in = <<>>
    BY <1>1, <2>1 DEF ChipStates
  <2> QED
    BY <2>3, <2>4 DEF ChipFits
<1> QED
  BY <1>2, <1>3

\* A chip that is ready takes the command from its first unit.
LEMMA BurstHolds ==
    ASSUME TisInv, NEW p \in Processes, host[p].pc \in {"status", "waitReady"}, Ready
    PROVE  Holds(p, Goto(p, "burst"), chip)
<1> DEFINE h == Goto(p, "burst")  r == TisRan[p]  id == Me(p)
<1>1. host[p].pc \in Inside /\ "burst" \in Inside /\ "burst" \in Writing /\ "burst" \notin Reading
  BY DEF Inside, Writing, Reading
<1>2. KeepsOn(p, h) /\ h.pc = "burst" /\ h.pos = host[p].pos /\ h.rspSz = host[p].rspSz /\ h.got = host[p].got
  BY <1>1, GotoKeeps
<1>3. host[p].pos = 0 /\ host[p].rspSz = Header /\ host[p].got = <<>> /\ r = 0
  BY HostIs DEF Local, Unsent
<1>4. chip \in ChipStates /\ ChipFits(chip) /\ chip.in = <<>> /\ chip.st = "ready"
  BY HostIs DEF TisInv, Ready, ChipFits
<1>5. Copies(id, 0) = <<>>
  BY DEF Copies
<1> HIDE DEF h, r, id
<1>6. WriteKnows(h, id, r, chip)
  BY <1>2, <1>3, <1>4, <1>5, TisAssumption DEF WriteKnows
<1>7. InTouch(h, id, r, chip)
  BY <1>1, <1>2, <1>6 DEF InTouch
<1>8. Local(h, id, r)
  BY <1>1, <1>2, KeepsLocal DEF r, id, Unsent
<1> QED
  BY <1>2, <1>4, <1>7, <1>8 DEF Holds, KeepsOn, h, r, id, Unsent

LEMMA ReadySteps ==
    ASSUME TisInv, NEW p \in Processes, TPM2_TIS_Status(p) \/ TPM2_TIS_Ready(p) \/ WaitReady(p)
    PROVE  TisInv' /\ Shift(p)
<1>1. host[p].pc \in {"status", "ready", "waitReady"} /\ {"status", "ready", "waitReady"} \subseteq Inside \ {"burst", "rburst"}
  BY DEF TPM2_TIS_Status, TPM2_TIS_Ready, WaitReady, At, Inside
<1>2. AtFirst(host[p], TisRan[p]) /\ chip \in ChipStates /\ ChipFits(chip)
  BY <1>1, HostIs DEF Local, TisInv, AtFirst, Unsent
<1>3. \A pc \in {"ready", "waitReady"}, c \in ChipStates :
         ChipFits(c) /\ (pc = "waitReady" => c.st \in {"ready", "abort"}) => Holds(p, Goto(p, pc), c)
  <2> SUFFICES ASSUME NEW pc \in {"ready", "waitReady"}, NEW c \in ChipStates, ChipFits(c),
                      pc = "waitReady" => c.st \in {"ready", "abort"}
               PROVE  Holds(p, Goto(p, pc), c)
    BY Zenon
  <2> DEFINE h == Goto(p, pc)
  <2>1. KeepsOn(p, h) /\ h.pc = pc /\ h.pos = host[p].pos /\ h.rspSz = host[p].rspSz /\ h.got = host[p].got
    BY <1>1, GotoKeeps
  <2> HIDE DEF h
  <2>2. Local(h, Me(p), TisRan[p])
    BY <1>1, <1>2, <2>1, KeepsLocal DEF AtFirst
  <2>3. pc \notin Writing \cup Reading \cup {"write", "read"}
    BY Names DEF Writing, Reading
  <2>4. InTouch(h, Me(p), TisRan[p], c)
    BY <2>1, <2>3 DEF InTouch
  <2> QED
    BY <1>1, <2>1, <2>2, <2>4 DEF Holds, KeepsOn, h, Unsent
<1>4. CASE TPM2_TIS_Status(p)
  <2> DEFINE h == Goto(p, IF Ready THEN "burst" ELSE "ready")
  <2>1. Bus(p, {chip}, h) /\ host[p].pc = "status"
    BY <1>4 DEF TPM2_TIS_Status, At
  <2>2. Holds(p, h, chip)
    <3>1. CASE Ready
      BY <2>1, <3>1, BurstHolds
    <3>2. CASE ~Ready
      BY <1>2, <1>3, <3>2
    <3> QED
      BY <3>1, <3>2
  <2> HIDE DEF h
  <2> QED
    BY <1>1, <2>1, <2>2, HolderLooks
<1>5. CASE TPM2_TIS_Ready(p)
  <2> DEFINE h == Goto(p, "waitReady")  C == OnReady(chip)
  <2>1. Bus(p, C, h) /\ host[p].pc = "ready"
    BY <1>5 DEF TPM2_TIS_Ready, At
  <2>2. \A c \in C : Holds(p, h, c)
    BY <1>3, OnReadyChip
  <2>3. h \in HostStates /\ h.cnt = 1
    BY <1>1, GotoKeeps DEF KeepsOn
  <2>4. host[p].pc \in {"burst", "rburst"} =>
           /\ C = {chip}
           /\ \A b \in Bursts : Holds(p, [Transfer(p, b) EXCEPT !.fault = TRUE], chip)
    BY <2>1
  <2>5. host[p].pc \in Inside
    BY <1>1
  <2> HIDE DEF h, C
  <2> QED
    BY <2>1, <2>2, <2>3, <2>4, <2>5, HolderBus, Zenon
<1>6. CASE WaitReady(p)
  <2> DEFINE h == Turn(p, Ready, Goto(p, "burst"), chip.st = "abort")
  <2>1. Bus(p, {chip}, h) /\ host[p].pc = "waitReady"
    BY <1>6 DEF WaitReady, At
  <2>2. host[p].pc \in Holding
    BY <1>1, Names
  <2>3. chip.st \in {"ready", "abort"}
    BY <2>1, <2>2, HostIs DEF InTouch
  <2>4. ~Ready => chip.st = "abort"
    BY <2>3 DEF Ready
  <2>5. Ready => Holds(p, Goto(p, "burst"), chip)
    BY <2>1, BurstHolds
  <2>6. host[p].pc \in Inside
    BY <1>1
  <2>7. Holds(p, h, chip)
    BY <2>4, <2>5, <2>6, HolderTurn
  <2> HIDE DEF h
  <2> QED
    BY <1>1, <2>1, <2>7, HolderLooks
<1> QED
  BY <1>4, <1>5, <1>6

-----------------------------------------------------------------------------
(* The burst count, and writing the command.                               *)

LEMMA TransferHolds ==
    ASSUME TisInv, NEW p \in Processes, host[p].pc \in {"burst", "rburst"}, NEW b \in Nat, b > 0,
           NEW h, h = Transfer(p, b) \/ h = [Transfer(p, b) EXCEPT !.fault = TRUE]
    PROVE  Holds(p, h, chip)
<1> DEFINE t == Transfer(p, b)  g == host[p]  r == TisRan[p]  id == Me(p)
<1>1. /\ t \in HostStates /\ [t EXCEPT !.fault = TRUE] \in HostStates
      /\ t.pc = (IF g.pc = "burst" THEN "write" ELSE "read") /\ t.cnt = g.cnt
      /\ t.num = g.num /\ t.res = g.res /\ t.pos = g.pos
      /\ t.got = g.got /\ t.rspSz = g.rspSz /\ t.burst = b
  BY TransferFields
<1>2. t.started = g.started
  BY TransferFields
<1>3. h = t \/ h = [t EXCEPT !.fault = TRUE]
  OBVIOUS
<1>4. host[p].pc \in Inside /\ host[p].pc \in Holding
  BY DEF Inside, Writing, Reading, Holding
<1>5. g.started /\ g.cnt = 1
  BY <1>4, HolderIs
<1> HIDE DEF t
<1>6. /\ h \in HostStates /\ h.pc = (IF g.pc = "burst" THEN "write" ELSE "read") /\ h.cnt = 1
      /\ h.num = g.num /\ h.res = g.res /\ h.pos = g.pos
      /\ h.got = g.got /\ h.rspSz = g.rspSz /\ h.burst = b
  <2>1. CASE h = t
    BY <1>1, <1>5, <2>1
  <2>2. CASE h = [t EXCEPT !.fault = TRUE]
    BY <1>1, <1>5, <2>2 DEF HostStates
  <2> QED
    BY <1>3, <2>1, <2>2
<1>7. h.started
  <2>1. CASE h = t
    BY <1>2, <1>5, <2>1
  <2>2. CASE h = [t EXCEPT !.fault = TRUE]
    BY <1>1, <1>2, <1>5, <2>2 DEF HostStates
  <2> QED
    BY <1>3, <2>1, <2>2
<1>8. h.pc \in Inside /\ h.pc \notin {"lock", "status", "ready", "waitReady", "done"}
  BY <1>6 DEF Inside, Writing, Reading
<1>9. Local(h, id, r)
  BY <1>4, <1>6, <1>7, <1>8, KeepsLocal DEF KeepsOn, Unsent
<1>10. InTouch(g, id, r, chip) /\ chip \in ChipStates /\ ChipFits(chip)
  BY <1>4, HostIs DEF TisInv
<1>11. InTouch(h, id, r, chip)
  <2> HIDE DEF g, id, r
  <2>1. CASE g.pc = "burst"
    <3>1. g.pc \in Writing /\ h.pc = "write" /\ "write" \in Writing /\ "write" \notin Reading
      BY <1>6, <2>1 DEF Writing, Reading
    <3>2. WriteKnows(g, id, r, chip)
      BY <1>10, <3>1 DEF InTouch
    <3>3. WriteKnows(h, id, r, chip)
      BY <1>6, <2>1, <3>1, <3>2 DEF WriteKnows
    <3> QED
      BY <1>6, <3>1, <3>3 DEF InTouch
  <2>2. CASE g.pc = "rburst"
    <3>1. g.pc \in Reading /\ h.pc = "read" /\ "read" \in Reading /\ "read" \notin Writing
      BY <1>6, <2>2 DEF Writing, Reading
    <3>2. ReadKnows(g, id, r, chip)
      BY <1>10, <3>1 DEF InTouch
    <3>3. ReadKnows(h, id, r, chip)
      BY <1>6, <2>2, <3>2 DEF ReadKnows, Running, Answered
    <3> QED
      BY <1>6, <3>1, <3>3 DEF InTouch
  <2> QED
    BY <2>1, <2>2 DEF g
<1> QED
  BY <1>6, <1>8, <1>9, <1>10, <1>11, Zenon DEF Holds, g, id, r, Unsent

LEMMA BurstStep ==
    ASSUME TisInv, NEW p \in Processes, GetBurstCount(p)
    PROVE  TisInv' /\ Shift(p)
<1>1. host[p].pc \in {"burst", "rburst"} /\ host[p].pc \in Inside
  BY DEF GetBurstCount, Inside, Writing, Reading
<1>2. CASE host' = [host EXCEPT ![p] = Transfer(p, CmdLen + RspCap)] /\ UNCHANGED <<stm, chip, runs, sem, faults>>
  <2> DEFINE h == Transfer(p, CmdLen + RspCap)
  <2>1. CmdLen + RspCap \in Nat /\ CmdLen + RspCap > 0
    BY TisAssumption
  <2>2. Holds(p, h, chip)
    BY <1>1, <2>1, TransferHolds
  <2> HIDE DEF h
  <2>3. Holds(p, h, chip')
    BY <1>2, <2>2
  <2>4. host' = [host EXCEPT ![p] = h] /\ runs' = runs /\ sem' = sem
    BY <1>2 DEF h
  <2> QED
    BY <1>1, <2>3, <2>4, HolderStep
<1>3. ASSUME NEW b \in {0} \cup Bursts, Bus(p, {chip}, Turn(p, b > 0, Transfer(p, b), TRUE))
      PROVE  TisInv' /\ Shift(p)
  <2> DEFINE h == Turn(p, b > 0, Transfer(p, b), TRUE)  C == {chip}
  <2>1. b \in Nat /\ (\A x \in Bursts : x \in Nat /\ x > 0)
    BY <1>3 DEF Bursts
  <2>2. b > 0 => Holds(p, Transfer(p, b), chip)
    BY <1>1, <2>1, TransferHolds
  <2>3. Holds(p, h, chip)
    BY <1>1, <2>2, HolderTurn
  <2>4. \A x \in Bursts : Holds(p, [Transfer(p, x) EXCEPT !.fault = TRUE], chip)
    <3> SUFFICES ASSUME NEW x \in Bursts
                 PROVE  Holds(p, [Transfer(p, x) EXCEPT !.fault = TRUE], chip)
      OBVIOUS
    <3> DEFINE t == [Transfer(p, x) EXCEPT !.fault = TRUE]
    <3>1. x \in Nat /\ x > 0
      BY <2>1
    <3>2. Holds(p, t, chip)
      BY <1>1, <3>1, TransferHolds
    <3> QED
      BY <3>2
  <2>5. \A c \in C : Holds(p, h, c)
    BY <2>3
  <2> HIDE DEF h
  <2>6. h \in HostStates /\ h.cnt = 1
    BY <2>3 DEF Holds
  <2>7. host[p].pc \in {"burst", "rburst"} =>
           /\ C = {chip}
           /\ \A x \in Bursts : Holds(p, [Transfer(p, x) EXCEPT !.fault = TRUE], chip)
    BY <2>4
  <2>8. Bus(p, C, h)
    BY <1>3 DEF h
  <2> HIDE DEF C
  <2> QED
    BY <1>1, <2>5, <2>6, <2>7, <2>8, HolderBus, Zenon
<1> QED
  BY <1>2, <1>3 DEF GetBurstCount

\* The units of a command arrive one after the other.
LEMMA DataArrives ==
    ASSUME TisInv, NEW id \in Ids, NEW pos \in Nat, NEW n \in Nat, n > 0, pos + n <= CmdLen,
           chip.st = IF pos = 0 THEN "ready" ELSE "recv", chip.in = Copies(id, pos),
           NEW c \in OnData(chip, [k \in 1 .. n |-> id])
    PROVE  c \in ChipStates /\ ChipFits(c) /\ c.st = "recv" /\ c.in = Copies(id, pos + n)
<1> DEFINE u == [k \in 1 .. n |-> id]
<1>1. /\ Copies(id, pos) \in Seq(Ids) /\ Len(Copies(id, pos)) = pos
      /\ Copies(id, pos) \o u = Copies(id, pos + n) /\ Copies(id, pos + n) \in Seq(Ids)
  <2>1. /\ Copies(id, pos) \in Seq(Ids) /\ Len(Copies(id, pos)) = pos
        /\ Copies(id, pos) \o [k \in 1 .. n |-> id] = Copies(id, pos + n)
    BY CopyMore
  <2>2. pos + n \in Nat
    OBVIOUS
  <2>3. Copies(id, pos + n) \in Seq(Ids)
    BY <2>2, CopyMore, Zenon
  <2> QED
    BY <2>1, <2>3
<1>2. Len(u) = n
  OBVIOUS
<1> HIDE DEF u
<1>3. c = [chip EXCEPT !.st = "recv", !.in = chip.in \o u]
  BY <1>1, <1>2 DEF OnData, u
<1>4. chip.in \o u = Copies(id, pos + n)
  BY <1>1
<1>5. c = [chip EXCEPT !.st = "recv", !.in = Copies(id, pos + n)]
  BY <1>3, <1>4
<1>6. chip \in ChipStates
  BY HostIs DEF TisInv, TisTypes
<1>7. c \in ChipStates /\ c.st = "recv" /\ c.in = Copies(id, pos + n)
  BY <1>1, <1>5, <1>6 DEF ChipStates
<1> QED
  BY <1>7 DEF ChipFits

\* The loop goes on elsewhere in the command or the answer.
StandsAt(p, pc, pos, h) == h = [Goto(p, pc) EXCEPT !.pos = pos]

LEMMA GotoAt ==
    ASSUME TisInv, NEW p \in Processes, host[p].pc \in Inside, NEW pc \in Inside, NEW pos \in Nat,
           NEW h, StandsAt(p, pc, pos, h)
    PROVE  /\ KeepsOn(p, h) /\ h.pc = pc /\ h.pos = pos
           /\ h.rspSz = host[p].rspSz /\ h.got = host[p].got
<1> DEFINE t == Goto(p, pc)
<1>1. KeepsOn(p, t) /\ t.pc = pc /\ t.rspSz = host[p].rspSz /\ t.got = host[p].got
  BY GotoKeeps
<1>2. t \in HostStates /\ t.cnt = 1 /\ t.num = host[p].num /\ t.res = host[p].res
  BY <1>1 DEF KeepsOn
<1>3. t.started
  BY <1>1 DEF KeepsOn
<1>4. h = [t EXCEPT !.pos = pos]
  BY DEF StandsAt
<1> HIDE DEF t
<1>5. /\ h \in HostStates /\ h.pc = pc /\ h.pos = pos /\ h.rspSz = t.rspSz /\ h.got = t.got
      /\ h.cnt = 1 /\ h.num = t.num /\ h.res = t.res
  BY <1>1, <1>2, <1>4 DEF HostStates
<1>6. h.started
  BY <1>2, <1>3, <1>4 DEF HostStates
<1> QED
  BY <1>1, <1>2, <1>5, <1>6 DEF KeepsOn

LEMMA WriteStep ==
    ASSUME TisInv, NEW p \in Processes, WriteFifo(p)
    PROVE  TisInv' /\ Shift(p)
<1> DEFINE g == host[p]  r == TisRan[p]  id == Me(p)
           n == Least(CmdLen - g.pos, g.burst)  pos == g.pos + n
           pc == IF pos < CmdLen THEN "waitExpect" ELSE IF stm THEN "go" ELSE "waitValid"
           h == [Goto(p, pc) EXCEPT !.pos = pos]
           C == OnData(chip, [k \in 1 .. n |-> id])
<1>1. g.pc = "write" /\ Bus(p, C, h)
  BY DEF WriteFifo, At
<1>2. g.pc \in Inside /\ g.pc \in Holding /\ g.pc \in Writing /\ g.pc \notin {"burst", "rburst", "waitValid", "go"}
  BY <1>1 DEF Inside, Holding, Writing
<1>3. InTouch(g, id, r, chip) /\ g \in HostStates
  BY <1>2, HostIs
<1>4. WriteKnows(g, id, r, chip) /\ g.burst > 0
  BY <1>1, <1>2, <1>3 DEF InTouch
<1>5. /\ g.pos \in Nat /\ g.burst \in Nat /\ g.pos < CmdLen /\ CmdLen \in Nat
      /\ chip.st = (IF g.pos = 0 THEN "ready" ELSE "recv") /\ chip.in = Copies(id, g.pos)
      /\ g.rspSz = Header /\ g.got = <<>> /\ r = 0
  BY <1>2, <1>3, <1>4, HostFields, TisAssumption DEF WriteKnows
<1>6. n \in Nat /\ n > 0 /\ g.pos + n <= CmdLen
  BY <1>4, <1>5 DEF Least
<1>7. id \in Ids
  BY <1>2, HolderIs
<1>8. \A c \in C : c \in ChipStates /\ ChipFits(c) /\ c.st = "recv" /\ c.in = Copies(id, pos)
  BY <1>5, <1>6, <1>7, DataArrives
<1>9. pos \in Nat /\ pos > 0 /\ pos <= CmdLen
  BY <1>5, <1>6
<1>10. /\ pc \in {"waitExpect", "go", "waitValid"}
       /\ IF pc \in {"waitValid", "go"} THEN pos = CmdLen ELSE pos < CmdLen
  BY <1>5, <1>9
<1> HIDE DEF C, n, pos, pc
<1>11. pc \in Inside /\ pc \in Writing /\ pc \notin Reading
       /\ pc \notin {"lock", "status", "ready", "waitReady", "done", "write", "read"}
  BY <1>10 DEF Inside, Writing, Reading
<1>12. /\ KeepsOn(p, h) /\ h.pc = pc /\ h.pos = pos /\ h.rspSz = g.rspSz /\ h.got = g.got
  <2>1. StandsAt(p, pc, pos, h)
    BY DEF StandsAt
  <2> HIDE DEF h
  <2> QED
    BY <1>2, <1>9, <1>11, <2>1, GotoAt
<1> HIDE DEF h
<1>13. Local(h, id, r)
  BY <1>2, <1>11, <1>12, KeepsLocal DEF Unsent
<1>14. ASSUME NEW c \in C
       PROVE  Holds(p, h, c)
  <2>1. c \in ChipStates /\ ChipFits(c) /\ c.st = "recv" /\ c.in = Copies(id, pos)
    BY <1>8
  <2> HIDE DEF id, r
  <2>2. WriteKnows(h, id, r, c)
    BY <1>5, <1>9, <1>10, <1>12, <2>1 DEF WriteKnows
  <2>3. InTouch(h, id, r, c)
    BY <1>11, <1>12, <2>2 DEF InTouch
  <2> QED
    BY <1>11, <1>12, <1>13, <2>1, <2>3 DEF Holds, KeepsOn, id, r, Unsent
<1>15. h \in HostStates /\ h.cnt = 1
  BY <1>12 DEF KeepsOn
<1>16. host[p].pc \in {"burst", "rburst"} =>
          /\ C = {chip}
          /\ \A b \in Bursts : Holds(p, [Transfer(p, b) EXCEPT !.fault = TRUE], chip)
  BY <1>2
<1>17. (\A c \in C : Holds(p, h, c)) /\ host[p].pc \in Inside
  BY <1>2, <1>14
<1> QED
  BY <1>1, <1>15, <1>16, <1>17, HolderBus, Zenon

-----------------------------------------------------------------------------
(* Waiting for the chip while the command is written.                      *)

LEMMA WaitSteps ==
    ASSUME TisInv, NEW p \in Processes, WaitExpect(p) \/ WaitValid(p)
    PROVE  TisInv' /\ Shift(p)
<1> DEFINE g == host[p]  r == TisRan[p]  id == Me(p)
<1>1. g.pc \in {"waitExpect", "waitValid"}
  BY DEF WaitExpect, WaitValid, At
<1>2. /\ g.pc \in Inside /\ g.pc \in Inside \ {"burst", "rburst"} /\ g.pc \in Holding /\ g.pc \in Writing
      /\ {"burst", "go"} \subseteq Inside /\ {"burst", "go"} \subseteq Writing /\ {"burst", "go"} \cap Reading = {}
  BY <1>1 DEF Inside, Holding, Writing, Reading
<1>3. InTouch(g, id, r, chip) /\ g \in HostStates /\ chip \in ChipStates /\ ChipFits(chip)
  BY <1>2, HostIs DEF TisInv
<1>4. WriteKnows(g, id, r, chip)
  BY <1>2, <1>3 DEF InTouch
<1>5. id \in Ids /\ g.pos \in Nat /\ CmdLen \in Nat \ {0}
  BY <1>2, <1>3, HolderIs, HostFields, TisAssumption
<1>6. Len(chip.in) = g.pos
  BY <1>4, <1>5, CopyMore DEF WriteKnows
<1>7. g.pc = "waitExpect" => Expect
  BY <1>4, <1>5, <1>6 DEF Expect, WriteKnows
<1>8. g.pc = "waitValid" => ~Expect
  BY <1>4, <1>5, <1>6 DEF Expect, WriteKnows
<1>9. ASSUME NEW pc \in {"burst", "go"}, pc = IF g.pc = "waitExpect" THEN "burst" ELSE "go"
      PROVE  Holds(p, Goto(p, pc), chip)
  <2> DEFINE h == Goto(p, pc)
  <2>1. pc \in Inside /\ pc \in Writing /\ pc \notin Reading
    BY <1>2
  <2>2. KeepsOn(p, h) /\ h.pc = pc /\ h.pos = g.pos /\ h.rspSz = g.rspSz /\ h.got = g.got
    BY <1>2, <2>1, GotoKeeps
  <2> HIDE DEF h
  <2>3. h.pc \notin {"lock", "status", "ready", "waitReady", "done", "waitExpect", "write", "read"}
    BY <2>2
  <2>4. Local(h, id, r)
    BY <1>2, <2>2, <2>3, KeepsLocal DEF Unsent
  <2> HIDE DEF id, r, g
  <2>5. WriteKnows(h, id, r, chip)
    BY <1>1, <1>4, <1>9, <2>2, <2>3 DEF WriteKnows
  <2>6. InTouch(h, id, r, chip)
    BY <2>1, <2>2, <2>3, <2>5 DEF InTouch
  <2> QED
    BY <1>3, <2>1, <2>2, <2>4, <2>6 DEF Holds, KeepsOn, h, id, r, g, Unsent
<1>10. CASE WaitExpect(p)
  <2> DEFINE h == Turn(p, Expect, Goto(p, "burst"), FALSE)
  <2>1. Bus(p, {chip}, h) /\ g.pc = "waitExpect"
    BY <1>10 DEF WaitExpect, At
  <2>2. Expect => Holds(p, Goto(p, "burst"), chip)
    BY <1>9, <2>1
  <2>3. ~Expect => FALSE
    BY <1>7, <2>1
  <2>4. Holds(p, h, chip)
    BY <1>2, <2>2, <2>3, HolderTurn
  <2> HIDE DEF h
  <2> QED
    BY <1>2, <2>1, <2>4, HolderLooks
<1>11. CASE WaitValid(p)
  <2>1. PICK valid \in BOOLEAN : Bus(p, {chip}, Turn(p, valid /\ ~Expect, Goto(p, "go"), ~valid))
    BY <1>11 DEF WaitValid
  <2> DEFINE met == valid /\ ~Expect  slow == ~valid  h == Turn(p, met, Goto(p, "go"), slow)
  <2>2. g.pc = "waitValid"
    BY <1>11 DEF WaitValid, At
  <2>3. met => Holds(p, Goto(p, "go"), chip)
    BY <1>9, <2>2
  <2>4. ~met => slow
    BY <1>8, <2>2
  <2> HIDE DEF met, slow
  <2>5. Holds(p, h, chip)
    BY <1>2, <2>3, <2>4, HolderTurn
  <2>6. Bus(p, {chip}, h)
    BY <2>1 DEF met, slow
  <2> HIDE DEF h
  <2> QED
    BY <1>2, <2>5, <2>6, HolderLooks
<1> QED
  BY <1>10, <1>11

LEMMA GoStep ==
    ASSUME TisInv, NEW p \in Processes, Go(p)
    PROVE  TisInv' /\ Shift(p)
<1> DEFINE g == host[p]  r == TisRan[p]  id == Me(p)  h == [Goto(p, "waitAvail") EXCEPT !.pos = 0]
           d == [chip EXCEPT !.st = "exec"]  C == OnGo(chip)
<1>1. g.pc = "go" /\ Bus(p, C, h)
  BY DEF Go, At
<1>2. /\ g.pc \in Inside /\ g.pc \in Holding /\ g.pc \in Writing /\ g.pc \notin {"burst", "rburst"}
      /\ "waitAvail" \in Inside /\ "waitAvail" \in Reading /\ "waitAvail" \notin Writing
  BY <1>1 DEF Inside, Holding, Writing, Reading
<1>3. InTouch(g, id, r, chip) /\ g \in HostStates /\ chip \in ChipStates
  BY <1>2, HostIs
<1>4. WriteKnows(g, id, r, chip)
  BY <1>2, <1>3 DEF InTouch
<1>5. CmdLen \in Nat \ {0} /\ id \in Ids /\ r = runs[id] /\ host[id.who].num = id.num /\ id.who = p
  BY <1>2, HolderIs, TisAssumption DEF Me
<1>6. /\ chip.st = "recv" /\ chip.in = Copies(id, CmdLen) /\ g.rspSz = Header /\ g.got = <<>> /\ r = 0
  BY <1>1, <1>4, <1>5 DEF WriteKnows
<1>7. Len(chip.in) = CmdLen
  BY <1>5, <1>6, CopyMore
<1>8. C = {d}
  BY <1>6, <1>7 DEF OnGo
<1>9. d \in ChipStates /\ d.st = "exec" /\ d.in = Copies(id, CmdLen)
  BY <1>3, <1>6 DEF ChipStates
<1>10. KeepsOn(p, h) /\ h.pc = "waitAvail" /\ h.pos = 0 /\ h.rspSz = g.rspSz /\ h.got = g.got
  <2>1. StandsAt(p, "waitAvail", 0, h)
    BY DEF StandsAt
  <2> HIDE DEF h
  <2> QED
    BY <1>2, <2>1, GotoAt
<1> HIDE DEF h, d, C
<1>11. ChipFits(d)
  <2>1. id.num \in Nat
    BY <1>5 DEF Ids
  <2> HIDE DEF id, r
  <2>2. Given(id) /\ runs[id] = 0
    BY <1>1, <1>5, <1>6, <2>1 DEF Given, g, Unsent
  <2>3. d.in = Copies(id, CmdLen) /\ Given(id) /\ runs[id] = 0
    BY <1>9, <2>2
  <2>4. \E i \in Ids : d.in = Copies(i, CmdLen) /\ Given(i) /\ runs[i] = 0
    BY <1>5, <2>3, Zenon
  <2>5. d.st \notin {"idle", "ready", "abort"}
    BY <1>9
  <2> QED
    BY <2>4, <2>5, Zenon DEF ChipFits
<1>12. Local(h, id, r)
  BY <1>2, <1>10, KeepsLocal DEF Unsent
<1>13. InTouch(h, id, r, d)
  <2> HIDE DEF id, r, g
  <2>1. Running(h, id, d)
    BY <1>6, <1>9, <1>10 DEF Running
  <2> QED
    BY <1>2, <1>10, <2>1 DEF InTouch, ReadKnows
<1>14. Holds(p, h, d)
  BY <1>2, <1>9, <1>10, <1>11, <1>12, <1>13 DEF Holds, KeepsOn, Unsent
<1>15. (\A c \in C : Holds(p, h, c)) /\ h \in HostStates /\ h.cnt = 1
  BY <1>8, <1>10, <1>14 DEF KeepsOn
<1>16. host[p].pc \in {"burst", "rburst"} =>
          /\ C = {chip}
          /\ \A b \in Bursts : Holds(p, [Transfer(p, b) EXCEPT !.fault = TRUE], chip)
  BY <1>2
<1>17. Bus(p, C, h) /\ host[p].pc \in Inside
  BY <1>1, <1>2
<1> QED
  BY <1>15, <1>16, <1>17, HolderBus, Zenon

-----------------------------------------------------------------------------
(* Reading the answer.                                                     *)

\* What is left of an answer is what the chip has.
LEMMA AnswerLeft ==
    ASSUME TisInv, NEW p \in Processes, NEW h \in HostStates, NEW id \in Ids,
           NEW size \in Header .. RspCap + 1, Answered(h, id, chip, size)
    PROVE  /\ Answer(id, size) \in Seq(Units) /\ Len(Answer(id, size)) = size /\ size \in Nat
           /\ h.pos \in 0 .. size /\ h.pos < size /\ h.rspSz <= size /\ Len(chip.out) = size - h.pos
<1>1. size \in Nat /\ size >= 1 /\ h.pos \in Nat
  BY HostFields, TisAssumption DEF Header
<1>2. id \in [who : Processes, num : Nat]
  BY DEF Ids
<1>3. Answer(id, size) \in Seq(Units) /\ Len(Answer(id, size)) = size
  BY <1>1, <1>2, AnswerSeq
<1>4. h.pos \in 0 .. size /\ h.pos < size /\ h.rspSz <= size
  BY <1>1 DEF Answered, Header
<1>5. Len(Left(Answer(id, size), h.pos)) = size - h.pos
  <2> DEFINE a == Answer(id, size)  k == h.pos
  <2>1. a \in Seq(Units) /\ k \in 0 .. Len(a) /\ 0 \in 0 .. Len(a) - k
    BY <1>3, <1>4
  <2> HIDE DEF a, k
  <2>2. Len(Left(a, k)) = Len(a) - k
    BY <2>1, TakeMore
  <2> QED
    BY <1>3, <2>2 DEF a, k
<1> QED
  BY <1>1, <1>3, <1>4, <1>5 DEF Answered

LEMMA AvailStep ==
    ASSUME TisInv, NEW p \in Processes, WaitAvail(p)
    PROVE  TisInv' /\ Shift(p)
<1> DEFINE g == host[p]  r == TisRan[p]  id == Me(p)  t == Goto(p, "rburst")
           slow == chip.st = "exec"  h == Turn(p, Avail, t, slow)
<1>1. g.pc = "waitAvail" /\ Bus(p, {chip}, h)
  BY DEF WaitAvail, At
<1>2. /\ g.pc \in Inside /\ g.pc \in Inside \ {"burst", "rburst"} /\ g.pc \in Holding /\ g.pc \in Reading
      /\ "rburst" \in Inside /\ "rburst" \in Reading /\ "rburst" \notin Writing
  BY <1>1 DEF Inside, Holding, Writing, Reading
<1>3. InTouch(g, id, r, chip) /\ g \in HostStates /\ chip \in ChipStates /\ ChipFits(chip)
  BY <1>2, HostIs DEF TisInv
<1>4. ReadKnows(g, id, r, chip) /\ id \in Ids
  BY <1>2, <1>3, HolderIs DEF InTouch
<1>5. ~Avail => slow
  <2>1. CASE chip.st = "done"
    <3>1. PICK size \in Header .. RspCap + 1 : Answered(g, id, chip, size)
      BY <1>4, <2>1 DEF ReadKnows, Running
    <3>2. Len(chip.out) > 0
      BY <1>3, <1>4, <3>1, AnswerLeft
    <3>3. chip.out # <<>>
      BY <3>2
    <3> QED
      BY <2>1, <3>3 DEF Avail
  <2>2. CASE chip.st # "done"
    BY <1>4, <2>2 DEF ReadKnows, Running
  <2> QED
    BY <2>1, <2>2
<1>6. ASSUME Avail
      PROVE  Holds(p, t, chip)
  <2>1. KeepsOn(p, t) /\ t.pc = "rburst" /\ t.pos = g.pos /\ t.rspSz = g.rspSz /\ t.got = g.got
    BY <1>2, GotoKeeps
  <2> HIDE DEF t
  <2>2. Local(t, id, r)
    BY <1>2, <2>1, KeepsLocal DEF Unsent
  <2> HIDE DEF id, r, g
  <2>3. ReadKnows(t, id, r, chip)
    BY <1>4, <1>6, <2>1 DEF ReadKnows, Running, Answered, Avail
  <2>4. InTouch(t, id, r, chip)
    BY <1>2, <2>1, <2>3 DEF InTouch
  <2> QED
    BY <1>2, <1>3, <2>1, <2>2, <2>4 DEF Holds, KeepsOn, id, r, g, Unsent
<1> HIDE DEF t, slow
<1>7. Holds(p, h, chip)
  BY <1>2, <1>5, <1>6, HolderTurn
<1> HIDE DEF h
<1> QED
  BY <1>1, <1>2, <1>7, HolderLooks

\* A transaction after which the chip is what is said, not about the burst count.
LEMMA ReadEnds ==
    ASSUME TisInv, NEW p \in Processes, host[p].pc \in Inside, host[p].pc \notin {"burst", "rburst"},
           NEW h, NEW d, Holds(p, h, d), Bus(p, {d}, h)
    PROVE  TisInv' /\ Shift(p)
<1> DEFINE C == {d}
<1>1. (\A c \in C : Holds(p, h, c)) /\ h \in HostStates /\ h.cnt = 1 /\ Bus(p, C, h)
  BY DEF Holds
<1>2. host[p].pc \in {"burst", "rburst"} =>
         /\ C = {chip}
         /\ \A b \in Bursts : Holds(p, [Transfer(p, b) EXCEPT !.fault = TRUE], chip)
  OBVIOUS
<1> HIDE DEF C
<1> QED
  BY <1>1, <1>2, HolderBus, Zenon

\* One burst of an answer moves from the chip to the process.
Fetched(n) == [k \in 1 .. n |-> IF k <= Len(chip.out) THEN chip.out[k] ELSE Garbage]

Arrived(h, id, size, n) ==
    /\ h.pos + n \in 0 .. size
    /\ h.got \o Fetched(n) = Taken(Answer(id, size), h.pos + n)
    /\ SubSeq(chip.out, n + 1, Len(chip.out)) = Left(Answer(id, size), h.pos + n)
    /\ h.pos + n = Header => Fetched(n)[n].size = size
    /\ h.pos + n # Header => h.rspSz = size

LEMMA UnitsArrive ==
    ASSUME TisInv, NEW p \in Processes, NEW h \in HostStates, NEW id \in Ids,
           NEW size \in Header .. RspCap + 1, Answered(h, id, chip, size),
           NEW n \in Nat, n > 0, n <= h.rspSz - h.pos
    PROVE  Arrived(h, id, size, n)
<1> DEFINE units == Fetched(n)
<1> DEFINE a == Answer(id, size)  pos == h.pos
<1>1. /\ a \in Seq(Units) /\ Len(a) = size /\ size \in Nat
      /\ pos \in 0 .. size /\ pos < size /\ h.rspSz <= size /\ Len(chip.out) = size - pos
  BY AnswerLeft
<1>2. h.rspSz \in Nat /\ pos \in Nat
  BY HostFields
<1>3. n <= size - pos /\ n \in 0 .. Len(a) - pos /\ pos \in 0 .. Len(a)
  BY <1>1, <1>2
<1>4. chip.out = Left(a, pos) /\ h.got = Taken(a, pos) /\ h.rspSz = (IF pos = 0 THEN Header ELSE size)
  BY DEF Answered
<1>5. \A k \in 1 .. size : a[k].size = size
  <2>1. id \in [who : Processes, num : Nat]
    BY DEF Ids
  <2> QED
    BY <1>1, <2>1, AnswerSeq
<1> HIDE DEF a, pos, units
<1>6. /\ Left(a, pos) \in Seq(Units) /\ Len(Left(a, pos)) = Len(a) - pos
      /\ Taken(a, pos) \in Seq(Units) /\ Len(Taken(a, pos)) = pos
      /\ Taken(a, pos) \o SubSeq(Left(a, pos), 1, n) = Taken(a, pos + n)
      /\ SubSeq(Left(a, pos), n + 1, Len(Left(a, pos))) = Left(a, pos + n)
      /\ \A k \in 1 .. n : Left(a, pos)[k] = a[pos + k]
  <2>1. a \in Seq(Units) /\ pos \in 0 .. Len(a) /\ n \in 0 .. Len(a) - pos
    BY <1>1, <1>3
  <2> QED
    BY <2>1, TakeMore, Zenon
<1>7. units = [k \in 1 .. n |-> chip.out[k]]
  BY <1>1, <1>3 DEF Fetched, units
<1>8. units = SubSeq(Left(a, pos), 1, n)
  <2>1. units = [k \in 1 .. n |-> Left(a, pos)[k]]
    BY <1>4, <1>7
  <2> DEFINE l == Left(a, pos)
  <2>2. l \in Seq(Units) /\ n \in 1 .. Len(l)
    BY <1>1, <1>3, <1>6
  <2> HIDE DEF l
  <2>3. SubSeq(l, 1, n) = [k \in 1 .. n |-> l[k]]
    BY <2>2
  <2> QED
    BY <2>1, <2>3 DEF l
<1>9. (IF pos + n = Header THEN units[n].size ELSE h.rspSz) = size
  <2>1. CASE pos = 0
    <3>1. n = 1 /\ h.rspSz = 1
      BY <1>2, <1>4, <2>1 DEF Header, pos
    <3>2. units[n] = a[pos + n] /\ pos + n \in 1 .. size
      BY <1>1, <1>2, <1>4, <1>6, <1>7, <2>1, <3>1
    <3>3. a[pos + n].size = size
      BY <1>5, <3>2
    <3>4. pos + n = Header
      BY <2>1, <3>1 DEF Header
    <3> QED
      BY <3>2, <3>3, <3>4
  <2>2. CASE pos # 0
    BY <1>2, <1>4, <2>2 DEF Header
  <2> QED
    BY <2>1, <2>2
<1>10. pos + n \in 0 .. size
  BY <1>1, <1>3
<1>11. h.got \o units = Taken(a, pos + n) /\ SubSeq(chip.out, n + 1, Len(chip.out)) = Left(a, pos + n)
  BY <1>4, <1>6, <1>8
<1>12. /\ h.pos + n \in 0 .. size /\ h.got \o units = Taken(Answer(id, size), h.pos + n)
       /\ SubSeq(chip.out, n + 1, Len(chip.out)) = Left(Answer(id, size), h.pos + n)
  BY <1>10, <1>11 DEF a, pos
<1>13. (h.pos + n = Header => units[n].size = size) /\ (h.pos + n # Header => h.rspSz = size)
  BY <1>9 DEF pos
<1> QED
  BY <1>12, <1>13, Zenon DEF Arrived, units

LEMMA ReadStep ==
    ASSUME TisInv, NEW p \in Processes, ReadFifo(p)
    PROVE  TisInv' /\ Shift(p)
<1> DEFINE g == host[p]  r == TisRan[p]  id == Me(p)
           n == Least(g.rspSz - g.pos, g.burst)
           units == [k \in 1 .. n |-> IF k <= Len(chip.out) THEN chip.out[k] ELSE Garbage]
           rspSz == IF g.pos + n = Header THEN units[n].size ELSE g.rspSz
           t == [g EXCEPT !.pos = g.pos + n, !.got = g.got \o units, !.rspSz = rspSz]
           d == [chip EXCEPT !.out = SubSeq(@, n + 1, Len(@))]
           C == {d}
           h == IF t.rspSz > RspCap THEN Failed(t, TRUE)
                ELSE [t EXCEPT !.pc = IF t.pos < t.rspSz THEN "waitAvail" ELSE "done", !.tries = Tries]
<1>1. g.pc = "read" /\ Bus(p, C, h)
  BY DEF ReadFifo, At
<1>2. /\ g.pc \in Inside /\ g.pc \in Holding /\ g.pc \in Reading /\ g.pc \notin {"burst", "rburst"}
      /\ {"waitAvail", "done"} \subseteq Inside /\ {"waitAvail", "done", "unlock"} \subseteq Holding
      /\ {"waitAvail", "done", "unlock"} \cap Writing = {} /\ "waitAvail" \in Reading /\ {"done", "unlock"} \cap Reading = {}
  BY <1>1 DEF Inside, Holding, Reading, Writing
<1>3. InTouch(g, id, r, chip) /\ g \in HostStates /\ chip \in ChipStates /\ ChipFits(chip)
  BY <1>2, HostIs DEF TisInv
<1>4. ReadKnows(g, id, r, chip) /\ g.burst > 0 /\ id \in Ids /\ g.cnt = 1 /\ g.res = "none" /\ g.num > 0 /\ g.num <= MaxCalls
  BY <1>1, <1>2, <1>3, HolderIs, HostIs DEF InTouch, Local
<1>5. g.started
  BY <1>2, HolderIs
<1>6. PICK size \in Header .. RspCap + 1 : chip.st = "done" /\ r = 1 /\ Answered(g, id, chip, size)
  BY <1>1, <1>4 DEF ReadKnows, Running
<1>7. g.rspSz \in Nat /\ g.pos \in Nat /\ g.burst \in Nat /\ g.pos < g.rspSz /\ size \in Nat /\ RspCap \in Nat
  BY <1>3, <1>6, HostFields, TisAssumption DEF Answered, Header
<1>8. n \in Nat /\ n > 0 /\ n <= g.rspSz - g.pos
  BY <1>4, <1>7 DEF Least
<1> DEFINE a == Answer(id, size)  pos == g.pos + n
<1>9. /\ pos \in 0 .. size /\ g.got \o units = Taken(a, pos)
      /\ SubSeq(chip.out, n + 1, Len(chip.out)) = Left(a, pos) /\ rspSz = size
  <2>1. units = Fetched(n)
    BY DEF Fetched
  <2>2. g \in HostStates /\ id \in Ids /\ size \in Header .. RspCap + 1 /\ Answered(g, id, chip, size)
    BY <1>3, <1>4, <1>6
  <2> HIDE DEF n, units, g, id
  <2>3. Arrived(g, id, size, n)
    BY <1>8, <2>2, UnitsArrive
  <2> QED
    BY <2>1, <2>3 DEF Arrived
<1>10. a \in Seq(Units) /\ Len(a) = size
  BY <1>3, <1>4, <1>6, AnswerLeft
<1>11. Taken(a, pos) \in Seq(Units) /\ Left(a, pos) \in Seq(Units) /\ Len(Taken(a, pos)) = pos
  <2>1. a \in Seq(Units) /\ pos \in 0 .. Len(a) /\ 0 \in 0 .. Len(a) - pos
    BY <1>9, <1>10
  <2> HIDE DEF a, pos
  <2> QED
    BY <2>1, TakeMore
<1>12. pos \in Nat /\ pos <= size /\ pos > 0
  BY <1>7, <1>8, <1>9
<1> HIDE DEF n, units, rspSz, a, g, r, id
<1>13. t = [g EXCEPT !.pos = pos, !.got = Taken(a, pos), !.rspSz = size]
  BY <1>9
<1>14. d = [chip EXCEPT !.out = Left(a, pos)]
  BY <1>3, <1>9 DEF ChipStates
<1> HIDE DEF t, d, C, pos
<1>15. d \in ChipStates /\ d.st = "done" /\ d.out = Left(a, pos) /\ ChipFits(d)
  <2>1. d \in ChipStates /\ d.st = "done" /\ d.out = Left(a, pos)
    BY <1>3, <1>6, <1>11, <1>14 DEF ChipStates
  <2> QED
    BY <2>1 DEF ChipFits
<1>16. /\ t \in HostStates /\ t.pc = g.pc /\ t.pos = pos /\ t.got = Taken(a, pos) /\ t.rspSz = size
       /\ t.cnt = 1 /\ t.num = g.num /\ t.res = "none"
  BY <1>3, <1>4, <1>7, <1>11, <1>13, <1>12 DEF HostStates
<1>17. t.started
  BY <1>3, <1>5, <1>13 DEF HostStates
<1>18. CASE size > RspCap
  <2>1. h = Failed(t, TRUE)
    BY <1>16, <1>18
  <2>2. (t.fault \/ TRUE) = TRUE /\ t.cnt > 0
    BY <1>16
  <2>3. h = [t EXCEPT !.res = "fail", !.fault = TRUE, !.pc = "unlock"]
    BY <2>1, <2>2, Zenon DEF Failed
  <2> HIDE DEF h
  <2>4. h \in HostStates /\ h.pc = "unlock" /\ h.cnt = 1 /\ h.num = g.num /\ h.res = "fail" /\ h.fault
    BY <1>2, <1>16, <2>3 DEF HostStates
  <2>5. h.started
    BY <1>16, <1>17, <2>3 DEF HostStates
  <2>6. h.pc \notin {"lock"} \cup Inside /\ h.pc \notin Starting /\ h.pc \in Holding
    BY <2>4, Names DEF Holding
  <2>7. Local(h, id, r)
    BY <1>4, <2>4, <2>5, <2>6 DEF Local, Unsent
  <2>8. InTouch(h, id, r, d)
    BY <1>2, <2>4 DEF InTouch
  <2> QED
    BY <1>1, <1>2, <1>15, <2>4, <2>7, <2>8, ReadEnds DEF C, g, r, id, Holds, Unsent
<1>19. CASE ~(size > RspCap)
  <2> DEFINE pc == IF pos < size THEN "waitAvail" ELSE "done"
  <2>1. h = [t EXCEPT !.pc = pc, !.tries = Tries]
    BY <1>16, <1>19
  <2> HIDE DEF h
  <2>2. pc \in {"waitAvail", "done"}
    OBVIOUS
  <2>3. pc = "done" => Taken(a, pos) = a /\ pos = size
    <3> SUFFICES ASSUME pc = "done"
                 PROVE  Taken(a, pos) = a /\ pos = size
      OBVIOUS
    <3>1. pos = size
      BY <1>7, <1>12
    <3>2. Len(a) > 0
      BY <1>10, <1>12, <3>1
    <3>3. Taken(a, Len(a)) = a
      BY <1>10, <3>2, FirstOf
    <3> QED
      BY <1>10, <3>1, <3>3
  <2> HIDE DEF pc
  <2>4. /\ h \in HostStates /\ h.pc = pc /\ h.pos = pos /\ h.got = Taken(a, pos) /\ h.rspSz = size
        /\ h.cnt = 1 /\ h.num = g.num /\ h.res = "none"
    <3>1. pc \in {"idle", "lock"} \cup Starting \cup Holding /\ Tries \in Int
      BY <1>2, <2>2, TisAssumption
    <3> QED
      BY <1>16, <2>1, <3>1 DEF HostStates
  <2>5. h.started
    BY <1>16, <1>17, <2>1 DEF HostStates
  <2>6. KeepsOn(p, h)
    BY <1>2, <1>4, <2>2, <2>4, <2>5 DEF KeepsOn, g
  <2>7. h.pc = "done" => h.got = Answer(id, Len(h.got)) /\ r = 1
    <3>1. Len(Taken(a, pos)) = pos
      BY <1>11
    <3> QED
      BY <1>6, <1>10, <2>3, <2>4 DEF a
  <2>8. Local(h, id, r)
    BY <1>2, <2>2, <2>4, <2>6, <2>7, KeepsLocal DEF id, r, g, Unsent
  <2>9. h.pc = "waitAvail" => ReadKnows(h, id, r, d)
    <3> SUFFICES ASSUME h.pc = "waitAvail"
                 PROVE  ReadKnows(h, id, r, d)
      OBVIOUS
    <3>1. pos < size
      BY <2>4 DEF pc
    <3>2. Answered(h, id, d, size)
      BY <1>12, <1>15, <2>4, <3>1 DEF Answered, a
    <3> QED
      BY <1>6, <1>15, <3>2 DEF ReadKnows
  <2>10. InTouch(h, id, r, d)
    BY <1>2, <2>2, <2>4, <2>9 DEF InTouch
  <2> QED
    BY <1>1, <1>2, <1>15, <2>2, <2>4, <2>8, <2>10, ReadEnds DEF C, g, r, id, Holds, Unsent
<1> QED
  BY <1>18, <1>19

-----------------------------------------------------------------------------
(* The end of a call, the semaphore, and a process that dies.              *)

LEMMA DoneStep ==
    ASSUME TisInv, NEW p \in Processes, Done(p)
    PROVE  TisInv' /\ Shift(p)
<1> DEFINE g == host[p]  r == TisRan[p]  id == Me(p)
           h == [g EXCEPT !.pc = "unlock", !.res = "ok"]  C == OnReady(chip)
<1>1. g.pc = "done" /\ Bus(p, C, h)
  BY DEF Done, At
<1>2. /\ g.pc \in Inside /\ g.pc \notin {"burst", "rburst"}
      /\ "unlock" \in Holding /\ "unlock" \notin Writing \cup Reading
  BY <1>1 DEF Inside, Holding, Writing, Reading
<1>3. g \in HostStates /\ Local(g, id, r) /\ g.started /\ g.cnt = 1 /\ g.num > 0
  BY <1>2, HostIs, HolderIs
<1>4. g.got = Answer(id, Len(g.got)) /\ r = 1 /\ g.num <= MaxCalls
  BY <1>1, <1>3 DEF Local
<1> HIDE DEF g, id, r
<1>5. /\ h \in HostStates /\ h.pc = "unlock" /\ h.cnt = 1 /\ h.num = g.num /\ h.res = "ok" /\ h.got = g.got
  BY <1>2, <1>3 DEF HostStates
<1>6. h.started
  BY <1>3 DEF HostStates
<1> HIDE DEF h
<1>7. Local(h, id, r)
  <2>1. h.pc \notin {"lock"} \cup Inside /\ h.pc \notin Starting /\ h.pc \in Holding
    BY <1>5, Names DEF Holding
  <2> QED
    BY <1>3, <1>4, <1>5, <1>6, <2>1 DEF Local, Unsent
<1>8. ASSUME NEW c \in C
      PROVE  Holds(p, h, c)
  <2>1. c \in ChipStates /\ ChipFits(c)
    BY <1>8, OnReadyChip
  <2>2. InTouch(h, id, r, c)
    BY <1>2, <1>5 DEF InTouch
  <2> QED
    BY <1>5, <1>7, <2>1, <2>2 DEF Holds, g, id, r, Unsent
<1>9. host[p].pc \in {"burst", "rburst"} =>
         /\ C = {chip}
         /\ \A b \in Bursts : Holds(p, [Transfer(p, b) EXCEPT !.fault = TRUE], chip)
  BY <1>2 DEF g
<1>10. (\A c \in C : Holds(p, h, c)) /\ host[p].pc \in Inside
  BY <1>2, <1>8 DEF g
<1> HIDE DEF C
<1> QED
  BY <1>1, <1>5, <1>9, <1>10, HolderBus, Zenon

LEMMA UnlockStep ==
    ASSUME TisInv, NEW p \in Processes, Unlock(p)
    PROVE  TisInv' /\ Shift(p)
<1> DEFINE g == host[p]  h == [g EXCEPT !.cnt = 0, !.pc = "idle"]
<1>1. g.pc = "unlock" /\ g.pc \in Holding
  BY DEF Unlock, At, Holding
<1>2. g \in HostStates /\ Local(g, Me(p), TisRan[p]) /\ g.cnt = 1 /\ Others(p) /\ sem = 0 /\ chip \in ChipStates
  BY <1>1, HostIs
<1>3. host \in [Processes -> HostStates]
  BY HostIs
<1>4. TPM2_TIS_Unlock(LockOf(p)) = [cnt |-> 0, sem |-> 1]
  BY <1>2 DEF TPM2_TIS_Unlock, LockOf
<1>5. sem' = 1 /\ host' = [host EXCEPT ![p].cnt = 0, ![p].pc = "idle"] /\ UNCHANGED <<stm, chip, runs, faults>>
  BY <1>4 DEF Unlock
<1>6. host' = [host EXCEPT ![p] = h]
  BY <1>3, <1>5
<1> HIDE DEF g
<1>7. /\ h \in HostStates /\ h.pc = "idle" /\ h.cnt = 0 /\ h.num = g.num /\ h.res = g.res /\ h.got = g.got
      /\ h.num \in Nat
  BY <1>2 DEF HostStates
<1>8. h.started = g.started /\ h.fault = g.fault
  <2>1. h.started = g.started
    BY <1>2 DEF HostStates
  <2>2. h.fault = g.fault
    BY <1>2 DEF HostStates
  <2> QED
    BY <2>1, <2>2
<1> HIDE DEF h
<1>9. h.pc \notin {"lock"} \cup Starting \cup Holding /\ h.pc \notin Inside
  BY <1>7, Names
<1>10. Local(h, Me(p), TisRan[p])
  BY <1>1, <1>2, <1>7, <1>8, <1>9, Names DEF Local, Inside, Holding, Unsent
<1>11. Moves(p, h)
  BY <1>7, <1>9, <1>10 DEF Moves, g, Unsent
<1>12. ChipFits(chip') /\ chip' \in ChipStates /\ sem' \in {0, 1} /\ runs' = runs
  BY <1>2, <1>5 DEF TisInv
<1>13. h.pc \in Holding => Others(p) /\ sem' = 0 /\ InTouch(h, Me(p), TisRan[p], chip')
  BY <1>9
<1>14. (SameChip(chip') /\ sem' = sem) \/ (Others(p) /\ ChipFits(chip'))
  BY <1>2, <1>12
<1> QED
  BY <1>6, <1>11, <1>12, <1>13, <1>14, ProcessMoves, Zenon

LEMMA TakeLockStep ==
    ASSUME TisInv, NEW p \in Processes, TakeLock(p)
    PROVE  TisInv' /\ Shift(p)
<1> DEFINE g == host[p]  t == Goto(p, "status")  h == [t EXCEPT !.cnt = 1]  r == TisRan[p]
<1>1. g.pc = "lock" /\ g.pc \notin Holding
  BY Names DEF TakeLock, At
<1>2. /\ g \in HostStates /\ Local(g, Me(p), r) /\ g.cnt = 0 /\ sem \in {0, 1}
      /\ chip \in ChipStates /\ ChipFits(chip) /\ AtFirst(g, r)
  BY <1>1, HostIs DEF TisInv, Local, AtFirst, Unsent
<1>3. g.started /\ g.num > 0 /\ g.res = "none"
  BY <1>1, HolderIs
<1>4. TPM2_TIS_Lock(LockOf(p)) = [cnt |-> 1, sem |-> sem - 1] /\ sem = 1
  BY <1>2 DEF TakeLock, Locks, TPM2_TIS_Lock, LockOf
<1>5. sem' = 0 /\ host' = [host EXCEPT ![p] = h] /\ UNCHANGED <<stm, chip, runs, faults>>
  BY <1>4 DEF TakeLock
<1>6. Others(p)
  BY <1>4 DEF TisInv, Others
<1>7. "status" \in {"idle", "lock"} \cup Starting \cup Holding
      /\ "status" \in Inside /\ "status" \notin Writing \cup Reading
  BY Names DEF Holding, Inside
<1>8. /\ t \in HostStates /\ t.pc = "status" /\ t.num = g.num
      /\ t.res = "none" /\ t.pos = g.pos
      /\ t.got = g.got /\ t.rspSz = g.rspSz
  BY <1>3, <1>7, GotoFields
<1>9. t.started
  BY <1>3, <1>7, GotoFields
<1> HIDE DEF t
<1>10. /\ h \in HostStates /\ h.pc = "status" /\ h.cnt = 1 /\ h.num = g.num
       /\ h.res = "none" /\ h.pos = g.pos /\ h.got = g.got /\ h.rspSz = g.rspSz
  BY <1>8 DEF HostStates
<1>11. h.started
  BY <1>8, <1>9 DEF HostStates
<1> HIDE DEF h
<1>12. Local(h, Me(p), r)
  <2>1. KeepsOn(p, h)
    BY <1>3, <1>7, <1>10, <1>11 DEF KeepsOn
  <2>2. AtFirst(h, r)
    BY <1>2, <1>10 DEF AtFirst
  <2>3. h.pc # "done"
    BY <1>10
  <2> QED
    BY <1>1, <2>1, <2>2, <2>3, KeepsLocal
<1>13. InTouch(h, Me(p), r, chip')
  BY <1>7, <1>10 DEF InTouch
<1>14. Moves(p, h)
  <2>1. h.pc \in Holding
    BY <1>7, <1>10, Names
  <2> QED
    BY <1>1, <1>10, <1>12, <2>1 DEF Moves, Unsent
<1>15. (SameChip(chip') /\ sem' = sem) \/ (Others(p) /\ ChipFits(chip'))
  BY <1>2, <1>5, <1>6
<1>16. chip' \in ChipStates /\ sem' \in {0, 1} /\ runs' = runs
  BY <1>2, <1>5
<1>17. h.pc \in Holding => Others(p) /\ sem' = 0 /\ InTouch(h, Me(p), TisRan[p], chip')
  BY <1>5, <1>6, <1>13
<1> QED
  BY <1>5, <1>14, <1>15, <1>16, <1>17, ProcessMoves, Zenon

\* The semaphore is refused only before it is held.
LEMMA TimeoutStep ==
    ASSUME TisInv, NEW p \in Processes, LockTimeout(p)
    PROVE  TisInv' /\ Shift(p)
<1> DEFINE g == host[p]
<1>1. g.pc \notin {"idle", "unlock"} /\ ~Locks(LockOf(p)) /\ UNCHANGED <<stm, chip, runs, sem, faults>>
  BY DEF LockTimeout
<1>2. g \in HostStates /\ g.cnt = (IF g.pc \in Holding THEN 1 ELSE 0) /\ chip \in ChipStates /\ ChipFits(chip)
  BY HostIs DEF TisInv
<1>3. g.pc \notin Holding /\ g.pc \in {"lock"} \cup Starting
  BY <1>1, <1>2, HostFields DEF Locks, LockOf
<1>4. PICK after \in AfterFault(p) : host' = [host EXCEPT ![p] = after]
  BY DEF LockTimeout
<1>5. /\ \/ after = Failed(host[p], TRUE)
         \/ At(p, "check") /\ after = Goto(p, "request")
         \/ At(p, "info") /\ Further(p, after)
         \/ At(p, "granted") /\ Again(p, after)
         \/ g.pc \in {"burst", "rburst"}
  BY <1>1, FaultEnds
<1>6. SameChip(chip') /\ chip' \in ChipStates /\ sem' = sem /\ runs' = runs
  BY <1>1, <1>2 DEF SameChip
<1>7. CASE g.pc \in Starting
  <2>1. g.pc \notin {"burst", "rburst"} /\ "request" \in Starting
    BY <1>7 DEF Starting
  <2>2. Restarts(p, after) \/ after = Failed(host[p], TRUE)
    BY <1>5, <1>7, <2>1, RestartGoto, RestartMore
  <2> QED
    BY <1>4, <1>6, <1>7, <2>2, StartStep
<1>8. CASE g.pc = "lock"
  <2>1. after = Failed(host[p], TRUE)
    BY <1>5, <1>8 DEF At
  <2>2. /\ Moves(p, after) /\ after.pc \in {"idle", "unlock"}
        /\ after.pc = "unlock" => g.pc \in Inside
    BY <1>1, <2>1, FailedMoves
  <2>3. after.pc \notin Holding
    BY <1>3, <2>2, Names
  <2>4. sem' \in {0, 1} /\ ((SameChip(chip') /\ sem' = sem) \/ (Others(p) /\ ChipFits(chip')))
    BY <1>6, HostIs
  <2>5. after.pc \in Holding => Others(p) /\ sem' = 0 /\ InTouch(after, Me(p), TisRan[p], chip')
    BY <2>3
  <2> QED
    BY <1>4, <1>6, <2>2, <2>4, <2>5, ProcessMoves, Zenon
<1> QED
  BY <1>3, <1>7, <1>8

LEMMA ChipStartupStep ==
    ASSUME TisInv, NEW p \in Processes, ChipStartup(p)
    PROVE  TisInv' /\ Shift(p)
<1> DEFINE g == host[p]  t == Goto(p, "startup")  h == [t EXCEPT !.pos = 0]
<1>1. g.pc = "idle" /\ ~g.started /\ host' = [host EXCEPT ![p] = h] /\ UNCHANGED <<stm, chip, runs, sem, faults>>
  BY DEF ChipStartup, At
<1>2. /\ g \in HostStates /\ Local(g, Me(p), TisRan[p]) /\ g.cnt = (IF g.pc \in Holding THEN 1 ELSE 0)
      /\ chip \in ChipStates /\ sem \in {0, 1}
  BY HostIs
<1>3. /\ "startup" \in Starting /\ "startup" \in {"idle", "lock"} \cup Starting \cup Holding
      /\ "startup" \notin {"lock", "idle", "unlock", "done", "status", "ready", "waitReady"} \cup Holding \cup Inside
      /\ "idle" \notin Holding
  BY Names DEF Starting
<1>4. /\ t \in HostStates /\ t.pc = "startup" /\ t.cnt = g.cnt /\ t.num = g.num
      /\ t.res = g.res /\ t.got = g.got
  BY <1>3, GotoFields
<1>5. t.started = g.started /\ t.fault = g.fault
  BY <1>3, GotoFields
<1> HIDE DEF t
<1>6. /\ h \in HostStates /\ h.pc = "startup" /\ h.cnt = t.cnt /\ h.num = t.num /\ h.res = t.res /\ h.got = t.got
  BY <1>4 DEF HostStates
<1>7. h.started = t.started
  BY <1>4 DEF HostStates
<1>8. h.fault = t.fault
  BY <1>4 DEF HostStates
<1> HIDE DEF h
<1>9. Local(h, Me(p), TisRan[p])
  BY <1>1, <1>2, <1>3, <1>4, <1>5, <1>6, <1>7, <1>8 DEF Local, Unsent
<1>10. Moves(p, h)
  BY <1>3, <1>4, <1>6, <1>9 DEF Moves, Unsent
<1>11. SameChip(chip') /\ chip' \in ChipStates /\ sem' = sem /\ sem' \in {0, 1} /\ runs' = runs
  BY <1>1, <1>2 DEF SameChip
<1>12. h.pc \in Holding => Others(p) /\ sem' = 0 /\ InTouch(h, Me(p), TisRan[p], chip')
  BY <1>3, <1>6
<1>13. (SameChip(chip') /\ sem' = sem) \/ (Others(p) /\ ChipFits(chip'))
  BY <1>11
<1> QED
  BY <1>1, <1>10, <1>11, <1>12, <1>13, ProcessMoves, Zenon

\* A process that dies with the semaphore leaves it taken, and the chip as it is.
LEMMA CrashStep ==
    ASSUME TisInv, NEW p \in Processes, Crash(p)
    PROVE  TisInv' /\ Shift(p)
<1> DEFINE g == host[p]  h == [Host EXCEPT !.num = g.num, !.fault = TRUE, !.res = "fail"]
<1>1. g.pc # "idle" /\ host' = [host EXCEPT ![p] = h] /\ UNCHANGED <<stm, chip, runs, sem>>
  BY DEF Crash, At
<1>2. /\ g \in HostStates /\ Local(g, Me(p), TisRan[p]) /\ chip \in ChipStates /\ sem \in {0, 1}
  BY HostIs
<1>3. g.num \in Nat /\ g.num <= MaxCalls
  BY <1>2, HostFields DEF Local
<1> HIDE DEF g
<1>4. /\ h \in HostStates /\ h.pc = "idle" /\ h.cnt = 0 /\ h.num = g.num /\ h.res = "fail" /\ h.fault
      /\ ~h.started
  <2>1. Host \in HostStates /\ Host.pc = "idle" /\ Host.cnt = 0 /\ ~Host.started
    BY DEF HostStates, Host
  <2>2. h \in HostStates /\ h.pc = "idle" /\ h.cnt = 0 /\ h.num = g.num /\ h.res = "fail"
    BY <1>3, <2>1 DEF HostStates
  <2>3. h.fault /\ ~h.started
    BY <2>1 DEF HostStates
  <2> QED
    BY <2>2, <2>3
<1> HIDE DEF h
<1>5. h.pc \notin {"lock"} \cup Starting \cup Holding /\ h.pc \notin Inside
  BY <1>4, Names
<1>6. Local(h, Me(p), TisRan[p])
  BY <1>3, <1>4, <1>5 DEF Local, Unsent
<1>7. Moves(p, h)
  BY <1>1, <1>4, <1>5, <1>6 DEF Moves, g, Unsent
<1>8. SameChip(chip') /\ chip' \in ChipStates /\ sem' = sem /\ sem' \in {0, 1} /\ runs' = runs
  BY <1>1, <1>2 DEF SameChip
<1>9. h.pc \in Holding => Others(p) /\ sem' = 0 /\ InTouch(h, Me(p), TisRan[p], chip')
  BY <1>5
<1>10. (SameChip(chip') /\ sem' = sem) \/ (Others(p) /\ ChipFits(chip'))
  BY <1>8
<1> QED
  BY <1>1, <1>7, <1>8, <1>9, <1>10, ProcessMoves, Zenon

-----------------------------------------------------------------------------
(* A new command.                                                          *)

\* A process whose command is the last for all of them has sent MaxCalls.
LEMMA RoomForCall ==
    ASSUME TisInv, NEW p \in Processes, Cardinality(Sent) < MaxCalls
    PROVE  host[p].num \in Nat /\ host[p].num + 1 \in 1 .. MaxCalls
<1>1. host[p].num \in Nat /\ host[p].num <= MaxCalls /\ MaxCalls \in Nat
  BY HostIs, HostFields, TisAssumption DEF Local
<1>2. IsFiniteSet(Ids)
  <2> DEFINE P == Processes \X (1 .. MaxCalls)  f == [x \in P |-> [who |-> x[1], num |-> x[2]]]
  <2>1. IsFiniteSet(1 .. MaxCalls)
    BY <1>1, FS_Interval
  <2>2. IsFiniteSet(P)
    BY <2>1, FS_Product, TisAssumption
  <2>3. f \in [P -> Ids]
    BY DEF Ids
  <2>4. \A id \in Ids : \E x \in P : f[x] = id
    <3> SUFFICES ASSUME NEW id \in Ids
                 PROVE  \E x \in P : f[x] = id
      OBVIOUS
    <3>1. id.who \in Processes /\ id.num \in 1 .. MaxCalls /\ id = [who |-> id.who, num |-> id.num]
      BY DEF Ids
    <3>2. <<id.who, id.num>> \in P /\ f[<<id.who, id.num>>] = id
      BY <3>1
    <3> QED
      BY <3>2, Zenon
  <2>5. f \in Surjection(P, Ids)
    BY <2>3, <2>4 DEF Surjection
  <2> QED
    BY <2>2, <2>5, FS_Surjection
<1>3. IsFiniteSet(Sent) /\ Cardinality(Sent) \in Nat
  <2>1. Sent \in SUBSET Ids
    BY DEF Sent
  <2> QED
    BY <1>2, <2>1, FS_Subset, FS_CardinalityType
<1>4. ASSUME host[p].num = MaxCalls
      PROVE  FALSE
  <2> DEFINE N == 1 .. MaxCalls  f == [n \in N |-> [who |-> p, num |-> n]]
  <2>1. f \in [N -> Sent]
    BY <1>4 DEF Sent, Ids
  <2>2. \A m, n \in N : f[m] = f[n] => m = n
    OBVIOUS
  <2>3. f \in Injection(N, Sent)
    BY <2>1, <2>2 DEF Injection, IsInjective
  <2>4. Cardinality(N) <= Cardinality(Sent)
    BY <1>3, <2>3, FS_Injection
  <2>5. Cardinality(N) = MaxCalls
    <3>1. 1 \in Int /\ MaxCalls \in Int
      BY <1>1
    <3>2. Cardinality(1 .. MaxCalls) = IF 1 > MaxCalls THEN 0 ELSE MaxCalls - 1 + 1
      BY <3>1, FS_Interval
    <3> QED
      BY <1>1, <3>2
  <2> QED
    BY <1>1, <1>3, <2>4, <2>5
<1> QED
  BY <1>1, <1>4

\* A call begins, in the abstract specification.
Begins(p) ==
    /\ TisAt[p] # "called" /\ TisAt'[p] = "called" /\ TisRan'[p] = 0
    /\ \A q \in Processes \ {p} : TisAt'[q] = TisAt[q] /\ TisRan'[q] = TisRan[q]

LEMMA SendStep ==
    ASSUME TisInv, NEW p \in Processes, SendCommand(p)
    PROVE  TisInv' /\ Begins(p)
<1> DEFINE g == host[p]  t == Goto(p, "lock")  new == [who |-> p, num |-> g.num + 1]
           h == [t EXCEPT !.num = t.num + 1, !.res = "none", !.fault = FALSE,
                          !.pos = 0, !.got = <<>>, !.rspSz = Header]
<1>1. g.pc = "idle" /\ g.started /\ Cardinality(Sent) < MaxCalls /\ UNCHANGED <<stm, chip, runs, sem, faults>>
  BY DEF SendCommand, At
<1>2. host' = [host EXCEPT ![p] = h]
  BY DEF SendCommand
<1>3. /\ g \in HostStates /\ Local(g, Me(p), TisRan[p]) /\ g.cnt = (IF g.pc \in Holding THEN 1 ELSE 0)
      /\ host \in [Processes -> HostStates]
  BY HostIs
<1>4. g.num \in Nat /\ g.num + 1 \in Nat /\ g.num + 1 <= MaxCalls /\ new \in Ids
  BY <1>1, RoomForCall DEF Ids
<1>5. /\ "lock" \in {"idle", "lock"} \cup Starting \cup Holding
      /\ "lock" \notin {"idle", "unlock", "done"} \cup Starting \cup Holding /\ "idle" \notin Holding
      /\ "lock" \in Unsent
  BY Names DEF Unsent
<1>6. t \in HostStates /\ t.pc = "lock" /\ t.cnt = 0 /\ t.num = g.num
  BY <1>1, <1>3, <1>5, GotoFields
<1>7. t.started
  BY <1>1, <1>5, GotoFields
<1> HIDE DEF t
<1>8. /\ h \in HostStates /\ h.pc = "lock" /\ h.cnt = 0 /\ h.num = g.num + 1 /\ h.res = "none"
      /\ h.pos = 0 /\ h.got = <<>> /\ h.rspSz = Header
  <2>1. <<>> \in Seq(Units) /\ Header \in Nat
    BY DEF Header
  <2> QED
    BY <1>4, <1>6, <2>1 DEF HostStates
<1>9. h.started
  BY <1>6, <1>7 DEF HostStates
<1> HIDE DEF h
<1>10. host' \in [Processes -> HostStates] /\ host'[p] = h /\ \A q \in Processes : q # p => host'[q] = host[q]
  BY <1>2, <1>3, <1>8
<1>11. Me(p)' = new /\ \A q \in Processes : q # p => Me(q)' = Me(q)
  BY <1>8, <1>10 DEF Me
<1>12. runs[new] = 0
  <2>1. new.num > host[new.who].num
    BY <1>4
  <2> QED
    BY <1>4, <2>1 DEF TisInv, NotYetRun
<1>13. TisRan'[p] = 0 /\ \A q \in Processes : q # p => TisRan'[q] = TisRan[q]
  <2>1. host'[p].num # 0
    BY <1>4, <1>8, <1>10
  <2>2. TisRan'[p] = IF host'[p].num = 0 THEN 0 ELSE runs'[Me(p)']
    BY DEF TisRan
  <2>3. TisRan'[p] = 0
    BY <1>1, <1>11, <1>12, <2>1, <2>2
  <2>4. ASSUME NEW q \in Processes, q # p
        PROVE  TisRan'[q] = TisRan[q]
    <3>1. host'[q].num = host[q].num /\ Me(q)' = Me(q) /\ runs' = runs
      BY <1>1, <1>10, <1>11, <2>4
    <3> QED
      BY <3>1 DEF TisRan
  <2> QED
    BY <2>3, <2>4
<1>14. Local(h, new, 0)
  BY <1>4, <1>5, <1>8, <1>9, Names DEF Local
<1>15. TisTypes'
  BY <1>1, <1>10 DEF TisInv, TisTypes
<1>16. ASSUME NEW q \in Processes
       PROVE  Local(host[q], Me(q), TisRan[q])'
  <2>1. CASE q = p
    BY <1>10, <1>11, <1>13, <1>14, <2>1 DEF Local
  <2>2. CASE q # p
    <3>1. Local(host[q], Me(q), TisRan[q])
      BY DEF TisInv
    <3>2. host'[q] = host[q] /\ Me(q)' = Me(q) /\ TisRan'[q] = TisRan[q]
      BY <1>10, <1>11, <1>13, <2>2, Zenon
    <3> QED
      BY <3>1, <3>2 DEF Local
  <2> QED
    BY <2>1, <2>2
<1>17. \A q \in Processes : host'[q].pc \in Holding => q # p
  BY <1>5, <1>8, <1>10
<1>18. ASSUME NEW q \in Processes, host'[q].pc \in Holding
       PROVE  sem' = 0 /\ InTouch(host[q], Me(q), TisRan[q], chip)'
  <2>1. host'[q] = host[q] /\ Me(q)' = Me(q) /\ TisRan'[q] = TisRan[q] /\ chip' = chip /\ sem' = sem
    BY <1>1, <1>10, <1>11, <1>13, <1>17, <1>18
  <2>2. sem = 0 /\ InTouch(host[q], Me(q), TisRan[q], chip)
    BY <1>18, <2>1 DEF TisInv
  <2> QED
    BY <2>1, <2>2 DEF InTouch, WriteKnows, ReadKnows, Running, Answered
<1>19. ASSUME NEW q \in Processes, NEW o \in Processes, host'[q].pc \in Holding, host'[o].pc \in Holding
       PROVE  q = o
  <2>1. host'[q] = host[q] /\ host'[o] = host[o]
    BY <1>10, <1>17, <1>19
  <2> QED
    BY <1>19, <2>1 DEF TisInv
<1>20. \A id \in Ids : id.who \in Processes /\ id.num \in Nat /\ host'[id.who].num >= host[id.who].num
  <2> SUFFICES ASSUME NEW id \in Ids
               PROVE  id.who \in Processes /\ id.num \in Nat /\ host'[id.who].num >= host[id.who].num
    OBVIOUS
  <2>1. id.who \in Processes /\ id.num \in Nat
    BY DEF Ids
  <2>2. host[id.who].num \in Nat
    BY <1>3, <2>1, HostFields
  <2> QED
    BY <1>4, <1>8, <1>10, <2>1, <2>2
<1>21. NotYetRun'
  <2> SUFFICES ASSUME NEW id \in Ids, id.num > host'[id.who].num
               PROVE  runs'[id] = 0
    BY DEF NotYetRun
  <2>1. host[id.who].num \in Nat /\ host'[id.who].num \in Nat
    BY <1>3, <1>10, <1>20, HostFields
  <2> QED
    BY <1>1, <1>20, <2>1 DEF TisInv, NotYetRun
<1>22. ASSUME NEW id \in Ids, Given(id)
       PROVE  Given(id)'
  <2>1. host[id.who].num \in Nat /\ host'[id.who].num \in Nat
    BY <1>3, <1>10, <1>20, HostFields
  <2>2. CASE id.who = p
    BY <1>4, <1>8, <1>10, <1>20, <1>22, <2>1, <2>2 DEF Given
  <2>3. CASE id.who # p
    <3>1. host'[id.who] = host[id.who]
      BY <1>10, <1>20, <2>3
    <3> QED
      BY <1>22, <3>1 DEF Given
  <2> QED
    BY <2>2, <2>3
<1>23. ChipFits(chip)'
  BY <1>1, <1>22 DEF TisInv, ChipFits
<1>24. TisInv'
  BY <1>15, <1>16, <1>18, <1>19, <1>21, <1>23 DEF TisInv
<1>25. TisAt[p] # "called"
  <2>1. TisAt[p] = CallAt(g, Me(p))
    BY <1>3, SeenAs DEF AllSeen
  <2>2. CallAt(g, Me(p)) = (IF g.num = 0 THEN "idle" ELSE g.res) /\ (g.num # 0 => g.res \in {"ok", "fail"})
    BY <1>1, <1>3, <1>5, CalledHow
  <2> QED
    BY <2>1, <2>2
<1>26. \A q \in Processes : TisAt'[q] = CallAt(host'[q], Me(q)')
  BY <1>10, SeenAs DEF AllSeen, CallAt
<1>27. TisAt'[p] = "called"
  BY <1>4, <1>8, <1>10, <1>26 DEF CallAt
<1>28. \A q \in Processes \ {p} : TisAt'[q] = TisAt[q]
  <2>1. \A q \in Processes : TisAt[q] = CallAt(host[q], Me(q))
    BY <1>3, SeenAs DEF AllSeen
  <2> QED
    BY <1>10, <1>11, <1>26, <2>1 DEF CallAt
<1> QED
  BY <1>13, <1>24, <1>25, <1>27, <1>28 DEF Begins

-----------------------------------------------------------------------------
(* The chip moves.                                                         *)

\* The command of some process is run, in the abstract specification.
Executes(p) ==
    /\ TisAt' = TisAt /\ TisAt[p] \in {"called", "fail"} /\ TisRan[p] = 0 /\ TisRan'[p] = 1
    /\ \A q \in Processes \ {p} : TisRan'[q] = TisRan[q]

\* The processes stand where they were.
LEMMA ProcessesStay ==
    ASSUME TisInv, host' = host
    PROVE  /\ TisAt' = TisAt /\ (runs' = runs => TisRan' = TisRan)
           /\ \A p \in Processes : Me(p)' = Me(p) /\ host'[p] = host[p]
<1>1. \A p \in Processes : Me(p)' = Me(p) /\ host'[p] = host[p]
  BY DEF Me
<1>2. TisAt' = TisAt
  BY <1>1 DEF TisAt, At
<1>3. runs' = runs => TisRan' = TisRan
  BY <1>1 DEF TisRan
<1> QED
  BY <1>1, <1>2, <1>3

LEMMA ChipMoves ==
    ASSUME TisInv, UNCHANGED <<host, sem>>, chip' \in ChipStates, runs' \in [Ids -> Nat], ChipFits(chip)',
           NotYetRun', \A p \in Processes : Local(host[p], Me(p), TisRan'[p]),
           \A p \in Processes : host[p].pc \in Holding => InTouch(host[p], Me(p), TisRan'[p], chip')
    PROVE  TisInv'
<1>1. \A p \in Processes : Me(p)' = Me(p) /\ host'[p] = host[p]
  BY ProcessesStay
<1>2. \A p \in Processes : Local(host[p], Me(p), TisRan[p])'
  <2> SUFFICES ASSUME NEW p \in Processes
               PROVE  Local(host[p], Me(p), TisRan[p])'
    OBVIOUS
  <2>1. Local(host[p], Me(p), TisRan'[p])
    OBVIOUS
  <2> QED
    BY <1>1, <2>1 DEF Local
<1>3. ASSUME NEW p \in Processes, host'[p].pc \in Holding
      PROVE  sem' = 0 /\ InTouch(host[p], Me(p), TisRan[p], chip)'
  <2>1. host[p].pc \in Holding
    BY <1>3
  <2>2. sem' = 0
    BY <2>1 DEF TisInv
  <2>3. InTouch(host[p], Me(p), TisRan'[p], chip')
    BY <2>1
  <2> QED
    BY <1>1, <2>2, <2>3 DEF InTouch, WriteKnows, ReadKnows, Running, Answered
<1>4. TisTypes'
  BY DEF TisInv, TisTypes
<1>5. \A p, q \in Processes : host'[p].pc \in Holding /\ host'[q].pc \in Holding => p = q
  BY DEF TisInv
<1> QED
  BY <1>2, <1>3, <1>4, <1>5 DEF TisInv

LEMMA GivenStays ==
    ASSUME host' = host, NEW id
    PROVE  Given(id)' <=> Given(id)
BY DEF Given

LEMMA ChipQuietStep ==
    ASSUME TisInv, ChipReady \/ ChipBoots, UNCHANGED <<stm, sem, host, faults>>
    PROVE  TisInv' /\ TisAt' = TisAt /\ TisRan' = TisRan
<1>1. /\ chip \in ChipStates /\ ChipFits(chip) /\ runs \in [Ids -> Nat] /\ NotYetRun /\ sem \in {0, 1}
      /\ runs' = runs
  BY DEF TisInv, TisTypes, ChipReady, ChipBoots
<1>2. TisAt' = TisAt /\ TisRan' = TisRan
  BY <1>1, ProcessesStay
<1>3. /\ chip' \in ChipStates
      /\ SameChip(chip') \/ (chip.st = "abort" /\ chip'.st = "ready" /\ chip'.in = chip.in)
  BY <1>1 DEF ChipReady, ChipBoots, ChipStates, SameChip
<1>4. ChipFits(chip)'
  <2>1. ChipFits(chip')
    <3>1. CASE SameChip(chip')
      BY <1>1, <3>1, SameInTouch
    <3>2. CASE chip.st = "abort" /\ chip'.st = "ready" /\ chip'.in = chip.in
      BY <1>1, <3>2 DEF ChipFits
    <3> QED
      BY <1>3, <3>1, <3>2
  <2> QED
    BY <1>1, <2>1, GivenStays DEF ChipFits
<1>5. NotYetRun'
  BY <1>1 DEF NotYetRun
<1>6. ASSUME NEW p \in Processes
      PROVE  /\ Local(host[p], Me(p), TisRan'[p])
             /\ host[p].pc \in Holding => InTouch(host[p], Me(p), TisRan'[p], chip')
  <2>1. Local(host[p], Me(p), TisRan[p]) /\ TisRan'[p] = TisRan[p]
    BY <1>2 DEF TisInv
  <2>2. ASSUME host[p].pc \in Holding
        PROVE  InTouch(host[p], Me(p), TisRan'[p], chip')
    <3>1. InTouch(host[p], Me(p), TisRan[p], chip)
      BY <2>2 DEF TisInv
    <3>2. CASE SameChip(chip')
      BY <2>1, <3>1, <3>2, SameInTouch
    <3>3. CASE chip.st = "abort" /\ chip'.st = "ready" /\ chip'.in = chip.in
      <4>1. host[p].pc \notin Writing /\ host[p].pc \notin Reading
        BY <3>1, <3>3 DEF InTouch, WriteKnows, ReadKnows, Running
      <4> QED
        BY <3>3, <4>1 DEF InTouch, Writing, Reading
    <3> QED
      BY <1>3, <3>2, <3>3
  <2> QED
    BY <2>1, <2>2
<1>7. TisInv'
  BY <1>1, <1>3, <1>4, <1>5, <1>6, ChipMoves
<1> QED
  BY <1>2, <1>7

\* The chip runs a whole command, given to it in this call or in an earlier one.
LEMMA ChipExecutesStep ==
    ASSUME TisInv, ChipExecutes, UNCHANGED <<stm, sem, host, faults>>
    PROVE  TisInv' /\ ((TisAt' = TisAt /\ TisRan' = TisRan) \/ \E p \in Processes : Executes(p))
<1>1. /\ chip \in ChipStates /\ ChipFits(chip) /\ runs \in [Ids -> Nat] /\ NotYetRun /\ sem \in {0, 1}
      /\ host \in [Processes -> HostStates] /\ chip.st = "exec"
  BY DEF TisInv, TisTypes, ChipExecutes
<1>2. PICK id \in Ids : chip.in = Copies(id, CmdLen) /\ Given(id) /\ runs[id] = 0
  BY <1>1 DEF ChipFits
<1>3. CmdLen \in Nat \ {0} /\ RspCap \in Nat
  BY TisAssumption
<1>4. \A k \in 1 .. CmdLen : chip.in[k] = id
  BY <1>2, <1>3 DEF Copies
<1>5. chip.in[1] = id
  BY <1>3, <1>4
<1>6. /\ runs' = [runs EXCEPT ![id] = @ + 1]
      /\ \E size \in Header .. RspCap + 1 : chip' = [chip EXCEPT !.st = "done", !.out = Answer(id, size)]
  BY <1>2, <1>4, <1>5 DEF ChipExecutes
<1>7. PICK size \in Header .. RspCap + 1 : chip' = [chip EXCEPT !.st = "done", !.out = Answer(id, size)]
  BY <1>6
<1>8. size \in Nat /\ size > 0
  BY <1>3 DEF Header
<1>9. id.who \in Processes /\ id.num \in Nat /\ id.num # 0 /\ id \in [who : Processes, num : Nat]
  BY DEF Ids
<1>10. Answer(id, size) \in Seq(Units) /\ Len(Answer(id, size)) = size
  BY <1>8, <1>9, AnswerSeq
<1>11. chip' \in ChipStates /\ chip'.st = "done" /\ chip'.out = Answer(id, size)
  BY <1>1, <1>7, <1>10 DEF ChipStates
<1>12. runs' \in [Ids -> Nat] /\ runs'[id] = 1 /\ \A i \in Ids : i # id => runs'[i] = runs[i]
  BY <1>1, <1>2, <1>6
<1>13. ChipFits(chip)'
  BY <1>11 DEF ChipFits
<1>14. NotYetRun'
  <2> SUFFICES ASSUME NEW i \in Ids, i.num > host[i.who].num
               PROVE  runs'[i] = 0
    BY DEF NotYetRun
  <2>1. host[id.who].num \in Nat
    BY <1>1, <1>9, HostFields
  <2>2. i # id
    BY <1>2, <1>9, <2>1 DEF Given
  <2> QED
    BY <1>1, <1>12, <2>2 DEF NotYetRun
<1>15. TisAt' = TisAt /\ \A p \in Processes : Me(p)' = Me(p) /\ host'[p] = host[p]
  BY ProcessesStay
<1>16. ASSUME NEW p \in Processes
       PROVE  /\ Me(p) = id => host[p].num # 0 /\ TisRan[p] = 0 /\ TisRan'[p] = 1
              /\ Me(p) # id => TisRan'[p] = TisRan[p]
  <2>1. TisRan[p] = IF host[p].num = 0 THEN 0 ELSE runs[Me(p)]
    BY DEF TisRan
  <2>2. TisRan'[p] = IF host[p].num = 0 THEN 0 ELSE runs'[Me(p)]
    BY <1>15 DEF TisRan
  <2>3. CASE Me(p) = id
    <3>1. host[p].num # 0
      BY <1>9, <2>3 DEF Me
    <3> QED
      BY <1>2, <1>12, <2>1, <2>2, <2>3, <3>1
  <2>4. CASE Me(p) # id /\ host[p].num # 0
    <3>1. Me(p) \in Ids
      <4>1. host[p].num \in Nat /\ host[p].num <= MaxCalls
        BY <1>1, HostIs, HostFields DEF Local
      <4> QED
        BY <2>4, <4>1, TisAssumption DEF Me, Ids
    <3> QED
      BY <1>12, <2>1, <2>2, <2>4, <3>1
  <2> QED
    BY <2>1, <2>2, <2>3, <2>4
<1>17. ASSUME NEW p \in Processes
       PROVE  Local(host[p], Me(p), TisRan'[p])
  <2>1. Local(host[p], Me(p), TisRan[p])
    BY DEF TisInv
  <2>2. CASE Me(p) # id
    BY <1>16, <2>1, <2>2
  <2>3. CASE Me(p) = id
    <3>1. TisRan[p] = 0 /\ TisRan'[p] = 1 /\ host[p].num = id.num /\ id.who = p
      BY <1>16, <2>3 DEF Me
    <3>2. host[p].pc \notin Unsent
      BY <1>2, <3>1 DEF Given
    <3> DEFINE h == host[p]  m == Me(p)
    <3>3. Local(h, m, 0) /\ h.pc \notin Unsent
      BY <2>1, <3>1, <3>2
    <3> HIDE DEF h, m
    <3>4. Local(h, m, 1)
      BY <3>3 DEF Local
    <3> QED
      BY <3>1, <3>4 DEF h, m
  <2> QED
    BY <2>2, <2>3
<1>18. ASSUME NEW p \in Processes, host[p].pc \in Holding
       PROVE  InTouch(host[p], Me(p), TisRan'[p], chip')
  <2> DEFINE h == host[p]  m == Me(p)
  <2>1. InTouch(h, m, TisRan[p], chip) /\ h \in HostStates
    BY <1>1, <1>18 DEF TisInv
  <2>2. h.pc \notin Writing /\ h.pc # "waitReady"
    BY <1>1, <2>1 DEF InTouch, WriteKnows
  <2>3. h.pc \in Reading => h.pc = "waitAvail" /\ Running(h, m, chip)
    BY <1>1, <2>1 DEF InTouch, ReadKnows, Running
  <2>4. ASSUME h.pc \in Reading
        PROVE  ReadKnows(h, m, TisRan'[p], chip')
    <3>1. Running(h, m, chip)
      BY <2>3, <2>4
    <3>2. m = id
      <4>1. Copies(m, CmdLen) = Copies(id, CmdLen)
        BY <1>2, <3>1 DEF Running
      <4>2. Copies(m, CmdLen)[1] = m /\ Copies(id, CmdLen)[1] = id
        BY <1>3 DEF Copies
      <4> QED
        BY <4>1, <4>2
    <3>3. TisRan'[p] = 1
      BY <1>16, <3>2
    <3>4. h.pos = 0 /\ h.rspSz = Header /\ h.got = <<>>
      BY <3>1 DEF Running
    <3>5. Answered(h, id, chip', size)
      <4>1. Taken(Answer(id, size), 0) = << >> /\ Left(Answer(id, size), 0) = Answer(id, size)
        BY <1>8, <1>10, FirstOf
      <4> QED
        BY <1>11, <3>4, <4>1 DEF Answered, Header
    <3> HIDE DEF h, m
    <3> QED
      BY <1>11, <3>2, <3>3, <3>5 DEF ReadKnows
  <2>5. h.pc \notin {"write", "read"}
    BY <2>2, <2>3 DEF Writing, Reading
  <2> HIDE DEF h, m
  <2>6. InTouch(h, m, TisRan'[p], chip')
    BY <2>2, <2>4, <2>5 DEF InTouch
  <2> QED
    BY <2>6 DEF h, m
<1>19. TisInv'
  BY <1>11, <1>12, <1>13, <1>14, <1>17, <1>18, ChipMoves
<1>20. CASE Me(id.who) = id
  <2> DEFINE p == id.who
  <2>1. p \in Processes /\ TisRan[p] = 0 /\ TisRan'[p] = 1 /\ host[p].num # 0
    BY <1>9, <1>16, <1>20
  <2>2. \A q \in Processes \ {p} : TisRan'[q] = TisRan[q]
    <3> SUFFICES ASSUME NEW q \in Processes \ {p}
                 PROVE  TisRan'[q] = TisRan[q]
      OBVIOUS
    <3>1. Me(q) # id
      BY DEF Me
    <3> QED
      BY <1>16, <3>1
  <2>3. TisAt[p] \in {"called", "fail"}
    <3>1. TisAt[p] = CallAt(host[p], Me(p))
      BY <1>1, <2>1, SeenAs DEF AllSeen
    <3>2. host[p] \in HostStates /\ Local(host[p], Me(p), TisRan[p])
      BY <2>1, HostIs
    <3>3. host[p].res \in {"none", "ok", "fail"} /\ (host[p].num # 0 /\ host[p].res = "ok" => TisRan[p] = 1)
      BY <3>2, HostFields, CalledHow
    <3> QED
      BY <2>1, <3>1, <3>3 DEF CallAt
  <2>4. Executes(p)
    BY <1>15, <2>1, <2>2, <2>3 DEF Executes
  <2> QED
    BY <1>19, <2>1, <2>4
<1>21. CASE Me(id.who) # id
  <2>1. \A p \in Processes : Me(p) # id
    BY <1>21 DEF Me
  <2>2. \A p \in Processes : TisRan'[p] = TisRan[p]
    BY <1>16, <2>1
  <2>3. TisRan' = TisRan
    BY <2>2 DEF TisRan
  <2> QED
    BY <1>15, <1>19, <2>3
<1> QED
  BY <1>20, <1>21

-----------------------------------------------------------------------------
(* The register interface as a whole.                                      *)

LEMMA TisStarts ==
    ASSUME TisInit
    PROVE  /\ TisInv
           /\ \A p \in Processes : TisAt[p] = "idle" /\ TisRan[p] = 0
<1>1. Host \in HostStates /\ Host.pc = "idle" /\ Host.cnt = 0 /\ Host.num = 0 /\ Host.res = "none"
  BY DEF HostStates, Host
<1>2. host \in [Processes -> HostStates] /\ \A p \in Processes : host[p] = Host
  BY <1>1 DEF TisInit
<1>3. chip \in ChipStates /\ chip.st = "idle" /\ chip.in = <<>>
  <2>1. <<>> \in Seq(Ids) /\ <<>> \in Seq(Units)
    OBVIOUS
  <2> QED
    BY <2>1 DEF TisInit, ChipStates
<1>4. runs = [id \in Ids |-> 0] /\ sem = 1
  BY DEF TisInit
<1>5. TisTypes
  BY <1>2, <1>3, <1>4 DEF TisTypes
<1>6. \A p \in Processes : Local(Host, Me(p), TisRan[p])
  BY <1>1, Names, TisAssumption DEF Local, Unsent, Inside
<1>7. ChipFits(chip) /\ NotYetRun
  BY <1>3, <1>4 DEF ChipFits, NotYetRun
<1>8. \A p \in Processes : host[p].pc \notin Holding
  BY <1>1, <1>2, Names
<1>9. TisInv
  BY <1>2, <1>5, <1>6, <1>7, <1>8 DEF TisInv
<1>10. \A p \in Processes : TisRan[p] = 0
  BY <1>1, <1>2 DEF TisRan
<1>11. \A p \in Processes : TisAt[p] = "idle"
  <2>1. \A p \in Processes : TisAt[p] = CallAt(host[p], Me(p))
    BY <1>2, SeenAs DEF AllSeen
  <2> QED
    BY <1>1, <1>2, <2>1 DEF CallAt
<1> QED
  BY <1>9, <1>10, <1>11

\* Every step is one of the abstract specification, or none.
Abstractly ==
    \/ TisAt' = TisAt /\ TisRan' = TisRan
    \/ \E p \in Processes : Shift(p) \/ Begins(p) \/ Executes(p)

LEMMA TisKeeps ==
    ASSUME TisInv, TisNext
    PROVE  TisInv' /\ Abstractly
<1>1. CASE Chip
  <2>1. CASE ChipReady \/ ChipBoots
    <3>1. UNCHANGED <<stm, sem, host, faults>>
      BY <1>1 DEF Chip
    <3> QED
      BY <2>1, <3>1, ChipQuietStep DEF Abstractly
  <2>2. CASE ChipExecutes
    <3>1. UNCHANGED <<stm, sem, host, faults>>
      BY <1>1 DEF Chip
    <3>2. TisInv' /\ ((TisAt' = TisAt /\ TisRan' = TisRan) \/ \E p \in Processes : Executes(p))
      BY <2>2, <3>1, ChipExecutesStep
    <3> QED
      BY <3>2 DEF Abstractly
  <2> QED
    BY <1>1, <2>1, <2>2 DEF Chip
<1>2. ASSUME NEW p \in Processes, TisStep(p) \/ Crash(p)
      PROVE  TisInv' /\ Shift(p)
  <2>1. CASE LockTimeout(p)
    BY <2>1, TimeoutStep
  <2>2. CASE ChipStartup(p)
    BY <2>2, ChipStartupStep
  <2>3. CASE StartupWait(p) \/ CheckLocality(p) \/ RequestLocality(p) \/ LocalityGranted(p) \/ GetInfo(p)
    BY <2>3, StartupSteps
  <2>4. CASE TakeLock(p)
    BY <2>4, TakeLockStep
  <2>5. CASE TPM2_TIS_Status(p) \/ TPM2_TIS_Ready(p) \/ WaitReady(p)
    BY <2>5, ReadySteps
  <2>6. CASE GetBurstCount(p)
    BY <2>6, BurstStep
  <2>7. CASE WriteFifo(p)
    BY <2>7, WriteStep
  <2>8. CASE WaitExpect(p) \/ WaitValid(p)
    BY <2>8, WaitSteps
  <2>9. CASE Go(p)
    BY <2>9, GoStep
  <2>10. CASE WaitAvail(p)
    BY <2>10, AvailStep
  <2>11. CASE ReadFifo(p)
    BY <2>11, ReadStep
  <2>12. CASE Done(p)
    BY <2>12, DoneStep
  <2>13. CASE Unlock(p)
    BY <2>13, UnlockStep
  <2>14. CASE Crash(p)
    BY <2>14, CrashStep
  <2> QED
    BY <1>2, <2>1, <2>2, <2>3, <2>4, <2>5, <2>6, <2>7, <2>8, <2>9, <2>10, <2>11, <2>12, <2>13, <2>14
       DEF TisStep
<1>3. ASSUME NEW p \in Processes, SendCommand(p)
      PROVE  TisInv' /\ Begins(p)
  BY <1>3, SendStep
<1>4. Chip \/ \E p \in Processes : TisStep(p) \/ SendCommand(p) \/ Crash(p)
  BY DEF TisNext
<1>5. ASSUME NEW p \in Processes, TisStep(p) \/ SendCommand(p) \/ Crash(p)
      PROVE  TisInv' /\ Abstractly
  BY <1>2, <1>3, <1>5 DEF Abstractly
<1> QED
  BY <1>1, <1>4, <1>5, Zenon

-----------------------------------------------------------------------------
(* The transports through the operating system: the invariants.            *)

HostUnits == [id : Nat, size : Nat, k : Nat]
Calling   == {"open", "write", "connect", "send", "context", "submit"}
Callers   == {"idle", "poll", "read", "recvSize", "recvBody", "ack", "end", "answered"} \cup Calling
MeStates  == [pc : Callers, num : Nat, got : Seq(HostUnits), rspSz : Nat,
              res : {"none", "ok", "fail", "acked"}, fault : BOOLEAN]
PeerStates == [got : Nat, id : Nat, out : Seq(HostUnits)]

HostTypes ==
    /\ me \in MeStates /\ me.num <= HostCalls
    /\ peer \in PeerStates /\ ranNum \in [1 .. HostCalls -> Nat]

\* What holds of the caller in every build: r is how often its command was run.
Caller(m, r) ==
    /\ m.pc # "idle" => m.num > 0
    /\ m.pc \notin {"idle", "end"} => m.res = "none"
    /\ m.pc = "end" => m.res \in {"fail", "acked"}
    /\ m.pc = "idle" => IF m.num = 0 THEN m.res = "none" ELSE m.res \in {"ok", "fail"}
    /\ m.res = "fail" => m.fault
    /\ m.pc \in Calling => r = 0
    /\ m.res \in {"ok", "acked"} \/ m.pc \in {"answered", "ack"} =>
          m.got = Response(m.num, Len(m.got)) /\ r = 1

HostInv ==
    /\ HostTypes /\ Caller(me, HostRan)
    /\ \A n \in 1 .. HostCalls : n > me.num => ranNum[n] = 0

\* The kernel: nothing, or a command it has not run, or the answer to one.
Pending(p, rans) ==
    /\ p.got = Parts /\ p.id \in 1 .. HostCalls
    /\ \/ p.out = <<>> /\ rans[p.id] = 0
       \/ rans[p.id] = 1 /\ \E size \in 1 .. AnswerCap : p.out = Response(p.id, size)
LinuxKnows(m, p, rans) ==
    /\ m.pc \in {"idle", "open", "write", "poll", "read"}
    /\ p = Quiet \/ (Pending(p, rans) /\ p.id <= m.num)
    /\ m.pc \in {"open", "write"} => p.id # m.num
    /\ m.pc \in {"poll", "read"} => p.id = m.num
    /\ m.pc = "read" => p.out # <<>>

\* The simulator, in the connection of one command.
SizeDue(m, p, r) ==
    /\ p.got = Parts /\ p.id = m.num /\ m.got = <<>>
    /\ \/ p.out = <<>> /\ r = 0
       \/ r = 1 /\ \E size \in 1 .. AnswerCap + 1 : p.out = Response(m.num, size)
BodyDue(m, p, r) ==
    /\ p.got = Parts /\ p.id = m.num /\ r = 1
    /\ \E pos \in Nat : /\ pos < m.rspSz /\ m.got = Taken(Response(m.num, m.rspSz), pos)
                        /\ p.out = Left(Response(m.num, m.rspSz), pos)
SwTpmKnows(m, p, f, r) ==
    /\ m.pc \in {"idle", "connect", "send", "recvSize", "recvBody", "ack", "end"}
    /\ m.pc \in {"idle", "connect"} => f = "none" /\ p = Quiet
    /\ m.pc = "send" => p.got < Parts /\ p.out = <<>> /\ m.got = <<>>
    /\ m.pc = "connect" => m.got = <<>>
    /\ m.pc = "recvSize" => SizeDue(m, p, r)
    /\ m.pc = "recvBody" => BodyDue(m, p, r)
    /\ p.got = Parts => p.id = m.num

WinApiKnows(m) == m.pc \in {"idle", "context", "submit", "answered"}

\* Nothing has been asked of the operating system yet.
NotAsked == me.pc = "idle" /\ me.num = 0 /\ fd = "none" /\ peer = Quiet

TransportInv ==
    /\ build \in {"TIS", "LINUX_DEV", "AUTODETECT", "SWTPM", "WINAPI", "UBOOT"}
    /\ TisInv /\ HostInv
    /\ build \in {"TIS", "AUTODETECT"} => NotAsked
    /\ build = "LINUX_DEV" => LinuxKnows(me, peer, ranNum)
    /\ build = "SWTPM" => SwTpmKnows(me, peer, fd, HostRan)
    /\ build \in {"WINAPI", "UBOOT"} => WinApiKnows(me)

-----------------------------------------------------------------------------
(* The caller moves.                                                       *)

\* A call goes on, ends, begins, or its command is run, in the abstract
\* specification.
HostAbstractly ==
    \/ HostAt' = HostAt /\ HostRan' = HostRan
    \/ HostAt = "called" /\ HostAt' = "fail" /\ HostRan' = HostRan
    \/ HostAt = "called" /\ HostAt' = "ok" /\ HostRan = 1 /\ HostRan' = HostRan
    \/ HostAt # "called" /\ HostAt' = "called" /\ HostRan' = 0
    \/ HostAt \in {"called", "fail"} /\ HostAt' = HostAt /\ HostRan = 0 /\ HostRan' = 1

LEMMA MeFields ==
    ASSUME NEW m \in MeStates
    PROVE  /\ m.pc \in Callers /\ m.num \in Nat /\ m.got \in Seq(HostUnits) /\ m.rspSz \in Nat
           /\ m.res \in {"none", "ok", "fail", "acked"} /\ m.fault \in BOOLEAN
BY DEF MeStates

LEMMA CallerNames ==
    /\ Calling = {"open", "write", "connect", "send", "context", "submit"}
    /\ {"idle", "end", "ack", "answered", "recvBody", "recvSize", "poll", "read"} \cap Calling = {}
    /\ Calling \subseteq Callers
    /\ {"idle", "end", "ack", "answered", "recvBody", "recvSize", "poll", "read"} \subseteq Callers
BY DEF Calling, Callers

\* HostAt as an operator on the state of the caller.
SeenCall(m) ==
    IF m.num = 0 THEN "idle"
    ELSE IF m.pc # "idle" THEN (IF m.res # "fail" \/ m.pc = "end" THEN "called" ELSE "fail")
    ELSE IF m.res = "ok" THEN (IF m.got = Response(m.num, Len(m.got)) THEN "ok" ELSE "garbled")
    ELSE "fail"

LEMMA HostSeen ==
    /\ HostAt = SeenCall(me) /\ HostAt' = SeenCall(me')
<1>1. HostAt = SeenCall(me)
  <2>1. CASE me.num = 0
    BY <2>1 DEF HostAt, SeenCall
  <2>2. CASE me.num # 0 /\ me.pc # "idle" /\ (me.res # "fail" \/ me.pc = "end")
    BY <2>2 DEF HostAt, SeenCall
  <2>3. CASE me.num # 0 /\ me.pc = "idle" /\ me.res = "ok"
    BY <2>3 DEF HostAt, SeenCall
  <2>4. CASE me.num # 0 /\ me.pc # "idle" /\ ~(me.res # "fail" \/ me.pc = "end")
    BY <2>4 DEF HostAt, SeenCall
  <2>5. CASE me.num # 0 /\ me.pc = "idle" /\ me.res # "ok"
    BY <2>5 DEF HostAt, SeenCall
  <2> QED
    BY <2>1, <2>2, <2>3, <2>4, <2>5
<1>2. (HostAt = SeenCall(me))'
  BY <1>1, PTL
<1> QED
  BY <1>1, <1>2 DEF SeenCall

LEMMA SeenHow ==
    ASSUME NEW m \in MeStates, NEW r, Caller(m, r)
    PROVE  /\ m.pc # "idle" => SeenCall(m) = "called"
           /\ m.pc = "idle" => SeenCall(m) = IF m.num = 0 THEN "idle" ELSE m.res
           /\ m.pc = "idle" /\ m.num # 0 => m.res \in {"ok", "fail"}
           /\ m.res = "ok" => r = 1
<1> m.num \in Nat
  BY MeFields
<1> QED
  BY DEF SeenCall, Caller

LEMMA MeIs ==
    ASSUME HostInv
    PROVE  /\ me \in MeStates /\ me.num \in Nat /\ me.num <= HostCalls /\ Caller(me, HostRan)
           /\ peer \in PeerStates /\ ranNum \in [1 .. HostCalls -> Nat] /\ HostCalls \in Nat
           /\ AnswerCap \in Nat
           /\ me.num # 0 => me.num \in 1 .. HostCalls /\ HostRan = ranNum[me.num]
<1>1. me \in MeStates /\ me.num \in Nat /\ me.num <= HostCalls /\ HostCalls \in Nat /\ AnswerCap \in Nat
  BY HostAssumption, MeFields DEF HostInv, HostTypes
<1> QED
  BY <1>1 DEF HostInv, HostTypes, HostRan

\* The call goes on or ends.
LEMMA HostMoves ==
    ASSUME HostInv, NEW m \in MeStates, m.num = me.num, me.pc # "idle", Caller(m, HostRan),
           me' = m, ranNum' = ranNum, peer' \in PeerStates
    PROVE  HostInv' /\ HostAbstractly /\ HostRan' = HostRan
<1>1. HostRan' = HostRan
  BY DEF HostRan
<1>2. /\ me \in MeStates /\ Caller(me, HostRan) /\ me.num <= HostCalls
      /\ ranNum \in [1 .. HostCalls -> Nat]
  BY MeIs
<1>3. HostInv'
  <2>1. HostTypes'
    BY <1>2 DEF HostTypes
  <2>2. Caller(me, HostRan)'
    <3>1. Caller(m, HostRan')
      BY <1>1
    <3> QED
      BY <3>1 DEF Caller
  <2>3. \A n \in 1 .. HostCalls : n > me'.num => ranNum'[n] = 0
    BY DEF HostInv
  <2> QED
    BY <2>1, <2>2, <2>3 DEF HostInv
<1>4. HostAt = "called" /\ HostAt' = SeenCall(m)
  BY <1>2, HostSeen, SeenHow
<1>5. me.num # 0
  BY <1>2, MeFields DEF Caller
<1>6. /\ m.pc # "idle" => SeenCall(m) = "called"
      /\ m.pc = "idle" => SeenCall(m) = IF m.num = 0 THEN "idle" ELSE m.res
      /\ m.pc = "idle" /\ m.num # 0 => m.res \in {"ok", "fail"}
      /\ m.res = "ok" => HostRan = 1
  BY SeenHow
<1>7. HostAbstractly
  BY <1>1, <1>4, <1>5, <1>6 DEF HostAbstractly
<1> QED
  BY <1>1, <1>3, <1>7

\* A command is run, of this call or of an earlier one.
LEMMA HostRuns ==
    ASSUME HostInv, NEW id \in 1 .. HostCalls, id <= me.num, ranNum[id] = 0, Run(id),
           NEW m \in MeStates, m.num = me.num, m = me \/ (me.pc # "idle" /\ m.pc # "idle"),
           NEW r, r = (IF id = me.num THEN 1 ELSE HostRan), Caller(m, r),
           me' = m, peer' \in PeerStates
    PROVE  /\ HostInv' /\ HostAbstractly /\ HostRan' = r
           /\ ranNum'[id] = 1 /\ \A n \in 1 .. HostCalls : n # id => ranNum'[n] = ranNum[n]
<1>1. /\ me \in MeStates /\ Caller(me, HostRan) /\ me.num <= HostCalls /\ me.num \in Nat
      /\ ranNum \in [1 .. HostCalls -> Nat] /\ me.num # 0 /\ me.num \in 1 .. HostCalls
      /\ HostRan = ranNum[me.num]
  BY MeIs
<1>2. /\ ranNum' \in [1 .. HostCalls -> Nat] /\ ranNum'[id] = 1
      /\ \A n \in 1 .. HostCalls : n # id => ranNum'[n] = ranNum[n]
  BY <1>1 DEF Run
<1>3. HostRan' = r
  BY <1>1, <1>2 DEF HostRan
<1>4. HostInv'
  <2>1. HostTypes'
    BY <1>1, <1>2 DEF HostTypes
  <2>2. Caller(me, HostRan)'
    BY <1>3 DEF Caller
  <2>3. \A n \in 1 .. HostCalls : n > me'.num => ranNum'[n] = 0
    BY <1>1, <1>2 DEF HostInv
  <2> QED
    BY <2>1, <2>2, <2>3 DEF HostInv
<1>5. HostAt = SeenCall(me) /\ HostAt' = SeenCall(m)
  BY HostSeen
<1>6. /\ me.pc # "idle" => SeenCall(me) = "called"
      /\ me.pc = "idle" => SeenCall(me) = IF me.num = 0 THEN "idle" ELSE me.res
      /\ me.pc = "idle" /\ me.num # 0 => me.res \in {"ok", "fail"}
      /\ me.res = "ok" => HostRan = 1
  BY <1>1, SeenHow
<1>7. m.pc # "idle" => SeenCall(m) = "called"
  BY SeenHow
<1>8. HostAt' = HostAt
  BY <1>5, <1>6, <1>7
<1>9. id = me.num => HostAt \in {"called", "fail"} /\ HostRan = 0
  BY <1>1, <1>5, <1>6
<1>10. HostAbstractly
  BY <1>3, <1>8, <1>9 DEF HostAbstractly
<1> QED
  BY <1>2, <1>3, <1>4, <1>10

LEMMA HostSends ==
    ASSUME HostInv, NEW first \in Calling, Send(first)
    PROVE  /\ HostInv' /\ HostAbstractly /\ HostRan' = 0 /\ me.pc = "idle"
           /\ me'.pc = first /\ me'.num = me.num + 1 /\ me'.got = <<>> /\ me' \in MeStates
           /\ UNCHANGED <<fd, peer, ranNum>>
<1> DEFINE m == [me EXCEPT !.pc = first, !.num = me.num + 1, !.got = <<>>, !.res = "none", !.fault = FALSE]
<1>1. me.pc = "idle" /\ me.num < HostCalls /\ UNCHANGED <<fd, peer, ranNum>> /\ me' = m
  BY DEF Send
<1>2. /\ me \in MeStates /\ Caller(me, HostRan) /\ me.num \in Nat /\ HostCalls \in Nat
      /\ ranNum \in [1 .. HostCalls -> Nat] /\ peer \in PeerStates
  BY MeIs
<1>3. first \in Callers /\ first \notin {"idle", "end", "answered", "ack"}
  BY CallerNames
<1>4. /\ m \in MeStates /\ m.pc = first /\ m.num = me.num + 1 /\ m.got = <<>> /\ m.res = "none"
  <2>1. <<>> \in Seq(HostUnits) /\ me.num + 1 \in Nat
    BY <1>2
  <2>2. m \in MeStates
    BY <1>2, <1>3, <2>1 DEF MeStates
  <2>3. m.pc = first /\ m.num = me.num + 1 /\ m.got = <<>> /\ m.res = "none"
    BY <1>2 DEF MeStates
  <2> QED
    BY <2>2, <2>3, Zenon
<1> HIDE DEF m
<1>5. m.num \in 1 .. HostCalls /\ ranNum[m.num] = 0
  BY <1>1, <1>2, <1>4 DEF HostInv
<1>6. HostRan' = 0
  BY <1>1, <1>2, <1>4, <1>5 DEF HostRan
<1>7. HostInv'
  <2>1. HostTypes'
    BY <1>1, <1>2, <1>4, <1>5 DEF HostTypes
  <2>2. Caller(me, HostRan)'
    BY <1>1, <1>3, <1>4, <1>5, <1>6 DEF Caller
  <2>3. \A n \in 1 .. HostCalls : n > me'.num => ranNum'[n] = 0
    BY <1>1, <1>2, <1>4 DEF HostInv
  <2> QED
    BY <2>1, <2>2, <2>3 DEF HostInv
<1>8. HostAt = SeenCall(me) /\ HostAt' = SeenCall(m)
  BY <1>1, HostSeen
<1>9. SeenCall(me) # "called"
  BY <1>1, <1>2, SeenHow
<1>10. SeenCall(m) = "called"
  BY <1>2, <1>3, <1>4 DEF SeenCall
<1> QED
  BY <1>1, <1>4, <1>6, <1>7, <1>8, <1>9, <1>10 DEF HostAbstractly

\* A system call fails.
LEMMA Breaking ==
    ASSUME HostInv, me.pc # "idle", NEW pc \in {"idle", "end"},
           NEW m, m = [me EXCEPT !.pc = pc, !.res = "fail", !.fault = TRUE]
    PROVE  /\ m \in MeStates /\ m.num = me.num /\ m.pc = pc /\ m.res = "fail"
           /\ Caller(m, HostRan)
<1>1. me \in MeStates /\ Caller(me, HostRan)
  BY MeIs
<1>2. m \in MeStates /\ m.num = me.num /\ m.pc = pc /\ m.res = "fail"
  BY <1>1, CallerNames DEF MeStates
<1>3. m.fault
  BY <1>1 DEF MeStates
<1>4. pc \notin Calling
  BY CallerNames
<1>5. me.num > 0 /\ me.num # 0
  BY <1>1, MeFields DEF Caller
<1> QED
  BY <1>2, <1>3, <1>4, <1>5 DEF Caller

\* The function goes on with its next call.
LEMMA Going ==
    ASSUME HostInv, me.pc \notin {"idle", "end"}, NEW pc \in Callers \ {"idle", "end", "answered", "ack"},
           pc \in Calling => HostRan = 0, NEW m, m = [me EXCEPT !.pc = pc]
    PROVE  /\ m \in MeStates /\ m.num = me.num /\ m.pc = pc /\ m.res = "none" /\ m.got = me.got
           /\ m.rspSz = me.rspSz /\ Caller(m, HostRan)
<1>1. me \in MeStates /\ Caller(me, HostRan)
  BY MeIs
<1>2. /\ m \in MeStates /\ m.num = me.num /\ m.pc = pc /\ m.res = me.res /\ m.got = me.got
      /\ m.rspSz = me.rspSz
  BY <1>1 DEF MeStates
<1>3. me.num > 0 /\ me.res = "none"
  BY <1>1 DEF Caller
<1> QED
  BY <1>2, <1>3 DEF Caller

-----------------------------------------------------------------------------
(* The Linux device.                                                       *)

LEMMA ResponseSeq ==
    ASSUME NEW id \in Nat, NEW size \in Nat
    PROVE  /\ Response(id, size) \in Seq(HostUnits) /\ Len(Response(id, size)) = size
           /\ size = 0 <=> Response(id, size) = <<>>
<1>1. Response(id, size) \in Seq(HostUnits) /\ Len(Response(id, size)) = size
  BY DEF Response, Unit, HostUnits
<1>2. size = 0 => Response(id, size) = <<>>
  BY DEF Response
<1> QED
  BY <1>1, <1>2

LEMMA QuietPeer ==
    Quiet \in PeerStates /\ Quiet.got = 0 /\ Quiet.id = 0 /\ Quiet.out = <<>>
<1>1. <<>> \in Seq(HostUnits)
  OBVIOUS
<1> QED
  BY <1>1 DEF Quiet, PeerStates

\* The caller is back, and the kernel keeps what it has or drops it.
LEMMA LinuxBack ==
    ASSUME LinuxKnows(me, peer, ranNum), NEW m, m.pc = "idle", m.num = me.num,
           NEW p, p = peer \/ p = Quiet
    PROVE  LinuxKnows(m, p, ranNum)
<1>1. p = Quiet \/ (Pending(p, ranNum) /\ p.id <= m.num)
  BY DEF LinuxKnows
<1> QED
  BY <1>1 DEF LinuxKnows

LEMMA LinuxCallSteps ==
    ASSUME HostInv, LinuxKnows(me, peer, ranNum), LinuxStep
    PROVE  HostInv' /\ HostAbstractly /\ LinuxKnows(me, peer, ranNum)'
<1>1. /\ me \in MeStates /\ me.num \in Nat /\ me.num <= HostCalls /\ Caller(me, HostRan)
      /\ peer \in PeerStates /\ HostCalls \in Nat /\ AnswerCap \in Nat
      /\ me.num # 0 => me.num \in 1 .. HostCalls /\ HostRan = ranNum[me.num]
  BY MeIs
<1>2. me.pc \in {"open", "write", "poll", "read"} /\ me.pc \notin {"idle", "end"} /\ ranNum' = ranNum
  BY DEF LinuxStep, LinuxOpen, LinuxWrite, LinuxPoll, LinuxRead
<1>3. me.num > 0 /\ me.num \in 1 .. HostCalls /\ HostRan = ranNum[me.num] /\ me.res = "none"
  BY <1>1, <1>2 DEF Caller
<1> DEFINE bad == [me EXCEPT !.pc = "idle", !.res = "fail", !.fault = TRUE]
<1>4. bad \in MeStates /\ bad.num = me.num /\ bad.pc = "idle" /\ Caller(bad, HostRan)
  BY <1>2, Breaking
<1> HIDE DEF bad
<1>5. ASSUME me' = bad, peer' = peer \/ peer' = Quiet
      PROVE  HostInv' /\ HostAbstractly /\ LinuxKnows(me, peer, ranNum)'
  <2>1. peer' \in PeerStates
    BY <1>1, <1>5, QuietPeer
  <2>2. HostInv' /\ HostAbstractly
    BY <1>2, <1>4, <1>5, <2>1, HostMoves
  <2>3. LinuxKnows(bad, peer', ranNum)
    BY <1>4, <1>5, LinuxBack
  <2> QED
    BY <1>2, <1>5, <2>2, <2>3 DEF LinuxKnows, Pending
<1>6. ASSUME NEW m \in MeStates, me' = m, m.num = me.num, Caller(m, HostRan), peer' \in PeerStates,
             LinuxKnows(m, peer', ranNum)
      PROVE  HostInv' /\ HostAbstractly /\ LinuxKnows(me, peer, ranNum)'
  <2>1. HostInv' /\ HostAbstractly
    BY <1>2, <1>6, HostMoves
  <2> QED
    BY <1>2, <1>6, <2>1 DEF LinuxKnows, Pending
<1>7. CASE LinuxOpen
  <2>1. me.pc = "open" /\ peer' = peer
    BY <1>7 DEF LinuxOpen
  <2>2. CASE me' = [me EXCEPT !.pc = "write"]
    <3> DEFINE m == [me EXCEPT !.pc = "write"]
    <3>1. HostRan = 0 /\ "write" \in Callers \ {"idle", "end", "answered", "ack"}
      BY <1>1, <2>1 DEF Caller, Calling, Callers
    <3>2. m \in MeStates /\ m.num = me.num /\ m.pc = "write" /\ Caller(m, HostRan)
      BY <1>2, <3>1, Going
    <3> HIDE DEF m
    <3>3. LinuxKnows(m, peer, ranNum)
      BY <2>1, <3>2 DEF LinuxKnows
    <3> QED
      BY <1>1, <1>6, <2>1, <2>2, <3>2, <3>3 DEF m
  <2>3. CASE Breaks("idle")
    BY <1>5, <2>1, <2>3 DEF Breaks, bad
  <2> QED
    BY <1>7, <2>2, <2>3 DEF LinuxOpen
<1>8. CASE LinuxWrite
  <2>1. me.pc = "write"
    BY <1>8 DEF LinuxWrite
  <2>2. CASE /\ peer = Quiet /\ peer' = [Quiet EXCEPT !.got = Parts, !.id = me.num]
             /\ me' = [me EXCEPT !.pc = "poll"]
    <3> DEFINE m == [me EXCEPT !.pc = "poll"]
    <3>1. HostRan = 0 /\ "poll" \in Callers \ {"idle", "end", "answered", "ack"}
      BY <1>1, <2>1 DEF Caller, Calling, Callers
    <3>2. m \in MeStates /\ m.num = me.num /\ m.pc = "poll" /\ Caller(m, HostRan)
      BY <1>2, <3>1, Going
    <3> HIDE DEF m
    <3>3. peer' \in PeerStates /\ peer'.got = Parts /\ peer'.id = me.num /\ peer'.out = <<>>
      BY <1>1, <2>2, QuietPeer DEF PeerStates, Parts
    <3>4. Pending(peer', ranNum)
      BY <1>3, <3>1, <3>3 DEF Pending
    <3>5. LinuxKnows(m, peer', ranNum)
      BY <1>1, <3>2, <3>3, <3>4 DEF LinuxKnows
    <3> QED
      BY <1>6, <2>2, <3>2, <3>3, <3>5 DEF m
  <2>3. CASE me' = bad /\ peer' = peer
    BY <1>5, <2>3
  <2> QED
    BY <1>8, <2>2, <2>3 DEF LinuxWrite, Breaks, bad
<1>9. CASE LinuxPoll
  <2>1. me.pc = "poll" /\ peer' = peer
    BY <1>9 DEF LinuxPoll
  <2>2. CASE peer.out # <<>> /\ me' = [me EXCEPT !.pc = "read"]
    <3> DEFINE m == [me EXCEPT !.pc = "read"]
    <3>1. "read" \in Callers \ {"idle", "end", "answered", "ack"} /\ "read" \notin Calling
      BY DEF Calling, Callers
    <3>2. m \in MeStates /\ m.num = me.num /\ m.pc = "read" /\ Caller(m, HostRan)
      BY <1>2, <3>1, Going
    <3> HIDE DEF m
    <3>3. LinuxKnows(m, peer, ranNum)
      BY <2>1, <2>2, <3>2 DEF LinuxKnows
    <3> QED
      BY <1>1, <1>6, <2>1, <2>2, <3>2, <3>3 DEF m
  <2>3. CASE Breaks("idle")
    BY <1>5, <2>1, <2>3 DEF Breaks, bad
  <2> QED
    BY <1>9, <2>2, <2>3 DEF LinuxPoll
<1>10. CASE LinuxRead
  <2> DEFINE all == SubSeq(peer.out, 1, IF Len(peer.out) < AnswerCap THEN Len(peer.out) ELSE AnswerCap)
  <2>1. me.pc = "read"
    BY <1>10 DEF LinuxRead
  <2>2. CASE Returns("ok", all) /\ peer' = Quiet
    <3>1. peer.id = me.num /\ peer.out # <<>> /\ peer # Quiet
      BY <1>3, <2>1, QuietPeer DEF LinuxKnows
    <3>2. PICK size \in 1 .. AnswerCap : peer.out = Response(me.num, size) /\ ranNum[me.num] = 1
      BY <3>1 DEF LinuxKnows, Pending
    <3>3. size \in Nat /\ size <= AnswerCap
      BY <1>1
    <3>4. peer.out \in Seq(HostUnits) /\ Len(peer.out) = size
      BY <1>1, <3>2, <3>3, ResponseSeq
    <3>5. all = peer.out
      BY <1>1, <3>3, <3>4
    <3> DEFINE m == [me EXCEPT !.pc = "idle", !.res = "ok", !.got = peer.out]
    <3>6. me' = m
      BY <2>2, <3>5 DEF Returns
    <3>7. m \in MeStates /\ m.pc = "idle" /\ m.num = me.num /\ m.res = "ok" /\ m.got = peer.out
      BY <1>1, <3>4, CallerNames DEF MeStates
    <3> HIDE DEF m, all
    <3>8. m.got = Response(m.num, Len(m.got)) /\ HostRan = 1
      BY <1>3, <3>2, <3>4, <3>7
    <3>9. Caller(m, HostRan)
      BY <1>3, <3>7, <3>8, CallerNames DEF Caller
    <3>10. LinuxKnows(m, peer', ranNum)
      BY <2>2, <3>7, LinuxBack
    <3>11. peer' \in PeerStates
      BY <2>2, QuietPeer
    <3> QED
      BY <1>6, <3>6, <3>7, <3>9, <3>10, <3>11
  <2>3. CASE Breaks("idle") /\ peer' \in {peer, Quiet}
    BY <1>5, <2>3 DEF Breaks, bad
  <2> QED
    BY <1>10, <2>2, <2>3 DEF LinuxRead
<1> QED
  BY <1>7, <1>8, <1>9, <1>10 DEF LinuxStep

LEMMA LinuxKeeps ==
    ASSUME HostInv, LinuxKnows(me, peer, ranNum), LinuxNext
    PROVE  HostInv' /\ HostAbstractly /\ LinuxKnows(me, peer, ranNum)'
<1>1. /\ me \in MeStates /\ me.num \in Nat /\ me.num <= HostCalls /\ Caller(me, HostRan)
      /\ peer \in PeerStates /\ HostCalls \in Nat /\ AnswerCap \in Nat
      /\ me.num # 0 => me.num \in 1 .. HostCalls /\ HostRan = ranNum[me.num]
  BY MeIs
<1>2. CASE Send("open")
  <2>1. "open" \in Calling
    BY DEF Calling
  <2>2. /\ HostInv' /\ HostAbstractly /\ me'.pc = "open" /\ me'.num = me.num + 1
        /\ peer' = peer /\ ranNum' = ranNum
    BY <1>2, <2>1, HostSends
  <2>3. peer = Quiet \/ (Pending(peer, ranNum) /\ peer.id <= me.num)
    BY DEF LinuxKnows
  <2>4. peer.id \in Nat /\ peer.id # me.num + 1 /\ peer.id <= me.num + 1
    BY <1>1, <2>3, QuietPeer DEF PeerStates
  <2>5. LinuxKnows(me', peer, ranNum)
    BY <2>2, <2>3, <2>4 DEF LinuxKnows
  <2> QED
    BY <2>2, <2>5 DEF LinuxKnows, Pending
<1>3. CASE LinuxStep
  BY <1>3, LinuxCallSteps
<1>4. CASE PeerRuns(1 .. AnswerCap)
  <2> DEFINE id == peer.id
  <2>1. /\ peer.got = Parts /\ peer.out = <<>> /\ Run(id) /\ me' = me
        /\ \E size \in 1 .. AnswerCap : peer' = [peer EXCEPT !.out = Response(id, size)]
    BY <1>4 DEF PeerRuns
  <2>2. PICK size \in 1 .. AnswerCap : peer' = [peer EXCEPT !.out = Response(id, size)]
    BY <2>1
  <2>3. peer # Quiet
    BY <2>1, QuietPeer DEF Parts
  <2>4. Pending(peer, ranNum) /\ id <= me.num
    BY <2>3 DEF LinuxKnows
  <2>5. id \in 1 .. HostCalls /\ id \in Nat
    BY <2>4 DEF Pending
  <2>6. ASSUME NEW n \in Nat
        PROVE  n # 0 => Response(id, n) # <<>>
    BY <2>5, ResponseSeq
  <2>7. ranNum[id] = 0
    <3>1. \A n \in 1 .. AnswerCap : peer.out # Response(id, n)
      BY <2>1, <2>6
    <3> QED
      BY <2>4, <3>1 DEF Pending
  <2>8. size \in Nat /\ size # 0
    BY <1>1
  <2>9. Response(id, size) \in Seq(HostUnits) /\ Response(id, size) # <<>>
    BY <2>5, <2>6, <2>8, ResponseSeq
  <2>10. /\ peer' \in PeerStates /\ peer'.got = Parts /\ peer'.id = id /\ peer'.out = Response(id, size)
    BY <1>1, <2>1, <2>2, <2>9 DEF PeerStates
  <2> DEFINE r == IF id = me.num THEN 1 ELSE HostRan
  <2>11. Caller(me, r)
    <3>1. CASE id = me.num
      <4>1. me.num > 0 /\ HostRan = 0 /\ r = 1
        BY <1>1, <2>5, <2>7, <3>1
      <4>2. me.pc \notin Calling
        BY <3>1 DEF LinuxKnows, Calling
      <4>3. me.pc \notin {"ack", "answered"} /\ me.res \notin {"ok", "acked"}
        BY <1>1, <4>1 DEF Caller
      <4> HIDE DEF r
      <4> QED
        BY <1>1, <4>1, <4>2, <4>3 DEF Caller
    <3>2. CASE id # me.num
      BY <1>1, <3>2
    <3> QED
      BY <3>1, <3>2
  <2> HIDE DEF r
  <2>12. r = IF id = me.num THEN 1 ELSE HostRan
    BY DEF r
  <2> HIDE DEF id
  <2>13. HostInv' /\ HostAbstractly /\ ranNum'[id] = 1
    BY <1>1, <2>1, <2>4, <2>5, <2>7, <2>10, <2>11, <2>12, HostRuns
  <2>14. Pending(peer, ranNum)'
    BY <2>5, <2>10, <2>13 DEF Pending
  <2>15. LinuxKnows(me, peer, ranNum)'
    BY <2>1, <2>4, <2>9, <2>10, <2>14 DEF LinuxKnows, id
  <2> QED
    BY <2>13, <2>15
<1>5. CASE KernelDrops
  <2>1. me' = me /\ ranNum' = ranNum /\ peer' = Quiet /\ me.pc = "idle"
    BY <1>5 DEF KernelDrops
  <2>2. HostRan' = HostRan /\ HostAt' = HostAt
    BY <2>1, HostSeen DEF HostRan
  <2>3. HostInv'
    BY <2>1, <2>2, QuietPeer DEF HostInv, HostTypes, Caller
  <2>4. LinuxKnows(me, Quiet, ranNum)
    BY <2>1, LinuxBack
  <2>5. LinuxKnows(me, peer, ranNum)'
    BY <2>1, <2>4 DEF LinuxKnows, Pending
  <2> QED
    BY <2>2, <2>3, <2>5 DEF HostAbstractly
<1> QED
  BY <1>2, <1>3, <1>4, <1>5 DEF LinuxNext

-----------------------------------------------------------------------------
(* The simulator.                                                          *)

\* The call goes on or ends; the command is not run.
LEMMA SwTpmMoves ==
    ASSUME HostInv, me.pc # "idle", NEW m \in MeStates, m.num = me.num, Caller(m, HostRan), me' = m,
           ranNum' = ranNum, peer' \in PeerStates, SwTpmKnows(m, peer', fd', HostRan)
    PROVE  HostInv' /\ HostAbstractly /\ SwTpmKnows(me, peer, fd, HostRan)'
<1>1. HostInv' /\ HostAbstractly /\ HostRan' = HostRan
  BY HostMoves
<1>2. SwTpmKnows(me, peer, fd, HostRan)'
  BY <1>1 DEF SwTpmKnows, SizeDue, BodyDue
<1> QED
  BY <1>1, <1>2

\* A system call fails, and the connection is closed next.
LEMMA SwTpmBreaks ==
    ASSUME HostInv, SwTpmKnows(me, peer, fd, HostRan), me.pc \notin {"idle", "connect"},
           me' = [me EXCEPT !.pc = "end", !.res = "fail", !.fault = TRUE], peer' = peer,
           ranNum' = ranNum
    PROVE  HostInv' /\ HostAbstractly /\ SwTpmKnows(me, peer, fd, HostRan)'
<1> DEFINE m == [me EXCEPT !.pc = "end", !.res = "fail", !.fault = TRUE]
<1>1. m \in MeStates /\ m.num = me.num /\ m.pc = "end" /\ Caller(m, HostRan)
  BY Breaking
<1>2. peer.got = Parts => peer.id = me.num
  BY DEF SwTpmKnows
<1> HIDE DEF m
<1>3. SwTpmKnows(m, peer', fd', HostRan)
  BY <1>1, <1>2 DEF SwTpmKnows
<1>4. peer' \in PeerStates /\ me' = m
  BY MeIs DEF m
<1> QED
  BY <1>1, <1>3, <1>4, SwTpmMoves

LEMMA SwTpmOpens ==
    ASSUME HostInv, SwTpmKnows(me, peer, fd, HostRan), SwTpmConnect
    PROVE  HostInv' /\ HostAbstractly /\ SwTpmKnows(me, peer, fd, HostRan)'
<1>1. me.pc = "connect" /\ ranNum' = ranNum
  BY DEF SwTpmConnect
<1>2. fd = "none" /\ peer = Quiet /\ me.got = <<>>
  BY <1>1 DEF SwTpmKnows
<1>3. CASE peer' = Quiet /\ me' = [me EXCEPT !.pc = "send"]
  <2> DEFINE m == [me EXCEPT !.pc = "send"]
  <2>1. HostRan = 0 /\ "send" \in Callers \ {"idle", "end", "answered", "ack"}
    BY <1>1, MeIs DEF Caller, Calling, Callers
  <2>2. m \in MeStates /\ m.num = me.num /\ m.pc = "send" /\ m.got = me.got /\ Caller(m, HostRan)
    BY <1>1, <2>1, Going
  <2>3. me' = m
    BY <1>3
  <2> HIDE DEF m
  <2>4. peer' \in PeerStates /\ peer'.got = 0 /\ peer'.out = <<>>
    BY <1>3, QuietPeer
  <2>5. SwTpmKnows(m, peer', fd', HostRan)
    BY <1>2, <2>2, <2>4 DEF SwTpmKnows, Parts
  <2> QED
    BY <1>1, <2>2, <2>3, <2>4, <2>5, SwTpmMoves
<1>4. CASE Breaks("idle") /\ UNCHANGED <<fd, peer>>
  <2> DEFINE m == [me EXCEPT !.pc = "idle", !.res = "fail", !.fault = TRUE]
  <2>1. m \in MeStates /\ m.num = me.num /\ m.pc = "idle" /\ Caller(m, HostRan)
    BY <1>1, Breaking
  <2>2. me' = m /\ peer' = peer /\ fd' = fd
    BY <1>4 DEF Breaks
  <2> HIDE DEF m
  <2>3. peer' \in PeerStates
    BY <2>2, MeIs
  <2>4. SwTpmKnows(m, peer', fd', HostRan)
    BY <1>2, <2>1, <2>2, QuietPeer DEF SwTpmKnows, Parts
  <2> QED
    BY <1>1, <2>1, <2>2, <2>3, <2>4, SwTpmMoves
<1> QED
  BY <1>2, <1>3, <1>4 DEF SwTpmConnect

LEMMA SwTpmSends ==
    ASSUME HostInv, SwTpmKnows(me, peer, fd, HostRan), SwTpmTransmit
    PROVE  HostInv' /\ HostAbstractly /\ SwTpmKnows(me, peer, fd, HostRan)'
<1>1. me.pc = "send" /\ ranNum' = ranNum
  BY DEF SwTpmTransmit
<1>2. /\ me \in MeStates /\ me.num \in Nat /\ Caller(me, HostRan) /\ peer \in PeerStates
      /\ peer.got \in Nat /\ peer.got < Parts /\ peer.out = <<>> /\ me.got = <<>> /\ HostRan = 0
  BY <1>1, MeIs DEF SwTpmKnows, PeerStates, Caller, Calling
<1>3. CASE /\ peer' = [peer EXCEPT !.got = IF @ = Parts THEN 1 ELSE @ + 1, !.id = me.num]
           /\ me' = [me EXCEPT !.pc = IF peer'.got = Parts THEN "recvSize" ELSE "send"]
  <2>1. /\ peer' \in PeerStates /\ peer'.got = peer.got + 1 /\ peer'.id = me.num
        /\ peer'.out = <<>>
    <3>1. (IF peer.got = Parts THEN 1 ELSE peer.got + 1) = peer.got + 1
      BY <1>2 DEF Parts
    <3>2. peer' = [peer EXCEPT !.got = peer.got + 1, !.id = me.num]
      BY <1>3, <3>1
    <3>3. peer.got + 1 \in Nat
      BY <1>2
    <3> QED
      BY <1>2, <3>2, <3>3 DEF PeerStates
  <2> DEFINE pc == IF peer'.got = Parts THEN "recvSize" ELSE "send"
             m == [me EXCEPT !.pc = pc]
  <2>2. pc \in Callers \ {"idle", "end", "answered", "ack"}
    BY DEF Callers, Calling
  <2>3. pc = "recvSize" <=> peer'.got = Parts
    OBVIOUS
  <2>4. pc \in {"recvSize", "send"}
    OBVIOUS
  <2>5. me' = m
    BY <1>3
  <2> HIDE DEF pc
  <2>6. m \in MeStates /\ m.num = me.num /\ m.pc = pc /\ m.got = me.got /\ Caller(m, HostRan)
    BY <1>1, <1>2, <2>2, Going
  <2> HIDE DEF m
  <2>7. SizeDue(m, peer', HostRan) \/ pc = "send"
    BY <1>2, <2>1, <2>3, <2>4, <2>6 DEF SizeDue
  <2>8. pc = "send" => peer'.got < Parts
    BY <1>2, <2>1, <2>3 DEF Parts
  <2>9. SwTpmKnows(m, peer', fd', HostRan)
    BY <1>2, <2>1, <2>4, <2>6, <2>7, <2>8 DEF SwTpmKnows
  <2> QED
    BY <1>1, <2>1, <2>5, <2>6, <2>9, SwTpmMoves
<1>4. CASE Breaks("end") /\ UNCHANGED peer
  BY <1>1, <1>4, SwTpmBreaks DEF Breaks
<1> QED
  BY <1>3, <1>4 DEF SwTpmTransmit

LEMMA SwTpmSizes ==
    ASSUME HostInv, SwTpmKnows(me, peer, fd, HostRan), SwTpmReceiveSize
    PROVE  HostInv' /\ HostAbstractly /\ SwTpmKnows(me, peer, fd, HostRan)'
<1>1. me.pc = "recvSize" /\ ranNum' = ranNum /\ peer' = peer
  BY DEF SwTpmReceiveSize
<1>2. /\ me \in MeStates /\ me.num \in Nat /\ Caller(me, HostRan) /\ peer \in PeerStates /\ AnswerCap \in Nat
      /\ SizeDue(me, peer, HostRan)
  BY <1>1, MeIs DEF SwTpmKnows
<1>3. CASE /\ peer.out # <<>>
           /\ me' = IF Len(peer.out) > AnswerCap
                    THEN [me EXCEPT !.pc = "end", !.res = "fail", !.fault = TRUE]
                    ELSE [me EXCEPT !.pc = "recvBody", !.rspSz = Len(peer.out)]
  <2>1. PICK size \in 1 .. AnswerCap + 1 : peer.out = Response(me.num, size)
    BY <1>2, <1>3 DEF SizeDue
  <2>2. HostRan = 1 /\ peer.got = Parts /\ peer.id = me.num /\ me.got = <<>>
    BY <1>2, <1>3 DEF SizeDue
  <2>3. size \in Nat /\ size > 0
    BY <1>2
  <2> DEFINE a == Response(me.num, size)
  <2>4. a \in Seq(HostUnits) /\ Len(a) = size
    BY <1>2, <2>3, ResponseSeq
  <2>5. Taken(a, 0) = <<>> /\ Left(a, 0) = a
    BY <2>3, <2>4, FirstOf
  <2>6. CASE size > AnswerCap
    BY <1>1, <1>3, <2>1, <2>4, <2>6, SwTpmBreaks
  <2>7. CASE ~(size > AnswerCap)
    <3> DEFINE m == [me EXCEPT !.pc = "recvBody", !.rspSz = size]
    <3>1. me' = m
      BY <1>3, <2>1, <2>4, <2>7
    <3>2. m \in MeStates /\ m.num = me.num /\ m.pc = "recvBody" /\ m.rspSz = size /\ m.got = <<>>
      BY <1>2, <2>2, <2>3 DEF MeStates, Callers
    <3>3. m.res = me.res
      BY <1>2 DEF MeStates
    <3>4. me.res = "none" /\ me.num > 0
      BY <1>1, <1>2 DEF Caller
    <3> HIDE DEF m
    <3>5. Caller(m, HostRan)
      BY <3>2, <3>3, <3>4 DEF Caller, Calling
    <3>6. BodyDue(m, peer', HostRan)
      <4>1. /\ 0 \in Nat /\ 0 < m.rspSz /\ m.got = Taken(Response(m.num, m.rspSz), 0)
            /\ peer'.out = Left(Response(m.num, m.rspSz), 0)
        BY <1>1, <2>1, <2>3, <2>5, <3>2
      <4> QED
        BY <1>1, <2>2, <3>2, <4>1 DEF BodyDue
    <3>7. SwTpmKnows(m, peer', fd', HostRan)
      BY <1>1, <2>2, <3>2, <3>6 DEF SwTpmKnows
    <3> QED
      BY <1>1, <1>2, <3>1, <3>2, <3>5, <3>7, SwTpmMoves
  <2> QED
    BY <2>6, <2>7
<1>4. CASE Breaks("end")
  BY <1>1, <1>4, SwTpmBreaks DEF Breaks
<1> QED
  BY <1>3, <1>4 DEF SwTpmReceiveSize

LEMMA MoreTaken ==
    ASSUME NEW a \in Seq(HostUnits), NEW pos \in 0 .. Len(a), NEW n, n \in 0 .. Len(a) - pos
    PROVE  /\ Taken(a, pos) \o SubSeq(Left(a, pos), 1, n) = Taken(a, pos + n)
           /\ SubSeq(Left(a, pos), n + 1, Len(Left(a, pos))) = Left(a, pos + n)
BY TakeMore

LEMMA SwTpmReads ==
    ASSUME HostInv, SwTpmKnows(me, peer, fd, HostRan), SwTpmReceive
    PROVE  HostInv' /\ HostAbstractly /\ SwTpmKnows(me, peer, fd, HostRan)'
<1>1. me.pc = "recvBody" /\ ranNum' = ranNum
  BY DEF SwTpmReceive
<1>2. /\ me \in MeStates /\ me.num \in Nat /\ Caller(me, HostRan) /\ peer \in PeerStates /\ me.rspSz \in Nat
      /\ peer.got = Parts /\ peer.id = me.num /\ HostRan = 1 /\ BodyDue(me, peer, HostRan)
  BY <1>1, MeIs, MeFields DEF SwTpmKnows, BodyDue
<1> DEFINE a == Response(me.num, me.rspSz)
<1>3. a \in Seq(HostUnits) /\ Len(a) = me.rspSz
  BY <1>2, ResponseSeq
<1>4. PICK pos \in Nat : pos < me.rspSz /\ me.got = Taken(a, pos) /\ peer.out = Left(a, pos)
  BY <1>2 DEF BodyDue
<1>5. pos \in 0 .. Len(a)
  BY <1>2, <1>3, <1>4
<1>6. ASSUME NEW n \in 1 .. me.rspSz - Len(me.got),
             me' = [me EXCEPT !.got = @ \o SubSeq(peer.out, 1, n),
                              !.pc = IF Len(me.got) + n = me.rspSz THEN "ack" ELSE "recvBody"],
             peer' = [peer EXCEPT !.out = SubSeq(@, n + 1, Len(@))]
      PROVE  HostInv' /\ HostAbstractly /\ SwTpmKnows(me, peer, fd, HostRan)'
  <2> HIDE DEF a
  <2>1. Len(me.got) = pos
    <3>1. 0 \in 0 .. Len(a) - pos
      BY <1>2, <1>3, <1>5
    <3> QED
      BY <1>3, <1>4, <1>5, <3>1, TakeMore
  <2>2. n \in 0 .. Len(a) - pos /\ n \in Nat /\ n > 0 /\ pos + n <= me.rspSz
    BY <1>2, <1>3, <1>4, <1>6, <2>1
  <2>3. /\ Taken(a, pos) \o SubSeq(Left(a, pos), 1, n) = Taken(a, pos + n)
        /\ SubSeq(Left(a, pos), n + 1, Len(Left(a, pos))) = Left(a, pos + n)
    <3>1. a \in Seq(HostUnits) /\ pos \in 0 .. Len(a) /\ n \in 0 .. Len(a) - pos
      BY <1>3, <1>5, <2>2
    <3> QED
      BY <3>1, MoreTaken
  <2>4. pos + n \in 0 .. Len(a) /\ 0 \in 0 .. Len(a) - (pos + n)
    BY <1>2, <1>3, <1>5, <2>2
  <2>5. /\ Left(a, pos + n) \in Seq(HostUnits) /\ Taken(a, pos + n) \in Seq(HostUnits)
        /\ Len(Taken(a, pos + n)) = pos + n
    BY <1>3, <2>4, TakeMore
  <2> DEFINE pc == IF pos + n = me.rspSz THEN "ack" ELSE "recvBody"
             got == Taken(a, pos + n)
             m == [me EXCEPT !.got = got, !.pc = pc]
  <2>6. pc \in {"ack", "recvBody"} /\ pc \in Callers
    BY DEF Callers
  <2>7. pc = "ack" <=> pos + n = me.rspSz
    OBVIOUS
  <2>8. me' = m
    BY <1>4, <1>6, <2>1, <2>3
  <2>9. got \in Seq(HostUnits) /\ Len(got) = pos + n
    BY <2>5
  <2>10. pos + n = me.rspSz => got = a
    BY <1>2, <1>3, <1>4, FirstOf
  <2>11. peer' \in PeerStates /\ peer'.got = Parts /\ peer'.id = me.num /\ peer'.out = Left(a, pos + n)
    <3>1. peer' = [peer EXCEPT !.out = Left(a, pos + n)]
      BY <1>4, <1>6, <2>3
    <3> QED
      BY <1>2, <2>5, <3>1 DEF PeerStates
  <2>12. got = Taken(a, pos + n)
    OBVIOUS
  <2> HIDE DEF pc, got
  <2>13. /\ m \in MeStates /\ m.num = me.num /\ m.pc = pc /\ m.got = got /\ m.rspSz = me.rspSz
    BY <1>2, <2>6, <2>9 DEF MeStates
  <2>14. m.res = me.res
    BY <1>2 DEF MeStates
  <2>15. me.res = "none" /\ me.num > 0
    BY <1>1, <1>2 DEF Caller
  <2> HIDE DEF m
  <2>16. m.pc = "ack" => m.got = Response(m.num, Len(m.got))
    BY <1>2, <2>7, <2>9, <2>10, <2>13 DEF a
  <2>17. Caller(m, HostRan)
    BY <1>2, <2>6, <2>13, <2>14, <2>15, <2>16 DEF Caller, Calling
  <2>18. pc = "recvBody" => BodyDue(m, peer', HostRan)
    <3> SUFFICES ASSUME pc = "recvBody" PROVE BodyDue(m, peer', HostRan)
      OBVIOUS
    <3>1. pos + n < m.rspSz /\ pos + n \in Nat
      BY <1>2, <2>2, <2>7, <2>13
    <3>2. m.got = Taken(Response(m.num, m.rspSz), pos + n) /\ peer'.out = Left(Response(m.num, m.rspSz), pos + n)
      BY <2>11, <2>12, <2>13 DEF a
    <3> QED
      BY <1>2, <2>11, <2>13, <3>1, <3>2 DEF BodyDue
  <2>19. SwTpmKnows(m, peer', fd', HostRan)
    BY <2>6, <2>11, <2>13, <2>18 DEF SwTpmKnows
  <2> QED
    BY <1>1, <2>8, <2>11, <2>13, <2>17, <2>19, SwTpmMoves
<1>7. CASE Breaks("end") /\ UNCHANGED peer
  BY <1>1, <1>7, SwTpmBreaks DEF Breaks
<1> QED
  BY <1>6, <1>7 DEF SwTpmReceive

LEMMA SwTpmEnds ==
    ASSUME HostInv, SwTpmKnows(me, peer, fd, HostRan), SwTpmAck \/ SwTpmDisconnect
    PROVE  HostInv' /\ HostAbstractly /\ SwTpmKnows(me, peer, fd, HostRan)'
<1>1. me \in MeStates /\ me.num \in Nat /\ Caller(me, HostRan) /\ peer \in PeerStates
  BY MeIs
<1>2. CASE SwTpmAck
  <2>1. me.pc = "ack" /\ peer' = peer /\ ranNum' = ranNum
    BY <1>2 DEF SwTpmAck
  <2>2. CASE me' = [me EXCEPT !.pc = "end", !.res = "acked"]
    <3> DEFINE m == [me EXCEPT !.pc = "end", !.res = "acked"]
    <3>1. m \in MeStates /\ m.num = me.num /\ m.pc = "end" /\ m.got = me.got /\ m.res = "acked"
      BY <1>1 DEF MeStates, Callers
    <3>2. me.num > 0 /\ HostRan = 1 /\ me.got = Response(me.num, Len(me.got))
      BY <1>1, <2>1 DEF Caller
    <3>3. me' = m
      BY <2>2
    <3> HIDE DEF m
    <3>4. Caller(m, HostRan)
      BY <3>1, <3>2 DEF Caller, Calling
    <3>5. SwTpmKnows(m, peer', fd', HostRan)
      BY <2>1, <3>1 DEF SwTpmKnows
    <3> QED
      BY <1>1, <2>1, <3>1, <3>3, <3>4, <3>5, SwTpmMoves
  <2>3. CASE Breaks("end")
    BY <2>1, <2>3, SwTpmBreaks DEF Breaks
  <2> QED
    BY <1>2, <2>2, <2>3 DEF SwTpmAck
<1>3. CASE SwTpmDisconnect
  <2>1. me.pc = "end" /\ peer' = Quiet /\ ranNum' = ranNum /\ fd' = "none"
    BY <1>3 DEF SwTpmDisconnect
  <2>2. peer' \in PeerStates /\ peer'.got # Parts
    BY <2>1, QuietPeer DEF Parts
  <2>3. CASE me' = [me EXCEPT !.pc = "idle", !.res = IF @ = "acked" THEN "ok" ELSE @]
    <3> DEFINE res == IF me.res = "acked" THEN "ok" ELSE me.res
               m == [me EXCEPT !.pc = "idle", !.res = res]
    <3>1. me.res \in {"fail", "acked"} /\ me.num > 0
      BY <1>1, <2>1 DEF Caller
    <3>2. /\ res \in {"fail", "ok"} /\ (res = "ok" => me.res = "acked") /\ (res = "fail" => me.res = "fail")
      BY <3>1
    <3>3. me' = m
      BY <2>3
    <3> HIDE DEF res
    <3>4. m \in MeStates /\ m.num = me.num /\ m.pc = "idle" /\ m.got = me.got /\ m.res = res
      BY <1>1, <3>2 DEF MeStates, Callers
    <3>5. m.fault = me.fault
      BY <1>1 DEF MeStates
    <3>6. res = "fail" => me.fault
      BY <1>1, <3>2 DEF Caller
    <3>7. res = "ok" => HostRan = 1 /\ me.got = Response(me.num, Len(me.got))
      BY <1>1, <3>2 DEF Caller
    <3> HIDE DEF m
    <3>8. Caller(m, HostRan)
      <4>1. m.res = "fail" => m.fault
        BY <3>4, <3>5, <3>6
      <4>2. m.res = "ok" => m.got = Response(m.num, Len(m.got)) /\ HostRan = 1
        BY <3>4, <3>7
      <4>3. m.res \in {"fail", "ok"} /\ m.num > 0 /\ m.pc = "idle"
        BY <3>1, <3>2, <3>4
      <4> QED
        BY <4>1, <4>2, <4>3 DEF Caller, Calling
    <3>9. SwTpmKnows(m, peer', fd', HostRan)
      BY <2>1, <2>2, <3>4 DEF SwTpmKnows
    <3> QED
      BY <2>1, <2>2, <3>3, <3>4, <3>8, <3>9, SwTpmMoves
  <2>4. CASE Breaks("idle")
    <3> DEFINE m == [me EXCEPT !.pc = "idle", !.res = "fail", !.fault = TRUE]
    <3>1. m \in MeStates /\ m.num = me.num /\ m.pc = "idle" /\ Caller(m, HostRan)
      BY <2>1, Breaking
    <3>2. me' = m
      BY <2>4 DEF Breaks
    <3> HIDE DEF m
    <3>3. SwTpmKnows(m, peer', fd', HostRan)
      BY <2>1, <2>2, <3>1 DEF SwTpmKnows
    <3> QED
      BY <2>1, <2>2, <3>1, <3>2, <3>3, SwTpmMoves
  <2> QED
    BY <1>3, <2>3, <2>4 DEF SwTpmDisconnect
<1> QED
  BY <1>2, <1>3

LEMMA SimulatorRuns ==
    ASSUME HostInv, SwTpmKnows(me, peer, fd, HostRan), SwTpmRuns
    PROVE  HostInv' /\ HostAbstractly /\ SwTpmKnows(me, peer, fd, HostRan)'
<1>1. /\ me \in MeStates /\ me.num \in Nat /\ Caller(me, HostRan) /\ peer \in PeerStates /\ AnswerCap \in Nat
      /\ me.num # 0 => me.num \in 1 .. HostCalls /\ HostRan = ranNum[me.num]
  BY MeIs
<1> DEFINE id == me.num
<1>2. peer.got = Parts /\ peer.out = <<>> /\ me' = me
  BY DEF SwTpmRuns, PeerRuns
<1>3. me.pc \notin {"idle", "connect", "send"} /\ peer.id = id
  BY <1>2, QuietPeer DEF SwTpmKnows, Parts
<1>4. id \in 1 .. HostCalls /\ id # 0 /\ HostRan = ranNum[id]
  BY <1>1, <1>3 DEF Caller
<1>5. /\ HostRan = 0 /\ ranNum[id] = 0 /\ Run(id)
      /\ \E size \in 1 .. AnswerCap + 1 : peer' = [peer EXCEPT !.out = Response(id, size)]
  BY <1>3, <1>4 DEF SwTpmRuns, PeerRuns
<1>6. PICK size \in 1 .. AnswerCap + 1 : peer' = [peer EXCEPT !.out = Response(id, size)]
  BY <1>5
<1>7. Response(id, size) \in Seq(HostUnits)
  BY <1>1, ResponseSeq
<1>8. peer' \in PeerStates /\ peer'.got = Parts /\ peer'.id = id /\ peer'.out = Response(id, size)
  BY <1>1, <1>2, <1>3, <1>6, <1>7 DEF PeerStates
<1>9. me.pc \in {"recvSize", "end"} /\ me.res \notin {"ok", "acked"}
  BY <1>1, <1>3, <1>5 DEF SwTpmKnows, BodyDue, Caller
<1>10. Caller(me, 1)
  BY <1>1, <1>4, <1>9 DEF Caller, Calling
<1>11. HostInv' /\ HostAbstractly /\ HostRan' = 1
  <2> DEFINE r == 1
  <2>1. r = (IF id = me.num THEN 1 ELSE HostRan) /\ Caller(me, r) /\ id <= me.num
    BY <1>1, <1>10
  <2> HIDE DEF r
  <2>2. HostInv' /\ HostAbstractly /\ HostRan' = r
    BY <1>1, <1>2, <1>4, <1>5, <1>8, <2>1, HostRuns
  <2> QED
    BY <2>2 DEF r
<1>12. me.pc = "recvSize" => SizeDue(me, peer', 1)
  <2> SUFFICES ASSUME me.pc = "recvSize" PROVE SizeDue(me, peer', 1)
    OBVIOUS
  <2>1. me.got = <<>>
    BY DEF SwTpmKnows, SizeDue
  <2> QED
    BY <1>8, <2>1 DEF SizeDue
<1>13. SwTpmKnows(me, peer', fd', 1)
  BY <1>8, <1>9, <1>12 DEF SwTpmKnows
<1>14. SwTpmKnows(me, peer, fd, HostRan)'
  BY <1>2, <1>11, <1>13 DEF SwTpmKnows, SizeDue, BodyDue
<1> QED
  BY <1>11, <1>14

LEMMA SwTpmKeeps ==
    ASSUME HostInv, SwTpmKnows(me, peer, fd, HostRan), SwTpmNext
    PROVE  HostInv' /\ HostAbstractly /\ SwTpmKnows(me, peer, fd, HostRan)'
<1>1. CASE Send("connect")
  <2>1. "connect" \in Calling
    BY DEF Calling
  <2>2. /\ HostInv' /\ HostAbstractly /\ me.pc = "idle" /\ me'.pc = "connect" /\ me'.got = <<>>
        /\ UNCHANGED <<fd, peer, ranNum>>
    BY <1>1, <2>1, HostSends
  <2>3. fd = "none" /\ peer = Quiet /\ peer.got # Parts
    BY <2>2, QuietPeer DEF SwTpmKnows, Parts
  <2>4. SwTpmKnows(me, peer, fd, HostRan)'
    BY <2>2, <2>3 DEF SwTpmKnows, Quiet
  <2> QED
    BY <2>2, <2>4
<1>2. CASE SwTpmStep
  BY <1>2, SwTpmOpens, SwTpmSends, SwTpmSizes, SwTpmReads, SwTpmEnds DEF SwTpmStep
<1>3. CASE SwTpmRuns
  BY <1>3, SimulatorRuns
<1> QED
  BY <1>1, <1>2, <1>3 DEF SwTpmNext

-----------------------------------------------------------------------------
(* Windows and U-Boot: the system runs the command within the call.        *)

LEMMA WinApiMoves ==
    ASSUME HostInv, me.pc # "idle", NEW m \in MeStates, m.num = me.num, Caller(m, HostRan), me' = m,
           UNCHANGED <<peer, ranNum>>, WinApiKnows(m)
    PROVE  HostInv' /\ HostAbstractly /\ WinApiKnows(me)'
<1>1. peer' \in PeerStates
  BY MeIs
<1>2. HostInv' /\ HostAbstractly
  BY <1>1, HostMoves
<1> QED
  BY <1>2 DEF WinApiKnows

LEMMA WinApiBreaks ==
    ASSUME HostInv, me.pc # "idle", Breaks("idle"), UNCHANGED <<peer, ranNum>>
    PROVE  HostInv' /\ HostAbstractly /\ WinApiKnows(me)'
<1> DEFINE m == [me EXCEPT !.pc = "idle", !.res = "fail", !.fault = TRUE]
<1>1. m \in MeStates /\ m.num = me.num /\ m.pc = "idle" /\ Caller(m, HostRan)
  BY Breaking
<1>2. me' = m
  BY DEF Breaks
<1> HIDE DEF m
<1>3. WinApiKnows(m)
  BY <1>1 DEF WinApiKnows
<1> QED
  BY <1>1, <1>2, <1>3, WinApiMoves

LEMMA WinApiSends ==
    ASSUME HostInv, NEW first \in {"context", "submit"}, Send(first)
    PROVE  HostInv' /\ HostAbstractly /\ WinApiKnows(me)'
<1>1. first \in Calling
  BY DEF Calling
<1>2. HostInv' /\ HostAbstractly /\ me'.pc = first
  BY <1>1, HostSends
<1> QED
  BY <1>2 DEF WinApiKnows

LEMMA Submits ==
    ASSUME HostInv, WinApiKnows(me), Submission
    PROVE  HostInv' /\ HostAbstractly /\ WinApiKnows(me)'
<1>1. /\ me \in MeStates /\ me.num \in Nat /\ Caller(me, HostRan) /\ peer \in PeerStates /\ AnswerCap \in Nat
      /\ me.num # 0 => me.num \in 1 .. HostCalls /\ HostRan = ranNum[me.num]
  BY MeIs
<1>2. CASE Submit
  <2>1. me.pc = "submit" /\ peer' = peer
    BY <1>2 DEF Submit
  <2>2. me.num \in 1 .. HostCalls /\ HostRan = 0 /\ ranNum[me.num] = 0 /\ me.res = "none" /\ me.num > 0
    BY <1>1, <2>1 DEF Caller, Calling
  <2>3. ASSUME Run(me.num), NEW size \in 1 .. AnswerCap,
               me' = [me EXCEPT !.pc = "answered", !.got = Response(me.num, size)]
        PROVE  HostInv' /\ HostAbstractly /\ WinApiKnows(me)'
    <3> DEFINE got == Response(me.num, size)
               m == [me EXCEPT !.pc = "answered", !.got = got]
               r == 1
    <3>1. size \in Nat
      BY <1>1
    <3>2. got \in Seq(HostUnits) /\ Len(got) = size
      BY <1>1, <3>1, ResponseSeq
    <3>3. me' = m
      BY <2>3
    <3> HIDE DEF got
    <3>4. m \in MeStates /\ m.num = me.num /\ m.pc = "answered" /\ m.got = got /\ m.res = me.res
      BY <1>1, <3>2 DEF MeStates, Callers
    <3> HIDE DEF m
    <3>5. m.got = Response(m.num, Len(m.got))
      BY <3>2, <3>4 DEF got
    <3>6. Caller(m, r)
      BY <2>2, <3>4, <3>5 DEF Caller, Calling
    <3>7. r = IF me.num = me.num THEN 1 ELSE HostRan
      OBVIOUS
    <3> HIDE DEF r
    <3>8. me.pc # "idle" /\ m.pc # "idle" /\ me.num <= me.num /\ peer' \in PeerStates
      BY <1>1, <2>1, <3>4
    <3>9. HostInv' /\ HostAbstractly
      BY <2>2, <2>3, <3>3, <3>4, <3>6, <3>7, <3>8, HostRuns
    <3> QED
      BY <3>3, <3>4, <3>9 DEF WinApiKnows
  <2>4. CASE Breaks("idle") /\ UNCHANGED ranNum
    BY <2>1, <2>4, WinApiBreaks
  <2> QED
    BY <1>2, <2>3, <2>4 DEF Submit
<1>3. CASE SubmitReturns
  <2>1. me.pc = "answered" /\ UNCHANGED <<peer, ranNum>>
    BY <1>3 DEF SubmitReturns
  <2>2. CASE Returns("ok", me.got)
    <3> DEFINE m == [me EXCEPT !.pc = "idle", !.res = "ok", !.got = me.got]
    <3>1. me' = m
      BY <2>2 DEF Returns
    <3>2. m \in MeStates /\ m.num = me.num /\ m.pc = "idle" /\ m.got = me.got /\ m.res = "ok"
      BY <1>1 DEF MeStates, Callers
    <3>3. me.got = Response(me.num, Len(me.got)) /\ HostRan = 1 /\ me.num > 0
      BY <1>1, <2>1 DEF Caller
    <3> HIDE DEF m
    <3>4. Caller(m, HostRan)
      BY <3>2, <3>3 DEF Caller, Calling
    <3>5. WinApiKnows(m)
      BY <3>2 DEF WinApiKnows
    <3> QED
      BY <2>1, <3>1, <3>2, <3>4, <3>5, WinApiMoves
  <2>3. CASE Breaks("idle")
    BY <2>1, <2>3, WinApiBreaks
  <2> QED
    BY <1>3, <2>2, <2>3 DEF SubmitReturns
<1> QED
  BY <1>2, <1>3 DEF Submission

LEMMA WinApiKeeps ==
    ASSUME HostInv, WinApiKnows(me), WinApiNext \/ UBootNext
    PROVE  HostInv' /\ HostAbstractly /\ WinApiKnows(me)'
<1>1. me \in MeStates /\ me.num \in Nat /\ Caller(me, HostRan)
  BY MeIs
<1>2. CASE Send("context") \/ Send("submit")
  BY <1>2, WinApiSends
<1>3. CASE WinApiContext
  <2>1. me.pc = "context" /\ UNCHANGED <<peer, ranNum>>
    BY <1>3 DEF WinApiContext
  <2>2. CASE me' = [me EXCEPT !.pc = "submit"]
    <3> DEFINE m == [me EXCEPT !.pc = "submit"]
    <3>1. HostRan = 0 /\ "submit" \in Callers \ {"idle", "end", "answered", "ack"}
      BY <1>1, <2>1 DEF Caller, Calling, Callers
    <3>2. m \in MeStates /\ m.num = me.num /\ m.pc = "submit" /\ Caller(m, HostRan)
      BY <2>1, <3>1, Going
    <3>3. me' = m
      BY <2>2
    <3> HIDE DEF m
    <3>4. WinApiKnows(m)
      BY <3>2 DEF WinApiKnows
    <3> QED
      BY <2>1, <3>2, <3>3, <3>4, WinApiMoves
  <2>3. CASE Breaks("idle")
    BY <2>1, <2>3, WinApiBreaks
  <2> QED
    BY <1>3, <2>2, <2>3 DEF WinApiContext
<1>4. CASE Submission
  BY <1>4, Submits
<1>5. CASE WinApiCleanup
  <2>1. UNCHANGED <<peer, ranNum, me>>
    BY <1>5 DEF WinApiCleanup
  <2>2. HostRan' = HostRan /\ HostAt' = HostAt
    BY <2>1, HostSeen DEF HostRan
  <2>3. HostInv'
    BY <2>1, <2>2 DEF HostInv, HostTypes, Caller
  <2> QED
    BY <2>1, <2>2, <2>3 DEF WinApiKnows, HostAbstractly
<1> QED
  BY <1>2, <1>3, <1>4, <1>5 DEF WinApiNext, UBootNext

-----------------------------------------------------------------------------
(* All transports.                                                         *)

Everyone == Processes \cup {"me"}
AllAt  == [p \in Processes \cup {"me"} |-> IF p = "me" THEN HostAt ELSE TisAt[p]]
AllRan == [p \in Processes \cup {"me"} |-> IF p = "me" THEN HostRan ELSE TisRan[p]]

\* A step of the abstract specification, or none.
Promised == Transport!Next \/ UNCHANGED <<AllAt, AllRan>>

\* The call of one caller moves.
LEMMA OneMoves ==
    ASSUME NEW c \in Everyone,
           \A q \in Everyone \ {c} : AllAt'[q] = AllAt[q] /\ AllRan'[q] = AllRan[q],
           \/ AllAt'[c] = AllAt[c] /\ AllRan'[c] = AllRan[c]
           \/ AllAt[c] = "called" /\ AllAt'[c] = "fail" /\ AllRan'[c] = AllRan[c]
           \/ AllAt[c] = "called" /\ AllAt'[c] = "ok" /\ AllRan[c] = 1 /\ AllRan'[c] = AllRan[c]
           \/ AllAt[c] # "called" /\ AllAt'[c] = "called" /\ AllRan'[c] = 0
           \/ AllAt[c] \in {"called", "fail"} /\ AllAt'[c] = AllAt[c] /\ AllRan[c] = 0 /\ AllRan'[c] = 1
    PROVE  Promised
<1>1. /\ AllAt  = [p \in Everyone |-> AllAt[p]]  /\ AllAt'  = [p \in Everyone |-> AllAt'[p]]
      /\ AllRan = [p \in Everyone |-> AllRan[p]] /\ AllRan' = [p \in Everyone |-> AllRan'[p]]
  BY DEF AllAt, AllRan, Everyone
<1>2. AllAt' = [AllAt EXCEPT ![c] = AllAt'[c]] /\ AllRan' = [AllRan EXCEPT ![c] = AllRan'[c]]
  BY <1>1
<1>3. /\ AllAt'[c] = AllAt[c] => AllAt' = AllAt
      /\ AllRan'[c] = AllRan[c] => AllRan' = AllRan
  BY <1>1
<1>4. CASE AllAt'[c] = AllAt[c] /\ AllRan'[c] = AllRan[c]
  BY <1>3, <1>4 DEF Promised
<1>5. CASE AllAt[c] = "called" /\ AllAt'[c] = "fail" /\ AllRan'[c] = AllRan[c]
  <2>1. Transport!ReturnFail(c)
    BY <1>2, <1>3, <1>5 DEF Transport!ReturnFail, AllAt, AllRan
  <2> QED
    BY <2>1 DEF Promised, Transport!Next, Everyone
<1>6. CASE AllAt[c] = "called" /\ AllAt'[c] = "ok" /\ AllRan[c] = 1 /\ AllRan'[c] = AllRan[c]
  <2>1. Transport!ReturnOk(c)
    BY <1>2, <1>3, <1>6 DEF Transport!ReturnOk, AllAt, AllRan
  <2> QED
    BY <2>1 DEF Promised, Transport!Next, Everyone
<1>7. CASE AllAt[c] # "called" /\ AllAt'[c] = "called" /\ AllRan'[c] = 0
  <2>1. Transport!Call(c)
    BY <1>2, <1>7 DEF Transport!Call, AllAt, AllRan
  <2> QED
    BY <2>1 DEF Promised, Transport!Next, Everyone
<1>8. CASE /\ AllAt[c] \in {"called", "fail"} /\ AllAt'[c] = AllAt[c]
           /\ AllRan[c] = 0 /\ AllRan'[c] = 1
  <2>1. Transport!Execute(c)
    BY <1>2, <1>3, <1>8 DEF Transport!Execute, AllAt, AllRan
  <2> QED
    BY <2>1 DEF Promised, Transport!Next, Everyone
<1> QED
  BY <1>4, <1>5, <1>6, <1>7, <1>8

LEMMA WhoIsWho ==
    /\ AllAt["me"] = HostAt /\ AllAt'["me"] = HostAt'
    /\ AllRan["me"] = HostRan /\ AllRan'["me"] = HostRan'
    /\ \A p \in Processes : /\ AllAt[p] = TisAt[p] /\ AllAt'[p] = TisAt'[p]
                            /\ AllRan[p] = TisRan[p] /\ AllRan'[p] = TisRan'[p]
    /\ "me" \in Everyone /\ Processes = Everyone \ {"me"}
BY CallerAssumption DEF AllAt, AllRan, Everyone

\* While the operating system is called, the chip and its processes rest; and
\* the other way around.
LEMMA TisRests ==
    ASSUME TisInv, UNCHANGED tisVars
    PROVE  TisInv' /\ TisAt' = TisAt /\ TisRan' = TisRan
<1>1. chip' = chip /\ host' = host /\ sem' = sem /\ runs' = runs
  BY DEF tisVars
<1>2. TisAt' = TisAt /\ TisRan' = TisRan
  BY <1>1, ProcessesStay
<1>3. chip' \in ChipStates /\ runs' \in [Ids -> Nat]
  BY <1>1 DEF TisInv, TisTypes
<1>4. ChipFits(chip)'
  BY <1>1, GivenStays DEF TisInv, ChipFits
<1>5. NotYetRun'
  BY <1>1 DEF TisInv, NotYetRun
<1>6. \A p \in Processes : Local(host[p], Me(p), TisRan'[p])
  BY <1>2 DEF TisInv
<1>7. \A p \in Processes : host[p].pc \in Holding => InTouch(host[p], Me(p), TisRan'[p], chip')
  BY <1>1, <1>2 DEF TisInv
<1>8. TisInv'
  BY <1>1, <1>3, <1>4, <1>5, <1>6, <1>7, ChipMoves
<1> QED
  BY <1>2, <1>8

LEMMA HostRests ==
    ASSUME HostInv, UNCHANGED <<peer, ranNum, me>>
    PROVE  HostInv' /\ HostAt' = HostAt /\ HostRan' = HostRan
<1>1. HostRan' = HostRan /\ HostAt' = HostAt
  BY HostSeen DEF HostRan
<1> QED
  BY <1>1 DEF HostInv, HostTypes, Caller

LEMMA HostPromises ==
    ASSUME TisAt' = TisAt, TisRan' = TisRan, HostAbstractly
    PROVE  Promised
<1>1. \A q \in Everyone \ {"me"} : AllAt'[q] = AllAt[q] /\ AllRan'[q] = AllRan[q]
  BY WhoIsWho
<1>2. \/ AllAt'["me"] = AllAt["me"] /\ AllRan'["me"] = AllRan["me"]
      \/ AllAt["me"] = "called" /\ AllAt'["me"] = "fail" /\ AllRan'["me"] = AllRan["me"]
      \/ /\ AllAt["me"] = "called" /\ AllAt'["me"] = "ok"
         /\ AllRan["me"] = 1 /\ AllRan'["me"] = AllRan["me"]
      \/ AllAt["me"] # "called" /\ AllAt'["me"] = "called" /\ AllRan'["me"] = 0
      \/ /\ AllAt["me"] \in {"called", "fail"} /\ AllAt'["me"] = AllAt["me"]
         /\ AllRan["me"] = 0 /\ AllRan'["me"] = 1
  BY WhoIsWho DEF HostAbstractly
<1>3. "me" \in Everyone
  BY WhoIsWho
<1> QED
  BY <1>1, <1>2, <1>3, OneMoves

LEMMA TisPromises ==
    ASSUME HostAt' = HostAt, HostRan' = HostRan, Abstractly
    PROVE  Promised
<1>1. CASE TisAt' = TisAt /\ TisRan' = TisRan
  BY <1>1, HostPromises DEF HostAbstractly
<1>2. ASSUME NEW p \in Processes, Shift(p) \/ Begins(p) \/ Executes(p)
      PROVE  Promised
  <2>1. \A q \in Everyone \ {p} : q = "me" \/ q \in Processes \ {p}
    BY WhoIsWho
  <2>2. \A q \in Processes \ {p} : TisAt'[q] = TisAt[q] /\ TisRan'[q] = TisRan[q]
    BY <1>2 DEF Shift, Begins, Executes
  <2>3. \A q \in Everyone \ {p} : AllAt'[q] = AllAt[q] /\ AllRan'[q] = AllRan[q]
    BY <2>1, <2>2, WhoIsWho
  <2>4. /\ AllAt[p] = TisAt[p] /\ AllAt'[p] = TisAt'[p] /\ AllRan[p] = TisRan[p] /\ AllRan'[p] = TisRan'[p]
        /\ p \in Everyone
    BY WhoIsWho
  <2>5. \/ AllAt'[p] = AllAt[p] /\ AllRan'[p] = AllRan[p]
        \/ AllAt[p] = "called" /\ AllAt'[p] = "fail" /\ AllRan'[p] = AllRan[p]
        \/ AllAt[p] = "called" /\ AllAt'[p] = "ok" /\ AllRan[p] = 1 /\ AllRan'[p] = AllRan[p]
        \/ AllAt[p] # "called" /\ AllAt'[p] = "called" /\ AllRan'[p] = 0
        \/ AllAt[p] \in {"called", "fail"} /\ AllAt'[p] = AllAt[p] /\ AllRan[p] = 0 /\ AllRan'[p] = 1
    BY <1>2, <2>4 DEF Shift, Begins, Executes
  <2> QED
    BY <2>3, <2>4, <2>5, OneMoves
<1> QED
  BY <1>1, <1>2 DEF Abstractly

LEMMA TransportStarts ==
    ASSUME Init
    PROVE  TransportInv /\ Transport!Init
<1>1. TisInv /\ \A p \in Processes : TisAt[p] = "idle" /\ TisRan[p] = 0
  BY TisStarts DEF Init
<1>2. /\ me = [pc |-> "idle", num |-> 0, got |-> <<>>, rspSz |-> 0, res |-> "none", fault |-> FALSE]
      /\ fd = "none" /\ peer = Quiet /\ ranNum = [n \in 1 .. HostCalls |-> 0]
  BY DEF Init, HostInit
<1>3. me \in MeStates /\ me.pc = "idle" /\ me.num = 0 /\ me.res = "none"
  <2>1. <<>> \in Seq(HostUnits) /\ 0 \in Nat /\ "idle" \in Callers
    BY DEF Callers
  <2>2. me \in MeStates
    BY <1>2, <2>1 DEF MeStates
  <2> QED
    BY <1>2, <2>2
<1>4. HostRan = 0 /\ HostAt = "idle"
  BY <1>3, HostSeen DEF HostRan, SeenCall
<1>5. HostInv
  <2>1. ranNum \in [1 .. HostCalls -> Nat] /\ \A n \in 1 .. HostCalls : ranNum[n] = 0
    BY <1>2
  <2>2. HostTypes
    BY <1>2, <1>3, <2>1, QuietPeer, HostAssumption DEF HostTypes
  <2>3. Caller(me, HostRan)
    BY <1>3, <1>4, CallerNames DEF Caller
  <2> QED
    BY <2>1, <2>2, <2>3 DEF HostInv
<1>6. NotAsked
  BY <1>2, <1>3 DEF NotAsked
<1>7. LinuxKnows(me, peer, ranNum) /\ SwTpmKnows(me, peer, fd, HostRan) /\ WinApiKnows(me)
  BY <1>2, <1>3, QuietPeer DEF LinuxKnows, SwTpmKnows, WinApiKnows, Parts
<1>8. TransportInv
  BY <1>1, <1>5, <1>6, <1>7 DEF Init, TransportInv
<1>9. Transport!Init
  BY <1>1, <1>4 DEF Transport!Init
<1> QED
  BY <1>8, <1>9

LEMMA TransportMoves ==
    ASSUME TransportInv, [Next]_transportVars
    PROVE  TransportInv' /\ Promised
<1>1. TisInv /\ HostInv /\ build \in {"TIS", "LINUX_DEV", "AUTODETECT", "SWTPM", "WINAPI", "UBOOT"}
  BY DEF TransportInv
<1>2. CASE TryOpen
  <2>1. UNCHANGED tisVars /\ UNCHANGED <<peer, ranNum, me>> /\ build = "AUTODETECT"
    BY <1>2 DEF TryOpen, tisVars
  <2>2. /\ TisInv' /\ HostInv' /\ TisAt' = TisAt /\ TisRan' = TisRan
        /\ HostAt' = HostAt /\ HostRan' = HostRan
    BY <1>1, <2>1, TisRests, HostRests
  <2>3. NotAsked
    BY <2>1 DEF TransportInv
  <2>4. CASE build' = "LINUX_DEV"
    <3>1. LinuxKnows(me, peer, ranNum)'
      BY <2>1, <2>3 DEF NotAsked, LinuxKnows, Quiet
    <3> QED
      BY <2>2, <2>4, <3>1, HostPromises DEF TransportInv, HostAbstractly
  <2>5. CASE build' = "TIS" /\ fd' = fd
    <3>1. NotAsked'
      BY <2>1, <2>3, <2>5 DEF NotAsked, Quiet
    <3> QED
      BY <2>2, <2>5, <3>1, HostPromises DEF TransportInv, HostAbstractly
  <2> QED
    BY <1>2, <2>4, <2>5 DEF TryOpen
<1>3. CASE ByTis
  <2>1. build = "TIS" /\ build' = build /\ TisNext /\ UNCHANGED hostVars
    BY <1>3 DEF ByTis
  <2>2. UNCHANGED <<fd, peer, ranNum, me>>
    BY <2>1 DEF hostVars
  <2>3. HostInv' /\ HostAt' = HostAt /\ HostRan' = HostRan
    BY <1>1, <2>2, HostRests
  <2>4. TisInv' /\ Abstractly
    BY <1>1, <2>1, TisKeeps
  <2>5. NotAsked'
    BY <2>1, <2>2 DEF TransportInv, NotAsked, Quiet
  <2>6. TransportInv'
    BY <2>1, <2>3, <2>4, <2>5 DEF TransportInv
  <2> QED
    BY <2>3, <2>4, <2>6, TisPromises
<1>4. ASSUME NEW b \in {"LINUX_DEV", "SWTPM", "WINAPI", "UBOOT"}, build = b, build' = build,
             UNCHANGED tisVars, HostInv', HostAbstractly,
             b = "LINUX_DEV" => LinuxKnows(me, peer, ranNum)',
             b = "SWTPM" => SwTpmKnows(me, peer, fd, HostRan)',
             b \in {"WINAPI", "UBOOT"} => WinApiKnows(me)'
      PROVE  TransportInv' /\ Promised
  <2>1. TisInv' /\ TisAt' = TisAt /\ TisRan' = TisRan
    BY <1>1, <1>4, TisRests
  <2>2. Promised
    BY <1>4, <2>1, HostPromises
  <2> QED
    BY <1>4, <2>1, <2>2 DEF TransportInv
<1>5. CASE ByHost("LINUX_DEV", LinuxNext)
  <2>1. build = "LINUX_DEV" /\ build' = build /\ LinuxNext /\ UNCHANGED tisVars
    BY <1>5 DEF ByHost
  <2>2. HostInv' /\ HostAbstractly /\ LinuxKnows(me, peer, ranNum)'
    BY <1>1, <2>1, LinuxKeeps DEF TransportInv
  <2> QED
    BY <1>4, <2>1, <2>2
<1>6. CASE ByHost("SWTPM", SwTpmNext)
  <2>1. build = "SWTPM" /\ build' = build /\ SwTpmNext /\ UNCHANGED tisVars
    BY <1>6 DEF ByHost
  <2>2. HostInv' /\ HostAbstractly /\ SwTpmKnows(me, peer, fd, HostRan)'
    BY <1>1, <2>1, SwTpmKeeps DEF TransportInv
  <2> QED
    BY <1>4, <2>1, <2>2
<1>7. CASE ByHost("WINAPI", WinApiNext) \/ ByHost("UBOOT", UBootNext)
  <2>1. build \in {"WINAPI", "UBOOT"} /\ build' = build /\ (WinApiNext \/ UBootNext) /\ UNCHANGED tisVars
    BY <1>7 DEF ByHost
  <2>2. HostInv' /\ HostAbstractly /\ WinApiKnows(me)'
    BY <1>1, <2>1, WinApiKeeps DEF TransportInv
  <2> QED
    BY <1>4, <2>1, <2>2
<1>8. CASE UNCHANGED transportVars
  <2>1. UNCHANGED tisVars /\ UNCHANGED <<build, fd, peer, ranNum, me>>
    BY <1>8 DEF transportVars, tisVars
  <2>2. /\ TisInv' /\ HostInv' /\ TisAt' = TisAt /\ TisRan' = TisRan
        /\ HostAt' = HostAt /\ HostRan' = HostRan
    BY <1>1, <2>1, TisRests, HostRests
  <2>3. TransportInv'
    <3>1. /\ build \in {"TIS", "AUTODETECT"} => NotAsked'
          /\ build = "LINUX_DEV" => LinuxKnows(me, peer, ranNum)'
          /\ build \in {"WINAPI", "UBOOT"} => WinApiKnows(me)'
      BY <2>1 DEF TransportInv, NotAsked, LinuxKnows, Pending, WinApiKnows
    <3>2. build = "SWTPM" => SwTpmKnows(me, peer, fd, HostRan)'
      BY <2>1, <2>2 DEF TransportInv, SwTpmKnows, SizeDue, BodyDue
    <3> QED
      BY <1>1, <2>1, <2>2, <3>1, <3>2 DEF TransportInv
  <2> QED
    BY <2>2, <2>3, HostPromises DEF HostAbstractly
<1> QED
  BY <1>2, <1>3, <1>5, <1>6, <1>7, <1>8 DEF Next

\* Every transport, in every build, implements what TPM2_SendCommand relies on:
\* a call that succeeds hands over the whole answer to its own command, which
\* was run once, whatever was interrupted, timed out, died or was left in the
\* chip, the kernel or the connection before.
THEOREM TransportsImplement == Spec => Implements
<1>1. Init => TransportInv /\ Transport!Init
  BY TransportStarts
<1>2. TransportInv /\ [Next]_transportVars => TransportInv' /\ Promised
  BY TransportMoves
<1>3. TransportInv /\ [Next]_transportVars => [Transport!Next]_<<AllAt, AllRan>>
  BY <1>2 DEF Promised
<1> QED
  BY <1>1, <1>2, <1>3, PTL DEF Spec, Implements, Transport!Spec, AllAt, AllRan

\* No call fails because of what an earlier one left in the chip, in the kernel
\* or in the simulator's connection: a failure has its reason within the call.
THEOREM CleanCallsSucceed == Spec => []CleanCallSucceeds
<1>1. Init => TransportInv
  BY TransportStarts
<1>2. TransportInv /\ [Next]_transportVars => TransportInv'
  BY TransportMoves
<1>3. TransportInv => CleanCallSucceeds
  BY DEF TransportInv, TisInv, HostInv, Local, Caller, CleanCallSucceeds
<1> QED
  BY <1>1, <1>2, <1>3, PTL DEF Spec
=============================================================================

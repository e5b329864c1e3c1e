---------------------------- MODULE TisTransport ----------------------------
(***************************************************************************)
(* tpm2_tis.c: processes that start the chip up and send commands through  *)
(* the TIS register interface, one bus transaction at a time, with the     *)
(* named semaphore of WOLFTPM_TIS_LOCK between them.  Sizes are counted in *)
(* units: a command has CmdLen of them, an answer a header of one unit     *)
(* that gives the size of the whole.  The chip (external) moves in its own *)
(* time, a bus transaction may fail with or without effect, and a process  *)
(* may die anywhere.                                                       *)
(***************************************************************************)
EXTENDS Integers, Sequences, FiniteSets

CONSTANTS
    Processes,
    MaxCalls,       \* commands the processes send between them
    Tries,          \* TPM_TIMEOUT_TRIES
    CmdLen,         \* units of a command
    RspCap,         \* units an answer may have: packet->size
    MaxFaults       \* bus transactions that fail and processes that die

ASSUME TisAssumption ==
    /\ IsFiniteSet(Processes) /\ MaxCalls \in Nat
    /\ Tries \in Nat /\ CmdLen \in Nat \ {0} /\ RspCap \in Nat

VARIABLES
    stm,        \* the chip is an ST33, whose burst count is not read
    chip,       \* [st, in, out, up, active]
    runs,       \* how often the chip ran each command
    sem,        \* the semaphore
    host,       \* each process: see Host
    faults

tisVars == <<stm, chip, runs, sem, host, faults>>

Header == 1
Ids == [who : Processes, num : 1 .. MaxCalls]
Answer(id, size) == [k \in 1 .. size |-> [id |-> id, size |-> size, k |-> k]]
NoId == [who |-> "chip", num |-> 0]
Garbage == [id |-> NoId, size |-> RspCap + 1, k |-> 0]        \* the bus reads FF

\* pc, tries and pos of the function; cnt is gLockCount; got the units read;
\* fault: something outside went wrong during this call.
Host == [pc |-> "idle", tries |-> 0, pos |-> 0, burst |-> 0, rspSz |-> 0, got |-> <<>>, cnt |-> 0,
         started |-> FALSE, num |-> 0, res |-> "none", fault |-> FALSE]

TisInit ==
    /\ stm \in BOOLEAN
    /\ chip = [st |-> "idle", in |-> <<>>, out |-> <<>>, up |-> FALSE, active |-> FALSE]
    /\ runs = [id \in Ids |-> 0] /\ sem = 1
    /\ host = [p \in Processes |-> Host] /\ faults = 0

Me(p) == [who |-> p, num |-> host[p].num]
At(p, pc) == host[p].pc = pc

-----------------------------------------------------------------------------
(* The chip.                                                               *)

Ready  == chip.st = "ready"
Expect == chip.st = "recv" /\ Len(chip.in) < CmdLen
Avail  == chip.st = "done" /\ chip.out # <<>>

\* A write of TPM_STS_COMMAND_READY ends whatever the chip is at; it is ready
\* at once or, as "abort", a while later.
OnReady(c) ==
    IF c.st = "ready" THEN {c}
    ELSE {[c EXCEPT !.st = s, !.in = <<>>, !.out = <<>>] :
             s \in {"abort"} \cup (IF c.st \in {"idle", "done"} THEN {"ready"} ELSE {})}
OnData(c, units) ==
    IF c.st \in {"ready", "recv"} /\ Len(c.in) + Len(units) <= CmdLen
    THEN {[c EXCEPT !.st = "recv", !.in = @ \o units]} ELSE {c}
OnGo(c) == IF c.st = "recv" /\ Len(c.in) = CmdLen THEN {[c EXCEPT !.st = "exec"]} ELSE {c}

ChipReady == chip.st = "abort" /\ chip' = [chip EXCEPT !.st = "ready"] /\ UNCHANGED runs
ChipBoots == ~chip.up /\ chip' = [chip EXCEPT !.up = TRUE] /\ UNCHANGED runs
\* A command whose units are not all of one call is nobody's.
ChipExecutes ==
    /\ chip.st = "exec"
    /\ LET id == chip.in[1]
           whole == id \in Ids /\ \A k \in 1 .. CmdLen : chip.in[k] = id
       IN  /\ runs' = IF whole THEN [runs EXCEPT ![id] = @ + 1] ELSE runs
           /\ \E size \in Header .. RspCap + 1 :
                 chip' = [chip EXCEPT !.st = "done", !.out = Answer(IF whole THEN id ELSE NoId, size)]

Chip == (ChipReady \/ ChipBoots \/ ChipExecutes) /\ UNCHANGED <<stm, sem, host, faults>>

-----------------------------------------------------------------------------
(* TPM2_TIS_Lock and TPM2_TIS_Unlock on [cnt, sem]: the count nests.       *)

Locks(l) == l.cnt > 0 \/ l.sem > 0
TPM2_TIS_Lock(l) == [cnt |-> l.cnt + 1, sem |-> IF l.cnt = 0 THEN l.sem - 1 ELSE l.sem]

TPM2_TIS_Unlock(l) ==
    LET cnt == IF l.cnt > 0 THEN l.cnt - 1 ELSE 0
    IN  [cnt |-> cnt, sem |-> IF cnt = 0 THEN l.sem + 1 ELSE l.sem]

LockOf(p) == [cnt |-> host[p].cnt, sem |-> sem]

\* The function fails: h is the process, what follows is the unlock (or not).
Failed(h, why) == [h EXCEPT !.res = "fail", !.fault = @ \/ why,
                            !.pc = IF h.cnt > 0 THEN "unlock" ELSE "idle"]

Goto(p, pc) == [host[p] EXCEPT !.pc = pc, !.tries = Tries]
Registers == 3      \* that TPM2_TIS_GetInfo reads
Bursts == 1 .. 2
Transfer(p, b) == [Goto(p, IF At(p, "burst") THEN "write" ELSE "read") EXCEPT !.burst = b]

\* What a failed transaction leads to.  Mostly the function fails.  But the
\* first look at the locality and all but the last register of GetInfo do not
\* matter, the wait for the locality goes on after a negative error, and
\* GetBurstCount's callers go on after a positive one with what was read.
AfterFault(p) ==
    CASE At(p, "check") -> {Goto(p, "request")}
      [] At(p, "info") /\ host[p].pos < Registers - 1 -> {[host[p] EXCEPT !.pos = @ + 1]}
      [] At(p, "granted") /\ host[p].tries > 1 ->
            {Failed(host[p], TRUE), [host[p] EXCEPT !.tries = @ - 1]}
      [] host[p].pc \in {"burst", "rburst"} ->
            {Failed(host[p], TRUE)} \cup {[Transfer(p, b) EXCEPT !.fault = TRUE] : b \in Bursts}
      [] OTHER -> {Failed(host[p], TRUE)}

\* One bus transaction (TPM2_TIS_Read or TPM2_TIS_Write) with its own lock
\* inside: the chip after it is one of chips, the process then h; or it fails.
Bus(p, chips, h) ==
    /\ Locks(LockOf(p))
    /\ LET l == TPM2_TIS_Unlock(TPM2_TIS_Lock(LockOf(p)))
       IN  /\ sem' = l.sem
           /\ \/ /\ chip' \in chips /\ host' = [host EXCEPT ![p] = [h EXCEPT !.cnt = l.cnt]]
                 /\ UNCHANGED faults
              \/ /\ faults < MaxFaults /\ faults' = faults + 1
                 /\ chip' \in chips \cup {chip}
                 /\ \E after \in AfterFault(p) : host' = [host EXCEPT ![p] = [after EXCEPT !.cnt = l.cnt]]
    /\ UNCHANGED <<stm, runs>>

\* One turn of a polling loop: met, or once more, or out of tries; slow when
\* the chip had something to finish.
TurnForever(p, met, then, slow) == IF met THEN then ELSE host[p]     \* a slip: no tries
Turn(p, met, then, slow) ==
    IF met THEN then
    ELSE IF host[p].tries > 1 THEN [host[p] EXCEPT !.tries = @ - 1]
    ELSE Failed(host[p], slow)

\* sem_timedwait gives up.
LockTimeout(p) ==
    /\ host[p].pc \notin {"idle", "unlock"} /\ ~Locks(LockOf(p))
    /\ \E after \in AfterFault(p) : host' = [host EXCEPT ![p] = after]
    /\ UNCHANGED <<stm, chip, runs, sem, faults>>

-----------------------------------------------------------------------------
(* TPM2_ChipStartup: TPM2_TIS_StartupWait, TPM2_TIS_RequestLocality,       *)
(* TPM2_TIS_GetInfo.                                                       *)

ChipStartup(p) ==
    /\ At(p, "idle") /\ ~host[p].started
    /\ host' = [host EXCEPT ![p] = [Goto(p, "startup") EXCEPT !.pos = 0]]
    /\ UNCHANGED <<stm, chip, runs, sem, faults>>

StartupWait(p) ==
    At(p, "startup") /\ Bus(p, {chip}, Turn(p, chip.up, Goto(p, "check"), ~chip.up))
CheckLocality(p) ==
    At(p, "check") /\ Bus(p, {chip}, Goto(p, IF chip.active THEN "info" ELSE "request"))
RequestLocality(p) ==
    At(p, "request") /\ Bus(p, {chip, [chip EXCEPT !.active = TRUE]}, Goto(p, "granted"))
\* The chip may take its time; here it grants at the poll.
LocalityGranted(p) ==
    /\ At(p, "granted")
    /\ \E c \in {chip, [chip EXCEPT !.active = TRUE]} :
          Bus(p, {c}, Turn(p, c.active, Goto(p, "info"), TRUE))
GetInfo(p) ==
    /\ At(p, "info")
    /\ Bus(p, {chip}, IF host[p].pos < Registers - 1 THEN [host[p] EXCEPT !.pos = @ + 1]
                      ELSE [host[p] EXCEPT !.pc = "idle", !.started = TRUE])

-----------------------------------------------------------------------------
(* TPM2_TIS_SendCommand.                                                   *)

Sent == {id \in Ids : id.num <= host[id.who].num}

SendCommand(p) ==
    /\ At(p, "idle") /\ host[p].started /\ Cardinality(Sent) < MaxCalls
    /\ host' = [host EXCEPT ![p] =
          [Goto(p, "lock") EXCEPT !.num = @ + 1, !.res = "none", !.fault = FALSE,
                                  !.pos = 0, !.got = <<>>, !.rspSz = Header]]
    /\ UNCHANGED <<stm, chip, runs, sem, faults>>

TakeLock(p) ==
    /\ At(p, "lock") /\ Locks(LockOf(p))
    /\ LET l == TPM2_TIS_Lock(LockOf(p))
       IN  sem' = l.sem /\ host' = [host EXCEPT ![p] = [Goto(p, "status") EXCEPT !.cnt = l.cnt]]
    /\ UNCHANGED <<stm, chip, runs, faults>>

StatusAssumed(p) == At(p, "status") /\ Bus(p, {chip}, Goto(p, "burst"))     \* a slip: always ready
TPM2_TIS_Status(p) ==
    At(p, "status") /\ Bus(p, {chip}, Goto(p, IF Ready THEN "burst" ELSE "ready"))
TPM2_TIS_Ready(p) == At(p, "ready") /\ Bus(p, OnReady(chip), Goto(p, "waitReady"))
WaitReady(p) ==
    At(p, "waitReady") /\ Bus(p, {chip}, Turn(p, Ready, Goto(p, "burst"), chip.st = "abort"))

\* TPM2_TIS_GetBurstCount before a write ("burst") and before a read ("rburst").
GetBurstCount(p) ==
    /\ host[p].pc \in {"burst", "rburst"}
    /\ \/ stm /\ host' = [host EXCEPT ![p] = Transfer(p, CmdLen + RspCap)]
          /\ UNCHANGED <<stm, chip, runs, sem, faults>>
       \/ ~stm /\ \E b \in {0} \cup Bursts : Bus(p, {chip}, Turn(p, b > 0, Transfer(p, b), TRUE))

Least(a, b) == IF a < b THEN a ELSE b
WriteFifo(p) ==
    /\ At(p, "write")
    /\ LET n   == Least(CmdLen - host[p].pos, host[p].burst)
           pos == host[p].pos + n
           next == IF pos < CmdLen THEN "waitExpect" ELSE IF stm THEN "go" ELSE "waitValid"
       IN  Bus(p, OnData(chip, [k \in 1 .. n |-> Me(p)]), [Goto(p, next) EXCEPT !.pos = pos])
WaitExpect(p) ==
    At(p, "waitExpect") /\ Bus(p, {chip}, Turn(p, Expect, Goto(p, "burst"), FALSE))
\* TPM_STS_VALID comes when the chip is ready to tell.
WaitValid(p) ==
    /\ At(p, "waitValid")
    /\ \E valid \in BOOLEAN :
          Bus(p, {chip}, Turn(p, valid /\ ~Expect, Goto(p, "go"), ~valid))
Go(p) == At(p, "go") /\ Bus(p, OnGo(chip), [Goto(p, "waitAvail") EXCEPT !.pos = 0])

WaitAvail(p) ==
    At(p, "waitAvail") /\ Bus(p, {chip}, Turn(p, Avail, Goto(p, "rburst"), chip.st = "exec"))

\* Behind the header the size in it is taken; one that does not fit is refused.
ReadFifo(p) ==
    /\ At(p, "read")
    /\ LET n     == Least(host[p].rspSz - host[p].pos, host[p].burst)
           units == [k \in 1 .. n |-> IF k <= Len(chip.out) THEN chip.out[k] ELSE Garbage]
           h     == [host[p] EXCEPT !.pos = @ + n, !.got = @ \o units,
                                    !.rspSz = IF host[p].pos + n = Header THEN units[n].size ELSE @]
       IN  Bus(p, {[chip EXCEPT !.out = SubSeq(@, n + 1, Len(@))]},
               IF h.rspSz > RspCap THEN Failed(h, TRUE)
               ELSE [h EXCEPT !.pc = IF h.pos < h.rspSz THEN "waitAvail" ELSE "done", !.tries = Tries])

\* "Tell TPM we are done", only after success.
Done(p) == At(p, "done") /\ Bus(p, OnReady(chip), [host[p] EXCEPT !.pc = "unlock", !.res = "ok"])

Unlock(p) ==
    /\ At(p, "unlock")
    /\ LET l == TPM2_TIS_Unlock(LockOf(p))
       IN  sem' = l.sem /\ host' = [host EXCEPT ![p].cnt = l.cnt, ![p].pc = "idle"]
    /\ UNCHANGED <<stm, chip, runs, faults>>

\* The process dies and starts again; a semaphore it held stays taken.
Crash(p) ==
    /\ ~At(p, "idle") /\ faults < MaxFaults /\ faults' = faults + 1
    /\ host' = [host EXCEPT ![p] = [Host EXCEPT !.num = host[p].num, !.fault = TRUE, !.res = "fail"]]
    /\ UNCHANGED <<stm, chip, runs, sem>>

TisStep(p) ==
    \/ LockTimeout(p) \/ ChipStartup(p) \/ StartupWait(p) \/ CheckLocality(p)
    \/ RequestLocality(p) \/ LocalityGranted(p) \/ GetInfo(p)
    \/ TakeLock(p) \/ TPM2_TIS_Status(p) \/ TPM2_TIS_Ready(p) \/ WaitReady(p) \/ GetBurstCount(p)
    \/ WriteFifo(p) \/ WaitExpect(p) \/ WaitValid(p) \/ Go(p) \/ WaitAvail(p) \/ ReadFifo(p)
    \/ Done(p) \/ Unlock(p)

TisNext == Chip \/ \E p \in Processes : TisStep(p) \/ SendCommand(p) \/ Crash(p)

-----------------------------------------------------------------------------
\* The call of each process as CommandTransport sees it.
TisAt == [p \in Processes |->
    IF host[p].num = 0 THEN "idle"
    ELSE CASE At(p, "unlock") -> "called"
           [] ~At(p, "unlock") /\ host[p].res = "ok" ->
                 (IF host[p].got = Answer(Me(p), Len(host[p].got)) THEN "ok" ELSE "garbled")
           [] ~At(p, "unlock") /\ host[p].res = "fail" -> "fail"
           [] ~At(p, "unlock") /\ host[p].res = "none" -> "called"]
TisRan == [p \in Processes |-> IF host[p].num = 0 THEN 0 ELSE runs[Me(p)]]
=============================================================================

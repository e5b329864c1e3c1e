--------------------------- MODULE HostTransports ---------------------------
(***************************************************************************)
(* The transports of one process through its operating system: the Linux   *)
(* device (tpm2_linux.c), the simulator's socket (tpm2_swtpm.c), the       *)
(* Windows TBS (tpm2_winapi.c) and U-Boot's TPM driver (tpm2_linux.c).     *)
(* The other side (external) is the kernel with its one pending answer per *)
(* file, or the simulator behind a TCP connection.                         *)
(***************************************************************************)
EXTENDS Integers, Sequences

CONSTANTS
    HostCalls,      \* commands sent
    AnswerCap,      \* units an answer may have: packet->size
    HostFaults      \* system calls that fail

ASSUME HostAssumption == HostCalls \in Nat /\ AnswerCap \in Nat

VARIABLES
    fd,         \* ctx->fd, ctx->tcpCtx.fd or ctx->winCtx.tbs_context: "none" or "open"
    peer,       \* the other side: [got, id, out]
    ranNum,     \* how often each command was run
    me,         \* the process: [pc, num, got, res, fault]
    hfaults

hostVars == <<fd, peer, ranNum, me, hfaults>>

Unit(id, size, k) == [id |-> id, size |-> size, k |-> k]
Response(id, size) == [k \in 1 .. size |-> Unit(id, size, k)]
Quiet == [got |-> 0, id |-> 0, out |-> <<>>]
Parts == 4      \* what swtpm is sent: the start, the locality, the size, the command

HostInit ==
    /\ fd = "none" /\ peer = Quiet
    /\ ranNum = [n \in 1 .. HostCalls |-> 0] /\ hfaults = 0
    /\ me = [pc |-> "idle", num |-> 0, got |-> <<>>, rspSz |-> 0, res |-> "none", fault |-> FALSE]

Send(first) ==
    /\ me.pc = "idle" /\ me.num < HostCalls
    /\ me' = [me EXCEPT !.pc = first, !.num = @ + 1, !.got = <<>>, !.res = "none", !.fault = FALSE]
    /\ UNCHANGED <<fd, peer, ranNum, hfaults>>

\* A system call fails; the function goes on at pc.
Breaks(pc) ==
    /\ hfaults < HostFaults /\ hfaults' = hfaults + 1
    /\ me' = [me EXCEPT !.pc = pc, !.res = "fail", !.fault = TRUE]

Returns(res, got) == me' = [me EXCEPT !.pc = "idle", !.res = res, !.got = got]

Run(id) == ranNum' = [ranNum EXCEPT ![id] = @ + 1]

-----------------------------------------------------------------------------
(* TPM2_LINUX_SendCommand.  The file stays open from call to call.         *)

LinuxOpen ==
    /\ me.pc = "open"
    /\ \/ fd' = "open" /\ me' = [me EXCEPT !.pc = "write"] /\ UNCHANGED hfaults
       \/ fd = "none" /\ Breaks("idle") /\ UNCHANGED fd
    /\ UNCHANGED <<peer, ranNum>>

\* The kernel takes no command (EBUSY) while an answer waits to be read or a
\* command is being run: what an interrupted call left behind.
LinuxWrite ==
    /\ me.pc = "write"
    /\ \/ /\ peer = Quiet /\ peer' = [Quiet EXCEPT !.got = Parts, !.id = me.num]
          /\ me' = [me EXCEPT !.pc = "poll"] /\ UNCHANGED hfaults
       \/ /\ peer # Quiet /\ me' = [me EXCEPT !.pc = "idle", !.res = "fail", !.fault = TRUE]
          /\ UNCHANGED <<peer, hfaults>>
       \/ Breaks("idle") /\ UNCHANGED peer
    /\ UNCHANGED <<fd, ranNum>>

\* poll without a timeout; a signal ends it, and the answer stays.
LinuxPoll ==
    /\ me.pc = "poll"
    /\ \/ peer.out # <<>> /\ me' = [me EXCEPT !.pc = "read"] /\ UNCHANGED hfaults
       \/ Breaks("idle")
    /\ UNCHANGED <<fd, peer, ranNum>>

\* One read takes the whole answer, or as much as the buffer holds.
LinuxRead ==
    /\ me.pc = "read"
    /\ \/ /\ Returns("ok", SubSeq(peer.out, 1, IF Len(peer.out) < AnswerCap THEN Len(peer.out) ELSE AnswerCap))
          /\ peer' = Quiet /\ UNCHANGED hfaults
       \/ Breaks("idle") /\ peer' \in {peer, Quiet}
    /\ UNCHANGED <<fd, ranNum>>

\* The kernel drops an answer that nobody reads (after two minutes).
KernelDrops ==
    /\ fd = "open" /\ peer.out # <<>> /\ me.pc = "idle" /\ peer' = Quiet
    /\ UNCHANGED <<fd, ranNum, me, hfaults>>

PeerRuns(sizes) ==
    /\ peer.got = Parts /\ peer.out = <<>>
    /\ Run(peer.id) /\ \E size \in sizes : peer' = [peer EXCEPT !.out = Response(peer.id, size)]
    /\ UNCHANGED <<fd, me, hfaults>>

LinuxStep == LinuxOpen \/ LinuxWrite \/ LinuxPoll \/ LinuxRead
LinuxNext == Send("open") \/ LinuxStep \/ PeerRuns(1 .. AnswerCap) \/ KernelDrops

-----------------------------------------------------------------------------
(* TPM2_SWTPM_SendCommand: a connection for each command.                  *)

SwTpmConnect ==
    /\ me.pc = "connect"
    /\ \/ fd = "none" /\ fd' = "open" /\ peer' = Quiet
          /\ me' = [me EXCEPT !.pc = "send"] /\ UNCHANGED hfaults
       \/ fd = "none" /\ Breaks("idle") /\ UNCHANGED <<fd, peer>>
       \/ fd = "open" /\ me' = [me EXCEPT !.pc = "send"] /\ UNCHANGED <<fd, peer, hfaults>>
    /\ UNCHANGED ranNum

\* The four transmissions; the simulator takes them in order.
SwTpmTransmit ==
    /\ me.pc = "send"
    /\ \/ /\ peer' = [peer EXCEPT !.got = IF @ = Parts THEN 1 ELSE @ + 1, !.id = me.num]
          /\ me' = [me EXCEPT !.pc = IF peer'.got = Parts THEN "recvSize" ELSE "send"]
          /\ UNCHANGED hfaults
       \/ Breaks("end") /\ UNCHANGED peer
    /\ UNCHANGED <<fd, ranNum>>

\* The size in front of the answer: too large a one is refused.
SwTpmReceiveSize ==
    /\ me.pc = "recvSize"
    /\ \/ /\ peer.out # <<>>
          /\ LET size == Len(peer.out)
             IN  me' = IF size > AnswerCap
                       THEN [me EXCEPT !.pc = "end", !.res = "fail", !.fault = TRUE]
                       ELSE [me EXCEPT !.pc = "recvBody", !.rspSz = size]
          /\ UNCHANGED hfaults
       \/ Breaks("end")
    /\ UNCHANGED <<fd, peer, ranNum>>

\* read may return less than asked for: the loop of SwTpmReceive.
SwTpmReceive ==
    /\ me.pc = "recvBody"
    /\ \/ \E n \in 1 .. me.rspSz - Len(me.got) :
             /\ me' = [me EXCEPT !.got = @ \o SubSeq(peer.out, 1, n),
                                 !.pc = IF Len(me.got) + n = me.rspSz THEN "ack" ELSE "recvBody"]
             /\ peer' = [peer EXCEPT !.out = SubSeq(@, n + 1, Len(@))]
             /\ UNCHANGED hfaults
       \/ Breaks("end") /\ UNCHANGED peer
    /\ UNCHANGED <<fd, ranNum>>
SwTpmAck ==
    /\ me.pc = "ack"
    /\ \/ me' = [me EXCEPT !.pc = "end", !.res = "acked"] /\ UNCHANGED hfaults
       \/ Breaks("end")
    /\ UNCHANGED <<fd, peer, ranNum>>

KeepConnection ==       \* a slip: the connection is kept after a failure
    /\ me.pc = "end"
    /\ me' = [me EXCEPT !.pc = "idle", !.res = IF @ = "acked" THEN "ok" ELSE @]
    /\ fd' = (IF me.res = "fail" THEN fd ELSE "none")
    /\ peer' = (IF me.res = "fail" THEN peer ELSE Quiet)
    /\ UNCHANGED <<ranNum, hfaults>>
SwTpmDisconnect ==
    /\ me.pc = "end" /\ fd' = "none" /\ peer' = Quiet
    /\ \/ me' = [me EXCEPT !.pc = "idle", !.res = IF @ = "acked" THEN "ok" ELSE @] /\ UNCHANGED hfaults
       \/ Breaks("idle")
    /\ UNCHANGED ranNum

SwTpmStep == SwTpmConnect \/ SwTpmTransmit \/ SwTpmReceiveSize \/ SwTpmReceive \/ SwTpmAck \/ SwTpmDisconnect
SwTpmRuns == ranNum[IF peer.id = 0 THEN 1 ELSE peer.id] = 0 /\ PeerRuns(1 .. AnswerCap + 1)
SwTpmNext == Send("connect") \/ SwTpmStep \/ SwTpmRuns

-----------------------------------------------------------------------------
(* TPM2_WinApi_SendCommand and U-Boot's TPM2_LINUX_SendCommand: the system *)
(* runs the command within one call.                                       *)

WinApiContext ==
    /\ me.pc = "context"
    /\ \/ fd' = "open" /\ me' = [me EXCEPT !.pc = "submit"] /\ UNCHANGED hfaults
       \/ fd = "none" /\ Breaks("idle") /\ UNCHANGED fd
    /\ UNCHANGED <<peer, ranNum>>
Submit ==
    /\ me.pc = "submit"
    /\ \/ Run(me.num) /\ UNCHANGED hfaults
          /\ \E size \in 1 .. AnswerCap :
                me' = [me EXCEPT !.pc = "answered", !.got = Response(me.num, size)]
       \/ Breaks("idle") /\ UNCHANGED ranNum
    /\ UNCHANGED <<fd, peer>>
SubmitReturns ==
    /\ me.pc = "answered"
    /\ \/ Returns("ok", me.got) /\ UNCHANGED hfaults
       \/ Breaks("idle")
    /\ UNCHANGED <<fd, peer, ranNum>>
WinApiCleanup ==
    /\ me.pc = "idle" /\ fd = "open" /\ me.num > 0 /\ fd' = "none" /\ UNCHANGED <<peer, ranNum, me, hfaults>>

Submission == Submit \/ SubmitReturns
WinApiNext == Send("context") \/ WinApiContext \/ Submission \/ WinApiCleanup
UBootNext  == Send("submit") \/ Submission

-----------------------------------------------------------------------------
\* The call as CommandTransport sees it.
HostAt == IF me.num = 0 THEN "idle"
          ELSE CASE me.pc # "idle" /\ (me.res # "fail" \/ me.pc = "end") -> "called"
                 [] me.pc = "idle" /\ me.res = "ok" ->
                       (IF me.got = Response(me.num, Len(me.got)) THEN "ok" ELSE "garbled")
                 [] OTHER -> "fail"
HostRan == IF me.num = 0 THEN 0 ELSE ranNum[me.num]
=============================================================================

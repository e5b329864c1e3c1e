----------------------------- MODULE Transports -----------------------------
(***************************************************************************)
(* INTERNAL_SEND_COMMAND of every build: which of the transports a build   *)
(* uses, and that each does what TPM2_SendCommand relies on.               *)
(***************************************************************************)
EXTENDS TisTransport, HostTransports

ASSUME CallerAssumption == "me" \notin Processes

VARIABLE build      \* WOLFTPM_LINUX_DEV, _SWTPM, _WINAPI, U-Boot, TIS, or _AUTODETECT
                    \* until wolfTPM2_Init_ex has found out

transportVars == <<build, stm, chip, runs, sem, host, faults, fd, peer, ranNum, me, hfaults>>

Init == /\ build \in {"TIS", "LINUX_DEV", "AUTODETECT", "SWTPM", "WINAPI", "UBOOT"}
        /\ TisInit /\ HostInit

\* TPM2_LINUX_TryOpen: the kernel's device if there is one, else SPI.
TryOpen ==
    /\ build = "AUTODETECT"
    /\ \/ build' = "LINUX_DEV" /\ fd' = "open"
       \/ build' = "TIS" /\ UNCHANGED fd
    /\ UNCHANGED <<stm, chip, runs, sem, host, faults, peer, ranNum, me, hfaults>>

ByTis    == build = "TIS" /\ TisNext /\ UNCHANGED <<build, hostVars>>
ByHost(b, next) == build = b /\ next /\ UNCHANGED <<build, tisVars>>

Next == \/ TryOpen \/ ByTis
        \/ ByHost("LINUX_DEV", LinuxNext) \/ ByHost("SWTPM", SwTpmNext)
        \/ ByHost("WINAPI", WinApiNext) \/ ByHost("UBOOT", UBootNext)

\* A process that drives a TIS chip goes on while it runs: its own code, the bus
\* transaction it is in and sem_timedwait.  Nothing is assumed of the chip, and
\* nothing of the other builds: a kernel or a simulator need not answer.
Fairness ==
    \A p \in Processes : WF_transportVars(build = "TIS" /\ TisStep(p) /\ UNCHANGED <<build, hostVars>>)

Spec == Init /\ [][Next]_transportVars /\ Fairness

-----------------------------------------------------------------------------
(* Properties.                                                             *)

TypeOK ==
    /\ build \in {"TIS", "LINUX_DEV", "AUTODETECT", "SWTPM", "WINAPI", "UBOOT"}
    /\ sem \in {0, 1} /\ chip.st \in {"idle", "ready", "recv", "exec", "done", "abort"}
    /\ \A p \in Processes : host[p].cnt \in 0 .. 1 /\ host[p].tries \in 0 .. Tries
    /\ fd \in {"none", "open"} /\ Len(me.got) <= AnswerCap

\* The process of the other builds is the caller "me".
Transport == INSTANCE CommandTransport
    WITH Callers <- Processes \cup {"me"},
         at  <- [p \in Processes \cup {"me"} |-> IF p = "me" THEN HostAt ELSE TisAt[p]],
         ran <- [p \in Processes \cup {"me"} |-> IF p = "me" THEN HostRan ELSE TisRan[p]]

\* Every transport implements CommandTransport: success means the whole answer
\* to this very command, run once, whatever was interrupted, timed out, left
\* in the chip or died before.
Implements == Transport!Spec

\* A call fails only for a reason within it (a failed system call or bus
\* transaction, a chip still busy when the tries run out, a semaphore not
\* given back, an answer that does not fit, a kernel with an unread answer):
\* what an earlier call left in the chip or the socket does no harm.
CleanCallSucceeds ==
    /\ \A p \in Processes : host[p].pc = "idle" /\ host[p].res = "fail" => host[p].fault
    /\ me.pc = "idle" /\ me.res = "fail" => me.fault

\* Through TIS a call returns although the chip never answers or a semaphore
\* is never given back: every wait of tpm2_tis.c counts TPM_TIMEOUT_TRIES down
\* and sem_timedwait has its limit.  Of the other transports nothing is said:
\* tpm2_linux.c polls without a limit (TPM2_LINUX_DEV_POLL_TIMEOUT is -1), the
\* read of tpm2_swtpm.c blocks, and both wait as long as the other side is silent.
CallReturns == \A p \in Processes : [](host[p].pc # "idle" => <>(host[p].pc = "idle"))
=============================================================================

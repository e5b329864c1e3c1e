---------------------------- MODULE LibraryLock ----------------------------
(***************************************************************************)
(* What the threads of a program share inside the library: the active      *)
(* context gActiveTPM, the mutex gHwLock around the hardware, the count    *)
(* gWolfCryptRefCount, and each device's session slots, which the context  *)
(* points at.  A call is the sequence of the steps it takes (its todo);    *)
(* between any two of them another thread may run.  The build has the      *)
(* mutex, so gActiveTPM is one for all threads, and no static initializer. *)
(***************************************************************************)
EXTENDS Integers, SequencesExt, FiniteSetsExt

CONSTANTS
    Threads,
    Devices,        \* WOLFTPM2_DEV structures
    Failing,        \* the calls whose chip startup may fail
    Alone,          \* the program makes no call while another changes contexts
    Guarded         \* the program keeps other threads off a device whose slots it has set

VARIABLES
    active,     \* gActiveTPM: a context, that of a device or wolfTPM2_Test's own
    count,      \* gWolfCryptRefCount
    crypto,     \* wolfCrypt and gHwLock are initialised (external)
    lock,       \* who holds gHwLock
    context,    \* each context: [mem: it is allocated, session: whose slots, or None]
    slots,      \* each device's slot 0: who filled it, or "empty"
    device,     \* what the program knows of a device: "off", "on" or "failed"
    chip,       \* the command at the TPM: [who, call, auth]
    thread      \* each thread: [call, dev, todo, ctx, saved, auth, got, rc]

vars == <<active, count, crypto, lock, context, slots, device, chip, thread>>

None == "none"
Stack == "stack"        \* the context in wolfTPM2_Test's frame
Contexts == Devices \cup {Stack}

ASSUME NamesAssumption == None \notin Threads \cup Devices /\ Stack \notin Devices

-----------------------------------------------------------------------------
(* The calls.                                                              *)

\* A command: the active context is read before the lock is taken.
Locked(step) == <<"ctx", "lock">> \o step \o <<"unlock">>
Command      == Locked(<<"send", "receive">>)           \* TPM_ST_NO_SESSIONS
AuthCommand  == Locked(<<"auth", "send", "receive">>)
TPM2_SetSessionAuth == Locked(<<"session">>)

ClearAfterFilling  == <<"fill", "clear">> \o TPM2_SetSessionAuth     \* a slip
wolfTPM2_SetAuth   == <<"clear", "fill">> \o TPM2_SetSessionAuth
wolfTPM2_UnsetAuth == <<"clear">> \o TPM2_SetSessionAuth

\* TPM2_Init_ex, TPM2_ChipStartup and TPM2_Startup within; "check" returns an error.
wolfTPM2_Init_ex ==
    <<"memset", "initCrypt", "refer", "lock", "ioCb", "unlock", "activate", "lock", "startup", "unlock", "check">>
    \o Command \o <<"check">>
TPM2_Cleanup == <<"lock", "deactivate", "unlock", "unrefer", "freeCrypt">>

wolfTPM2_Init    == wolfTPM2_Init_ex \o wolfTPM2_SetAuth \o <<"on">>
wolfTPM2_New     == <<"malloc">> \o wolfTPM2_Init
wolfTPM2_Cleanup == Command \o TPM2_Cleanup \o <<"off">>
wolfTPM2_Free    == wolfTPM2_Cleanup \o <<"free">>
wolfTPM2_Test    == <<"save">> \o wolfTPM2_Init_ex \o Command \o TPM2_Cleanup \o <<"restore", "return">>

Steps == [Init |-> wolfTPM2_Init, New |-> wolfTPM2_New, Cleanup |-> wolfTPM2_Cleanup,
          Free |-> wolfTPM2_Free, Test |-> wolfTPM2_Test, Activate |-> <<"activate">>,
          Plain |-> Command, Use |-> wolfTPM2_SetAuth \o AuthCommand \o wolfTPM2_UnsetAuth]

\* What a call does when "check" finds an error: wolfTPM2_New frees the
\* device, wolfTPM2_Test leaves its frame, and wolfTPM2_Init leaves the
\* cleaning up to its caller.
OnError == [Init |-> <<"failed">>, New |-> <<"free">>, Test |-> <<"return">>]
Lifecycle == {"Init", "New", "Cleanup", "Free", "Test", "Activate"}

Quiet == [who |-> "nobody", call |-> None, auth |-> "empty"]
Idle == [call |-> None, dev |-> None, todo |-> <<>>, ctx |-> None, saved |-> None,
         auth |-> "empty", got |-> None, rc |-> "ok"]

Init ==
    /\ active = None /\ count = 0 /\ crypto = FALSE /\ lock = None
    /\ context = [c \in Contexts |-> [mem |-> FALSE, session |-> None]]
    /\ slots = [d \in Devices |-> "empty"] /\ device = [d \in Devices |-> "off"]
    /\ chip = Quiet
    /\ thread = [t \in Threads |-> Idle]

-----------------------------------------------------------------------------
(* The program: it calls what a device is ready for, and uses the device   *)
(* whose context is active.                                                *)

Allowed(call, d) ==
    CASE call \in {"Init", "New"} -> device[d] = "off"
      [] call \in {"Cleanup", "Free"} -> device[d] \in {"on", "failed"}
      [] call = "Activate" -> device[d] = "on" /\ active # d
      [] call \in {"Plain", "Use"} -> device[d] = "on" /\ active = d
      [] call = "Test" -> ~context[Stack].mem

Begin(t, call, d) ==
    /\ thread[t].todo = <<>> /\ Allowed(call, d)
    /\ \A u \in Threads \ {t} :
          /\ Alone /\ thread[u].todo # <<>> => {call, thread[u].call} \cap Lifecycle = {}
          /\ Guarded /\ thread[u].todo # <<>> => {call, thread[u].call} # {"Use"}
    /\ thread' = [thread EXCEPT ![t] =
          [Idle EXCEPT !.call = call, !.dev = d, !.todo = Steps[call],
                       !.ctx = IF call = "Test" THEN Stack ELSE d]]
    /\ context' = IF call = "Test" THEN [context EXCEPT ![Stack].mem = TRUE]
                  ELSE IF call = "Init" THEN [context EXCEPT ![d].mem = TRUE] ELSE context
    /\ UNCHANGED <<active, count, crypto, lock, slots, device, chip>>

-----------------------------------------------------------------------------
(* The steps.                                                              *)

At(t, step) == thread[t].todo # <<>> /\ Head(thread[t].todo) = step
Own(t) == IF thread[t].call = "Test" THEN Stack ELSE thread[t].dev

\* The first unlock among the steps left, and what follows it.
Unlocking(todo) == SubSeq(todo, SelectInSeq(todo, LAMBDA s : s = "unlock"), Len(todo))

Goes(t, h) == thread' = [thread EXCEPT ![t] = IF h.todo = <<>> THEN Idle ELSE h]
On(t) == [thread[t] EXCEPT !.todo = Tail(@)]
Ends(t) == Goes(t, On(t))

\* TPM2_GetActiveCtx at the head of a command: without a context the command
\* returns BAD_FUNC_ARG (wolfTPM2_Cleanup_ex sends none then).
ReadActive(t) ==
    /\ At(t, "ctx")
    /\ Goes(t, IF active # None THEN [On(t) EXCEPT !.ctx = active]
               ELSE [thread[t] EXCEPT !.todo = Tail(Unlocking(@)), !.rc = "fail"])
    /\ UNCHANGED <<active, count, crypto, lock, context, slots, device, chip>>

AcquireNone(t) ==       \* a slip: the lock is not waited for
    At(t, "lock") /\ lock' = t /\ Ends(t)
    /\ UNCHANGED <<active, count, crypto, context, slots, device, chip>>
TPM2_AcquireLock(t) ==
    /\ At(t, "lock") /\ lock = None /\ lock' = t /\ Ends(t)
    /\ UNCHANGED <<active, count, crypto, context, slots, device, chip>>
TPM2_ReleaseLock(t) ==
    /\ At(t, "unlock") /\ lock' = None
    /\ Goes(t, [On(t) EXCEPT !.ctx = Own(t), !.auth = "empty", !.got = None])
    /\ UNCHANGED <<active, count, crypto, context, slots, device, chip>>

\* TPM2_CommandProcess reads the slots that the context points at.
CommandProcess(t) ==
    /\ At(t, "auth")
    /\ LET d == context[thread[t].ctx].session
       IN  Goes(t, IF d = None THEN [thread[t] EXCEPT !.todo = Unlocking(@), !.rc = "fail"]
                   ELSE [On(t) EXCEPT !.auth = slots[d]])
    /\ UNCHANGED <<active, count, crypto, lock, context, slots, device, chip>>

\* INTERNAL_SEND_COMMAND writes the command, or fails; then it reads the answer.
ReturnLocked(t) ==      \* a slip: the early return forgets the lock
    /\ At(t, "send")
    /\ \/ chip' = [who |-> t, call |-> thread[t].call, auth |-> thread[t].auth] /\ Ends(t)
       \/ UNCHANGED chip /\ Goes(t, [thread[t] EXCEPT !.todo = Tail(Unlocking(@)), !.rc = "fail"])
    /\ UNCHANGED <<active, count, crypto, lock, context, slots, device>>
SendCommand(t) ==
    /\ At(t, "send")
    /\ \/ chip' = [who |-> t, call |-> thread[t].call, auth |-> thread[t].auth] /\ Ends(t)
       \/ /\ UNCHANGED chip /\ thread[t].call \in {"Plain", "Use", "Cleanup", "Free"} \cup Failing
          /\ Goes(t, [thread[t] EXCEPT !.todo = Unlocking(@), !.rc = "fail"])
    /\ UNCHANGED <<active, count, crypto, lock, context, slots, device>>
ReceiveAnswer(t) ==
    /\ At(t, "receive") /\ Goes(t, [On(t) EXCEPT !.got = chip.who]) /\ chip' = Quiet
    /\ UNCHANGED <<active, count, crypto, lock, context, slots, device>>

\* wolfTPM2_SetAuth, wolfTPM2_UnsetAuth: the slot is written without the lock.
WriteSlot(t) ==
    /\ \/ At(t, "clear") /\ slots' = [slots EXCEPT ![thread[t].dev] = "empty"]
       \/ At(t, "fill")  /\ slots' = [slots EXCEPT ![thread[t].dev] = t]
    /\ Ends(t) /\ UNCHANGED <<active, count, crypto, lock, context, device, chip>>
PointAtSlots(t) ==
    /\ At(t, "session")
    /\ context' = [context EXCEPT ![thread[t].ctx].session = thread[t].dev]
    /\ Ends(t) /\ UNCHANGED <<active, count, crypto, lock, slots, device, chip>>

\* TPM2_WolfCrypt_Init: the count is read, and raised a step later.
TPM2_WolfCrypt_Init(t) ==
    /\ \/ At(t, "initCrypt") /\ crypto' = (crypto \/ count = 0) /\ UNCHANGED count
       \/ At(t, "refer") /\ count' = count + 1 /\ UNCHANGED crypto
    /\ Ends(t) /\ UNCHANGED <<active, lock, context, slots, device, chip>>

\* TPM2_Init_ex: the context is cleared, its callback set, then it is the active one.
InitContext(t) ==
    /\ \/ At(t, "memset") /\ context' = [context EXCEPT ![Own(t)].session = None] /\ UNCHANGED active
       \/ At(t, "ioCb") /\ UNCHANGED <<context, active>>
       \/ At(t, "activate") /\ active' = Own(t) /\ UNCHANGED context
    /\ Ends(t) /\ UNCHANGED <<count, crypto, lock, slots, device, chip>>
TPM2_ChipStartup(t) ==
    /\ At(t, "startup")
    /\ \/ Ends(t)
       \/ thread[t].call \in Failing /\ Goes(t, [On(t) EXCEPT !.rc = "fail"])
    /\ UNCHANGED <<active, count, crypto, lock, context, slots, device, chip>>
CheckError(t) ==
    /\ At(t, "check")
    /\ Goes(t, IF thread[t].rc = "ok" THEN On(t)
               ELSE [thread[t] EXCEPT !.todo = OnError[thread[t].call]])
    /\ UNCHANGED <<active, count, crypto, lock, context, slots, device, chip>>

\* TPM2_Cleanup: a context that is not the active one leaves the global alone.
DeactivateNone(t) ==    \* a slip: the global is not cleared
    /\ At(t, "deactivate") /\ Ends(t)
    /\ UNCHANGED <<active, count, crypto, lock, context, slots, device, chip>>
Deactivate(t) ==
    /\ At(t, "deactivate") /\ active' = IF active = Own(t) THEN None ELSE active
    /\ Ends(t) /\ UNCHANGED <<count, crypto, lock, context, slots, device, chip>>
FreeAlways(t) ==        \* a slip: wolfCrypt is cleaned up whatever the count
    /\ \/ At(t, "unrefer") /\ count' = Max({count - 1, 0}) /\ UNCHANGED crypto
       \/ At(t, "freeCrypt") /\ crypto' = FALSE /\ UNCHANGED count
    /\ Ends(t) /\ UNCHANGED <<active, lock, context, slots, device, chip>>
FreeCrypt(t) ==
    /\ \/ At(t, "unrefer") /\ count' = Max({count - 1, 0}) /\ UNCHANGED crypto
       \/ At(t, "freeCrypt") /\ crypto' = (crypto /\ count > 0) /\ UNCHANGED count
    /\ Ends(t) /\ UNCHANGED <<active, lock, context, slots, device, chip>>

\* XMALLOC and XFREE of a device; wolfTPM2_Test's frame ends.
Memory(t) ==
    /\ \/ At(t, "malloc") /\ context' = [context EXCEPT ![thread[t].dev] = [mem |-> TRUE, session |-> None]]
       \/ At(t, "free")   /\ context' = [context EXCEPT ![thread[t].dev].mem = FALSE]
       \/ At(t, "return") /\ context' = [context EXCEPT ![Stack].mem = FALSE]
    /\ Ends(t) /\ UNCHANGED <<active, count, crypto, lock, slots, device, chip>>

\* wolfTPM2_Test: current_ctx.
BackupContext(t) ==
    /\ \/ At(t, "save") /\ Goes(t, [On(t) EXCEPT !.saved = active]) /\ UNCHANGED active
       \/ At(t, "restore") /\ active' = thread[t].saved /\ Ends(t)
    /\ UNCHANGED <<count, crypto, lock, context, slots, device, chip>>

\* The program notes what came of the call.
Note(t) ==
    /\ \E state \in {"on", "off", "failed"} :
          At(t, state) /\ device' = [device EXCEPT ![thread[t].dev] = state]
    /\ Ends(t) /\ UNCHANGED <<active, count, crypto, lock, context, slots, chip>>

Step(t) ==
    \/ ReadActive(t) \/ TPM2_AcquireLock(t) \/ TPM2_ReleaseLock(t) \/ CommandProcess(t)
    \/ SendCommand(t) \/ ReceiveAnswer(t) \/ WriteSlot(t) \/ PointAtSlots(t)
    \/ TPM2_WolfCrypt_Init(t) \/ InitContext(t) \/ TPM2_ChipStartup(t) \/ CheckError(t)
    \/ Deactivate(t) \/ FreeCrypt(t) \/ Memory(t) \/ BackupContext(t) \/ Note(t)

Next == \E t \in Threads : Step(t) \/ \E call \in DOMAIN Steps, d \in Devices : Begin(t, call, d)

\* The operating system schedules every thread, and the mutex is fair.
Spec == Init /\ [][Next]_vars /\ \A t \in Threads : WF_vars(Step(t)) /\ SF_vars(TPM2_AcquireLock(t))

-----------------------------------------------------------------------------
(* Properties.                                                             *)

StepNames == {"ctx", "lock", "auth", "send", "receive", "unlock", "session", "clear", "fill", "memset",
              "initCrypt", "refer", "ioCb", "activate", "startup", "check", "deactivate", "unrefer",
              "freeCrypt", "on", "off", "failed", "malloc", "free", "save", "restore", "return"}
ThreadState == [call : DOMAIN Steps \cup {None}, dev : Devices \cup {None}, todo : Seq(StepNames),
                ctx : Contexts \cup {None}, saved : Contexts \cup {None}, auth : Threads \cup {"empty"},
                got : Threads \cup {None, "nobody"}, rc : {"ok", "fail"}]
TypeOK ==
    /\ active \in Contexts \cup {None} /\ lock \in Threads \cup {None}
    /\ count \in Nat /\ crypto \in BOOLEAN
    /\ slots \in [Devices -> Threads \cup {"empty"}] /\ device \in [Devices -> {"on", "off", "failed"}]
    /\ context \in [Contexts -> [mem : BOOLEAN, session : Devices \cup {None}]]
    /\ chip \in [who : Threads \cup {"nobody"}, call : DOMAIN Steps \cup {None}, auth : Threads \cup {"empty"}]
    /\ thread \in [Threads -> ThreadState]

\* A command takes for its answer what the TPM said to that very command,
\* whatever other threads send meanwhile: the lock is held from the first
\* byte sent to the last received.
OwnAnswer == \A t \in Threads : At(t, "unlock") => thread[t].got \in {None, t}

\* In a program that makes no call while another thread is in one of Lifecycle
\* (Alone; without it two threads race for gWolfCryptRefCount, which no lock
\* protects): gHwLock is locked and wolfCrypt used only while they are initialised,
\* and they are cleaned up when the last device is gone, so Init and Cleanup, also
\* those inside wolfTPM2_Test and after a failed wolfTPM2_Init, balance.
CryptoUp ==
    /\ \A t \in Threads : At(t, "lock") \/ At(t, "auth") \/ lock = t => crypto
    /\ (\A t \in Threads : thread[t].todo = <<>>) => (crypto <=> \E d \in Devices : device[d] # "off")

\* In the same programs, whatever the order of their Init (also a failed one), New,
\* Cleanup, Free, Activate and successful Test: the active context, the one whose
\* command holds the lock, and the slots of a device that the active context points
\* at, are in memory that is still there.  A program that makes or frees a context
\* while another thread is in a command has no such promise, nor one whose
\* wolfTPM2_New or wolfTPM2_Test failed: those leave gActiveTPM at memory that is gone.
ActiveIsLive ==
    /\ active # None => /\ context[active].mem
                        /\ context[active].session # None => context[context[active].session].mem
    /\ \A t \in Threads : thread[t].todo # <<>> /\ lock = t => context[thread[t].ctx].mem

\* In programs that also keep two threads off the slots of one device (Guarded;
\* without it a thread can send what another has just filled in): what a thread's
\* authorised command takes to the TPM is the authorisation this thread has set, and
\* a command without sessions takes none.
OwnAuth == chip.auth = (IF chip.call = "Use" THEN chip.who ELSE "empty")

\* Every call returns: nobody keeps the lock.
CallReturns == \A t \in Threads : (thread[t].todo # <<>>) ~> (thread[t].todo = <<>>)
=============================================================================

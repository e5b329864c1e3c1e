# wolfTPM in TLA+

A TLA+ model of wolfTPM: the SPDM requester, the marshalling and authorisation
of TPM commands, the wrapper's objects, sessions, key templates and callbacks,
the library's lock, and every transport. TLC checks the properties on small
instances; TLAPS proves the most important ones for every value of the
constants.

## The system

wolfTPM is a C library for TPM 2.0. A call of the wrapper (`wolfTPM2_*`,
`src/src/tpm2_wrap.c`) fills a session slot or two and calls native commands
(`TPM2_*`, `src/src/tpm2.c`). A command takes `gHwLock`, marshals its input
(`tpm2_packet.c`), authorises and encrypts it with the slots
(`tpm2_param_enc.c`), and hands it to one transport: an SPDM session if there
is one, else TIS over SPI or I2C, `/dev/tpm0`, a simulator socket, U-Boot or
Windows TBS. The SPDM requester (`src/src/spdm`) sets up that session with the
TPM's responder and shares the bus through an I/O callback. wolfCrypt reaches
the TPM from above, through the callbacks of `tpm2_cryptocb.c`.

| Component | State | Operations | What is hard |
|---|---|---|---|
| SPDM requester (`spdm/*.c`) | `WOLFSPDM_CTX`: state, transcript, keys, session id, two sequence numbers, PSK | configure, `Connect` (identity key or PSK), secured exchange, `Disconnect`, PSK provisioning, `Free` | failures in any of seven exchanges, lost answers, TPM resets, reconnects, numbers that restart |
| SPDM glue (`tpm2_spdm.c`, `wolfTPM2_Spdm*`) | `WOLFTPM2_SPDM_CTX`, mode, I/O callback | init, connect, enable, provision, secured TPM command, cleanup | return-code conventions, what survives a reset or a mode change |
| Command authorisation (`tpm2.c`, `tpm2_packet.c`, `tpm2_param_enc.c`) | three `TPM2_AUTH_SESSION` slots | count, encrypt and HMAC, verify and decrypt | order of encryption and HMACs, nonces in step with the TPM |
| Native commands (`tpm2.c`, `tpm2_packet.c`) | the packet | about 120 functions: marshal, send, unmarshal | field order, handle counts and flags written by hand, lists and unions |
| Lock and contexts (`tpm2.c`) | `gHwLock`, `gActiveTPM`, `gWolfCryptRefCount` | init, cleanup, lock, unlock | threads |
| TIS (`tpm2_tis.c`) | locality, status register, semaphore | request, write, poll, read | timeouts, a command abandoned half way, two processes |
| Other transports | file descriptor, socket | send and receive | partial reads, stale answers |
| Wrapper objects, NV (`tpm2_wrap.c`) | handles, names, slots | create, load, import, persist, NV, PCR, sequences, firmware | leaks on error paths, names and values that go stale |
| Key templates, session keys (`tpm2_wrap.c`, `tpm2_param_enc.c`) | key material of sessions and slots | templates, salts, binds, parameter keys, import | the TPM computes the same values unseen |
| Crypto callbacks (`tpm2_cryptocb.c`) | contexts behind `devCtx`, hash cache | dispatch to the TPM | copies that share a context, failure half way |

Status and reasons are in `PROJECT.json` under `components`; what is hard to
test, with the line where it bites, under `hazards`.

## Modules

| Module | What it is |
|---|---|
| `SpdmSession` | the requester, the responder as far as the requester depends on it, and the bus |
| `SpdmChannel` | abstract: what a session promises its user (closed, open, broken) |
| `CommandPath` | SPDM or plain transport, by return code, over `SpdmChannel` |
| `SpdmDevice` | extends `CommandPath`: a `WOLFTPM2_DEV` with SPDM from init to cleanup |
| `CommandAuth` | slots with nonces, wrapper calls on them, one authorised command |
| `PacketFields` | Append and Parse functions as cells, beside the structures of `tpm2.h` |
| `CommandInterface`, `CommandMarshal`, `CommandTable` | the `X_In`/`X_Out` structures; the `TPM2_` functions; both by command |
| `CommandLayout` | one command from the function that marshals it to the fields it hands back |
| `SessionSlots` | the slots with values and names, `TPM2_GetCmdAuthCount` |
| `WrapperSteps` | the vocabulary of steps in which wrapper functions are written down |
| `WrapKeys`, `WrapData`, `WrapCrypto` | the functions of `tpm2_wrap.c` and `tpm2_cryptocb.c` |
| `WrapperApi`, `WrapperCalls` | the calls a program makes; the machine that runs them against a TPM |
| `KeyTemplates`, `SessionKeys` | templates; derived keys of host and TPM |
| `HashCache` | contexts and buffers of the hash callback |
| `CommandTransport` | abstract: what `INTERNAL_SEND_COMMAND` promises |
| `TisTransport`, `HostTransports`, `Transports` | the transports, and their composition by build |
| `LibraryLock` | threads, lock, active context, reference count |
| `SpdmSessionProofs` | theorems about `SpdmSession`, its refinement of `SpdmChannel` among them |
| `SpdmDeviceProofs`, `CommandAuthProofs`, `HashCacheProofs`, `LibraryLockProofs`, `SessionKeysProofs`, `TransportProofs` | theorems about the module of the same name |
| `SelectionLemmas` | lemmas about the library's `Min`, `Max`, `SelectInSeq` and the folds with `+` |
| `MC*` | constants for TLC |

An operator marked "a slip" is a plausible mistake, kept beside the definition
it would replace: substituted for it, the property named in `PROJECT.json`
fails.

### SpdmSession

A state is a `WOLFSPDM_CTX` between two exchanges. `pc` is the step of the call
in progress ("idle" between calls); the other variables keep the names of the
C fields, except that `dataKey` stands for the handshake and data keys of both
directions, which are derived together. The responder's variables start with
`tpm`. `epoch`, `sealed`, `ivReused`, `attempt` and `faults` are history.

An exchange is one action, because `ctx->ioCb` is one synchronous call. The
action covers the whole handler: what is added to the transcript and when,
which fields are stored before a check fails, and what `SPDM_CONNECT_STEP` does
to `ctx->state`. The bus may lose the request or the answer, may alter one
message of a clear exchange (of a VERSION answer some entries, of another
message its content), the responder may refuse, and the TPM may be reset
between two exchanges.

Cryptography is symbolic. A transcript hash is the transcript; a signature or
HMAC verifies iff both sides computed it over the same transcript; a key is the
record of what it was derived from (secret, the requester's randomness,
transcript). A record decrypts iff keys, session id and number agree. A
responder is assumed to restart its connection at GET_VERSION, and to answer
each accepted record with one record.

| Action | Code |
|---|---|
| `InitCtx`, `Free`, `SetIO`, `SetMode`, `SetRequesterKeyPair`, `SetRequesterKeyTPMT`, `SetPSK` | `spdm_context.c`, `spdm_psk.c`, `tpm2_spdm.c` |
| `Connect` | `wolfSPDM_Connect` up to the first message |
| `GetVersion`, `GetCapabilities`, `NegotiateAlgorithms`, `GetPubKey`, `KeyExchange`, `GivePubStep`, `Finish` | the steps of `wolfSPDM_ConnectTCG` |
| `PskExchange`, `PskFinish` | the steps of `wolfSPDM_ConnectPsk` |
| `StepAborts` | random generator, allocation or cipher failure before sending |
| `TpmCommand`, `SetOnlyMode`, `GivePubKey`, `Disconnect` | secured exchanges outside a handshake |
| `PskSet`, `PskClear`, `PskClearWithVCA` | `spdm_nations.c` |
| `TpmReset` | power cycle or reset line (external) |

`SpdmChannel` is the abstract specification. `ChannelSafe` is the refinement:
status is open when the context is CONNECTED and both ends agree on key,
session id and both numbers, broken when it is CONNECTED and they do not. The
abstract channel carries an exchange only while open and never goes from broken
to open, so a lost record can never be made up for by another one.

### CommandPath and SpdmDevice

`CommandPath` is `TPM2_SendCommand` over the abstract channel: a return code
from `wolfTPM2_SPDM_SecuredExchange` that is the answer's size, a negative
`WOLFSPDM_E_*`, or -1 for "not active", and the decision taken by its sign.

`SpdmDevice` is the program around it. `dev` is the `WOLFTPM2_DEV` with its SPDM
context (mode, I/O callback, key pair, PSK); `tpm` is what the TPM has
provisioned, now and after its next reset (SPDM on or off, SPDM-only, identity
key, PSK); `call.todo` is the rest of the call that runs. The handshake itself
is one step, since `SpdmSession` has shown what it does: it opens the channel,
or fails. Like the code it goes on from the record numbers of the context
(`c.used`: they are not zero): a session leaves those of its records, a failed
handshake may leave some, only `wolfTPM2_SpdmDisconnect` and a new context
start at zero, and a handshake from other numbers fails (`MayOpen`).
`CleanConnect` is therefore about a call from numbers at zero (`Able`). Every `wolfTPM2_Spdm*` call that changes state is an action. The
TPM may be reset and the program may restart between any two steps.

### CommandAuth

A state is the slot array, the application's sessions and the TPM's. A session
is its key (the number of the call that started it) and its current `nonceTPM`;
a nonce is the number of the command that made it, so nonces never repeat. One
`Command(f)` is one `TPM2_SendCommandAuth` under the lock, for a command whose
`CmdInfo_t.flags` say `f`: USER1 and USER2 (a handle to authorise; ADMIN and
DUP count like USER1), ENC and DEC (a first parameter that can be encrypted).
`CmdAuthCount` is the loop of `TPM2_GetCmdAuthCount`; slots 0 to its result - 1
are sent. The parameter is told apart by the set of slots that have encrypted
it: `Covered(i, f)` is what the HMAC of slot i covers, `AsSent(f)` what travels.
The TPM's side (`Proper`, `TpmAccepts`, `TpmRolls`) follows the TPM 2.0 rules
the code is written against: one authorisation per handle that needs it,
further sessions only with decrypt, encrypt or audit, at most one that
decrypts and one that encrypts, HMACs over the bytes received.

The answer may be lost, or damaged in its parameters, in one entry's nonce or
HMAC, or in its tag. With a damaged tag (`tpm2.c:522`) `TPM2_SendCommandAuth`
does not call `TPM2_ResponseProcess`, so nothing is verified and the call
succeeds; the model keeps that case and `AnswerIntact` names it as the one
alteration that is taken. Passwords are taken to be right and
policies satisfied. Names and handle counts are `CommandLayout`'s subject,
values and key material `SessionKeys`'.

`Uses` says in which slots, and with which attributes, the application uses
its sessions; `disturbed` is the history of sessions that lost step, defined in
each action by the cause and not by comparing nonces.

### CommandLayout and its tables

A packet is a sequence of cells, one for what one Append or Parse call handles.
`CommandInterface` lists the fields of each `X_In` and `X_Out` structure of
`tpm2.h`, which follow the TPM's interface; `CommandMarshal` lists for each
`TPM2_` function of `tpm2.c` its `CmdInfo_t`, its tag, and its Append and Parse
calls in order. The two are written down independently, the first from the
header and the second from the function body. `PacketFields` says which cells a
structure has and which cells an Append or Parse function touches, for every
variant of a union (key type, symmetric algorithm, scheme, signature,
capability, attestation) and for lists that fit and lists that do not.

`CommandLayout` takes one command at a time through `Marshal` (the function
builds the packet, `TPM2_GetCmdAuthCount` counts the slots), the search of
`TPM2_CommandProcess` for handles and first parameter, the TPM's reading, the
TPM's response, the search of `TPM2_ResponseProcess` and the function's
reading. Each reading yields the pairs of cells expected and met.

### WrapperCalls and its tables

A function of the wrapper is a sequence of steps (`WrapperSteps`): set a slot,
send a command with a certain effect on the TPM, copy fields between
structures, a host computation that may fail, a block for a called function, a
condition or a loop; a step runs after success, after failure or always, as the
`if (rc == 0)` and `goto` of the code have it. `WrapKeys`, `WrapData` and
`WrapCrypto` hold about 150 such functions, named as in C; `WrapperApi` says
which a program calls, on which structures, and what it has to see to before
(`Rules`): these are the preconditions the functions have without stating them.

`WrapperCalls` runs them, one step an action, against a TPM that keeps the
value and the name of each entity; the first write of an NV index and its lock
change its attributes and so its name, and a locked index takes no write. `mem`
is the caller's structures and the function's stack, which is junk until it is
written; `slots` are `SessionSlots`. Two histories hold what the code loses:
`lost` the handles whose own flush or completion failed, which no code could
free, and `underived` the sessions of a `wolfTPM2_StartSession` whose key
derivation failed on the host, which the code could flush and does not
(`tpm2_wrap.c:2516-2525`). `NoOrphan` names both. A program belongs to
one family of calls (keys, imports, NV, sequences, callbacks and so on); calls of
different families share only slot 0 and handles that every family uses as well.

`NeverRefused` is conditional on the rules of `Kept`, which the functions need
and do not check: an index is opened again after a write or a lock through other
means than the function's own (`opened`; `wolfTPM2_NVWriteAuth` opens it itself
for each chunk, `wolfTPM2_NVReadAuth`, `_NVIncrement` and `_NVWriteLock` trust the
cached name), slot 0 holds a blank password before `wolfTPM2_ResetPCR`,
`_NVDeleteKey`, `_Clear` and `_ChangePlatformAuth` (`blank`), and so on. What a
program that breaks them meets is listed under "Behaviour worth knowing".

### SessionKeys and KeyTemplates

A derived value is the record of all that went into it; buffers are pieces with
byte counts where the code copies block by block. The library's side follows
the loops of `TPM2_KDFa` and `TPM2_KDFe`, the padding in
`wolfTPM2_EncryptSecret_ECC`, and the concatenation of session key and
authorisation value in `wolfTPM2_SetAuthHandle`; the TPM's side is defined as
the TPM 2.0 library specification has it. Actions: create a key from a template,
start a session (salted, bound, both, neither), the slot setters, the policy
calls, a command with parameter encryption, an import under a parent.

### HashCache

`obj` are wolfCrypt hash objects, `ctx` the heap of `WOLFTPM2_HASHCTX`, `seqs`
the sequences in the TPM. Allocation and each TPM command may fail. A copy has
the same `devCtx` as its original and the flag ISCOPY; the shared context has no
count of its objects. wolfCrypt is external, and its use of the callback is
assumed, in two guards: an object that has copies is not used until they are
finished or freed (`MayUse`), and a copy is finished or freed but given no data
and not copied again (`MayUpdate`). Uses outside these reach the shared context
through either object, and nothing is claimed of them: the code has no defence.
Any object may be freed at any time; the callback is not told, so its context and
sequence stay. Sizes stay below the wrap of `word32` and the `BUFFER_E` check, and
a call with data and digest at once, which needs no context, is `CbHashOnce` of
`WrapCrypto`.

### Transports

`TisTransport` has one action per bus transaction, for two processes with the
named semaphore; the chip moves in its own time. `HostTransports` has one
action per system call. A transaction or system call may fail with or without
effect, a poll may run out, a process may die anywhere. `CommandTransport` is
the abstract specification; `Implements` says that each build refines it.

### LibraryLock

A call is the list of its steps; a step that takes the lock waits for it. `ctx`
is the context a thread read before it took the lock. The library protects the
exchange with the TPM and nothing else: `gActiveTPM` and `gWolfCryptRefCount` are
read and changed outside the lock, and `wolfTPM2_SetAuth` writes the slots outside
it. Two assumptions about the program stand in for that protection. `Alone`: no
call is made while another thread makes, destroys or activates a context;
`Guarded`: a thread's use of a device's slots (set, command, unset) is not
interleaved with another's use of the same slots. They are the model's: the
repository states neither, its unit tests break the first
(`src/tests/unit_tests.c:1512-1553`), and the ChangeLog's thread safety makes no
mention of the second. Without them `CryptoUp`, `ActiveIsLive` and `OwnAuth` fail.
`OwnAnswer` and `CallReturns` need neither. With them the run shows that the count
balances over nested and failed inits, that no context that is gone, nor one whose
slots are gone, stays active (a failed `wolfTPM2_New` or `wolfTPM2_Test` excepted,
see below), and that a command without sessions takes no authorisation along. A
native function is one bracket of acquire and release: that each of about 120
functions gives the lock back on each early return was read, not checked.

## Runs

| Run | Checks | Shows |
|---|---|---|
| `spdm_nuvoton` | `TypeOK`, `NonceUnique`, `ErasedWhenClosed`, `ConnectAgrees`, `ChannelSafe` | the identity-key flow: two handshakes, two faults |
| `spdm_nations` | `TranscriptFits`, `CleanConnectSucceeds`, `ConnectAgrees`, `CallReturns` | answers that enter the transcript unread, and a transcript filled by `PskClearWithVCA` |
| `spdm_psk` | `ConnectAgrees`, `ChannelSafe` | the PSK flow with two keys and provisioning |
| `auth` | `NoncesInStep`, `AnswerIntact`, `CleanCommandSucceeds` | a policy and an HMAC session in three slots, a command with parameters to encrypt and one with two handles to authorise |
| `layout` | `RequestInStep`, `ResponseInStep`, `HashesAgree`, `EncryptsFirstParameter` | every command's packet, cell by cell |
| `wrapper` | `NoOrphan`, `NeverRefused`, `StructTrue` | programs over the wrapper that keep its unstated rules, with failures anywhere |
| `transport` | `CleanCallSucceeds`, `Implements`, `CallReturns` | six builds, refinement of the abstract transport; that calls return, for TIS |
| `lock` | `OwnAnswer`, `CryptoUp`, `ActiveIsLive`, `OwnAuth`, `CallReturns` | two threads, two devices, for programs that are `Alone` and `Guarded` |
| `hash` | `DigestCovers`, `CacheFits` | three objects, two contexts, updated, copied, finished and freed |
| `device` | `CleanConnect`, `ShutdownReaches`, `SessionEnds` | a device with SPDM over its life; connects from record numbers at zero |
| `session_keys` | `TypeOK`, `SessionKeysAgree`, `MeantUseWorks`, `ImportUnwraps`, `TemplateAccepted` | key material on both sides |
| `path_success` | `RanIsSuccess` (violated) | an answer's size taken for an error |

`RanIsSuccess` states what `src/wolftpm/tpm2_spdm.h:157` says of the return
value; `findings` quotes it. The type invariants of the modules not listed with
one document their variables.

**Bounds.** `MaxEpoch` 2 lets a handshake follow a failed or finished one (1 in
`spdm_nations`, which starts from a transcript that other calls filled), and
what goes wrong between two goes wrong between any two, since nothing but the
context survives. `MaxFaults` 2 (1 with PSK and Nations) lets a fault interrupt
a handshake and another, or a reset, the next. `MaxSeq` 2 gives a session
enough records to lose one and try again (1 in `spdm_psk`, whose second key
costs the states). `MaxTranscript` is in messages and
fits the longest flow exactly once. `MaxCommands` 3 of `auth` is a start of each
session and a command, or one start and two commands, with every order of slot
calls between; slot calls need no bound. `ListCap` 1 with lists of up to two
entries reaches the clamped and the unclamped case; the run leaves out
`PolicyTicket`, `CreateLoaded`, `GetTestResult` and `PCR_Read`, whose functions
differ from the interface (below). `wrapper` has three transient handles and two
sessions, as many as the deepest function needs plus one of the caller's, and no
bound on calls. `Tries` 2 stands for `TPM_TIMEOUT_TRIES`: one poll that goes on
and one that gives up; `CmdLen` and `RspCap` 2 give one FIFO access that is
complete and one that is not; `MaxCalls` 2 and `HostCalls` 3 let a call follow
one that left something behind. `hash`: lengths 0, 1 and 3 against a `Block` of
2 fill a block, overflow it and leave it. `device`: two resets let provisioning
take effect and be undone. `session_keys` takes the templates, objects and
sessions of the repository's tests and examples, with real byte sizes.

**Symmetry**: the two PSKs of `spdm_psk` and the objects of `hash` are
interchangeable, and neither run checks liveness.

**Fairness.** `SpdmSession`: weak fairness of `Step`, the continuation of a call
in progress; the call runs in the caller's thread and each wait of the transport
gives up after `TPM_TIMEOUT_TRIES` polls, with an error that is one of the
outcomes of the step. `LibraryLock`: weak fairness of each thread's next step,
and strong fairness of taking `gHwLock`, since the mutex of the operating system
does not starve a waiting thread for ever. `Transports`: weak fairness of a
process in a call over TIS, and nothing of the chip: each transaction of the bus
ends, well or badly, and the polls are counted. Of the other transports no
liveness is claimed: the poll of the Linux device has no timeout
(`tpm2_linux.c:107-108`), and a read from the simulator may block for ever, as its
own comment says (`tpm2_swtpm.c:318-320`). Nowhere is anything assumed of the
application.

**Deadlock** is checked in every run but `transport`, whose bound on the
commands of a build stops it. In `lock` it is the check that no order of calls
leaves two threads waiting on `gHwLock` for each other.

## Proofs

Each theorem holds for every value of the constants that the named assumptions
of the model's module allow (and, where said, under a hypothesis of its own).
The assumptions say that bounds are natural numbers, that the model values for
"nothing" are none of the real ones, and that sizes are what the code defines
(`CmdLen`, `Block` not 0; an answer has at least the ten bytes of its header);
processes and hash contexts are finitely many. What a theorem shares with a run
is the property: the run names it in its cfg, the theorem states it.

### `SpdmSessionProofs`

* `TypeCorrect`: `Spec => []TypeOK`.
* `NoNonceReuse`: `Spec => []NonceUnique`. `NonceUnique` is not inductive. The
  invariant is `KeysInOrder`: keys carry the number of the exchange that made
  them, the key in use has only sealed numbers below `reqSeqNum`, and during
  the secured part of a handshake the key is the newest one and no record has
  been sealed under an application key of this exchange. The last part is what
  makes the restart of the numbers in `wolfSPDM_DeriveAppDataKeys` safe: the
  key changes in the same step, to one that no record has used. It is needed
  that the zero key is excluded: a context that failed before key derivation
  may still be asked to seal (`wolfSPDM_TCG_GivePubKey` in state ERROR).
* `ClosedIsErased`: `Spec => []ErasedWhenClosed`, through `InitMeansErased`,
  which adds what holds inside a call: only `Connect` puts a context that is not
  erased into INIT, and it leaves INIT with its first step.
* `ConnectMeansAgreement`: `Spec => ConnectAgrees`, and `ChannelImplemented`:
  `Spec => ChannelSafe`, the refinement of `SpdmChannel`. Both rest on
  `InSession`: besides `KeysInOrder`, what the responder offered is still what
  the requester recorded (`TpmOffered`, `VersionRecorded`), and `ConnectedMeans`:
  while the two ends of a connected pair have the same key, the responder has
  accepted no more records than were sent and sent no fewer than were accepted.
  So once a number differs it differs for good, which is what the refinement
  needs: the abstract channel never goes from broken to open.
* `FlowsFit`: `Spec => []TranscriptFits`, if `MaxTranscript` has room for the
  longer handshake (`LongestFlow`, 16 messages). `FlowRoom` bounds the
  transcript by the step of the call, from the empty one that a connect starts
  with, and by `MaxTranscript` where `PskClearWithVCA` adds to one that is not
  emptied.
* `CleanConnectsSucceed`: `Spec => []CleanConnectSucceeds` under the same
  hypothesis, through `Undisturbed`: at each step of a handshake without faults,
  both transcripts, keys and numbers are equal.

### `SpdmDeviceProofs`

* `CleanConnectOpens`, `CleanupShutsDown`, `CleanupEndsSession`: `CleanConnect`,
  `ShutdownReaches` and `SessionEnds`. The first has the precondition of the
  property: the TPM is provisioned for the context and the record numbers are at
  zero, so the handshake of a context that was interrupted before is outside it;
  it has to be shown that nothing between the call's start and its handshake
  touches them. The invariant `Promises` follows each call
  from step to step: what `wolfTPM2_SpdmConnect*` has set up so far (`Connecting`),
  and which steps of `wolfTPM2_Cleanup` are still to come and over which
  transport they will go (`CleaningUp`).

### `CommandAuthProofs`

* `CommandTypeCorrect`: `Spec => []TypeOK`, for any number of slots and sessions.
* `SessionsInStep`: `Spec => []NoncesInStep`. The invariant `StepInv` adds that
  an undisturbed session sits in at most one slot and that the keys of the
  application's session and the TPM's agree while both are open.
* `AnswersAreIntact`: `Spec => []AnswerIntact`: under an HMAC or policy session no
  success with an answer whose parameters, nonces or HMACs were altered. An answer
  whose tag was altered to deny its sessions is not covered, because the code
  accepts it. It follows from one command, whatever state it starts in.
* `CleanCommandsSucceed`: `Spec => []CleanCommandSucceeds`. A session's HMAC can
  only be checked if its nonce has the size of a hash, which `NonceMeansHash`
  carries from the start of the session to the command.

### `HashCacheProofs`

* `HashTypeCorrect`, and `DigestsCover`: `Spec => []DigestCovers`, both from
  `Consistent` and for programs that use the callback as wolfCrypt is assumed to
  (`MayUse`, `MayUpdate`). `Consistent` says
  that the context behind an object holds just the data the object was given
  (`Matches`), that a context has one object which is no copy (`OneOwner`), and
  that each TPM sequence that is not lost has one context (`HandlesMatch`). The
  digest needs the second part, since an update of one object must not reach
  the data of another, and freeing a context after its digest needs all three.
* `CachedDataFits`: `Spec => []CacheFits`. The property speaks of a buffer that is
  there; `AllFit` adds that a context without one has cached nothing, and that what
  is cached are chunks that have been given. An update appends one chunk and
  leaves the earlier ones as they are, so the sum over the cached data grows by
  that chunk (`TotalAppend`) and no other sum changes (`TotalOther`), and a buffer
  grown to whole blocks holds it (`RoundUpHolds`).

### `LibraryLockProofs`

* `LockTypeCorrect`, and `AnswersAreOwn`: `Spec => []OwnAnswer`, for any threads,
  devices and programs, also with `Alone` and `Guarded` false and any failures.
  `Exclusive` reads mutual exclusion off the program: the steps of each
  call are bracketed (`Bracketed`: what may stand between "lock" and "unlock"),
  errors jump from inside a bracket to its "unlock" (`SelectInSeq`), so a thread's
  next step is inside a bracket iff the thread holds the lock.

### `TransportProofs`

* `TransportsImplement`: `Spec => Implements`, the refinement of
  `CommandTransport` by all builds, and `CleanCallsSucceed`:
  `Spec => []CleanCallSucceeds`.
* `TisInv`: the process that holds the semaphore knows the chip's state and
  FIFO at each step of its writing (`WriteKnows`) and reading (`ReadKnows`); a
  command the chip is about to run is whole, was sent, and has not been run
  (`ChipFits`), whoever has died since; so an answer that can be read is the
  answer to the command just sent. For the other builds `HostInv`, and for each a statement of
  what its process knows of the peer at each step (`LinuxKnows`, `SwTpmKnows`,
  `WinApiKnows`): an answer nobody fetched stays in the kernel, which
  refuses the next write until it is read; one in a socket goes with the socket.

### `SessionKeysProofs`

The constants are the objects, templates and starts of sessions; `ObjectAssumption`
says that an authorisation value fits a `TPM2B_AUTH` and that a name has one
entity, `TemplateAssumption` that a template has the fields of a `TPMT_PUBLIC`.

* `SoundHolds`: `Spec => []Sound`, from which the next four follow. `TypeOK` does
  not stand alone, since a value is put behind a session key, into a buffer
  that may hold a longer one already; `Sound` judges a slot by the session it was
  filled from (`FirstSlot`, `SecondSlot`: what stands behind the first 32 bytes is the
  value of one object, or what the session had), a session by the TPM's
  (`SessionSound`), and a salt by the key that was kept. Slots filled before their
  session was started again are stale and judged only by their shape.
* `TypeCorrect`: `Spec => []TypeOK`. The size of a buffer is a sum over its pieces
  (`SizeIsSum`), and `BehindKey` replaces the pieces behind the first.
* `SessionsAgree`: `Spec => []SessionKeysAgree`, for a salt under any key the
  host accepts, a bind, both or neither. Both derivations are block by
  block, and agree because the host pads the shared point to the curve's size and
  HMAC fills a short key with zeros, so keys are compared after that (`HmacKey`).
* `ImportsUnwrap`: `Spec => []ImportUnwraps`, and `MeantUseIsUnderstood`:
  `Spec => []MeantUseWorks`. The second compares, slot by slot, the HMAC keys and
  the keys and nonces of XOR and CFB on both sides in both directions.
* `TemplatesAreAccepted`: `Spec => []TemplateAccepted`. What is a documented use of
  a getter is `Gotten`: its named arguments, any size of an RSA or symmetric key.
  `WithUnique` is such a template after `wolfTPM2_SetKeyTemplate_Unique` with a field
  of up to twice the RSA buffer, where it is cut. `MeantAssumption` says that the
  templates marked as meant are of those two kinds; the run's are. `Fine` lists
  what a TPM looks at; it is shown of each getter (`GottenIsSane`) and kept by the
  setter.

### What stays with TLC

* Liveness under fairness: `CallReturns` of `SpdmSession`, of `LibraryLock` and,
  for TIS, of `Transports`.
* `CryptoUp`, `ActiveIsLive` and `OwnAuth` of `LibraryLock`: they hold for programs
  that are `Alone` and `Guarded`, which the code does not ask for, so the run of two
  threads is what they deserve.
* `RequestInStep`, `ResponseInStep`, `HashesAgree` and `EncryptsFirstParameter` of
  `CommandLayout`. They compare two tables written from two sources, command by
  command; a proof would evaluate each of about 115 entries for each variant,
  which is what the run does. The commands are fixed by the code; what the run
  bounds are the lists and the fillings of the slots.
* `NoOrphan`, `NeverRefused` and `StructTrue` of `WrapperCalls`, which are about the
  tables of `WrapKeys`, `WrapData` and `WrapCrypto`. The module's constants are the
  families of calls, of which the run takes all; the run visits every state of the module, in which
  the numbers of handles and sessions are fixed (see Bounds).

The sums over a sequence (`Size`, `Total`) are folds of the library, recursive
functions over data. What is proved of them needs no induction principle with an
operator parameter: a function that satisfies the recursion exists on the finite
sets in question, since a least set without one would have one, and two that do
are equal for the same reason (`SumExists`, `SumUnique`, `TotalExists`,
`LeastExists`).

## Behaviour worth knowing

Met while the code was read and modelled. The models follow the code in each
case; where a property would fail for it, the property or the run excludes the
case by name. `RanIsSuccess` is kept as a run.

Promises of docs, comments or tests that the code does not keep:

* A GPIO reset "clears stale SPDM state" (`src/src/spdm/README.md:440-443`), but
  `wolfSPDM_ConnectTCG` (`spdm_tcg.c:483`) keeps the sequence numbers of an
  interrupted handshake, and a fresh TPM refuses its first record. The context
  has to be freed.
* HMACs are computed "after encryption" (`tpm2.c:257-259`) only for one session:
  with two, the first HMAC covers the parameter before the second slot encrypts
  it, and the TPM refuses the command.
* "Only an HMAC session with encrypt, decrypt or audit set"
  (`tpm2_packet.c:310-311`) is counted, but the count is used as a prefix of the
  slots, so an idle session in slot 1 is sent in place of a useful one in slot 2.
* `wolfTPM2_UnsetAuthSession` "saves the nonce" (`tpm2_wrap.h:702-704`) of
  whatever the slot holds; after `wolfTPM2_StartSession` slot 0 is not the
  session's any more.
* "SPDM active but failed, do not retry cleartext" (`tpm2.c:543`): SPDM errors
  are negative like "not active", so the command is sent again in the clear.
* `wolfTPM2_Init` with automatic SPDM (`tpm2_wrap.c:280-306`,
  `src/src/spdm/README.md:404-409`) cannot succeed on an SPDM-only TPM: nothing
  has set the I/O callback or the mode of the new context, and `wolfSPDM_Connect`
  returns before its first message (`spdm_context.c:308`).
* `tests/unit_tests.c:1521,1529` takes the active context to be thread-local;
  with the hardware mutex it is one for all threads (`tpm2.c:57-67`).

Commands: `TPM2_PolicyTicket` never appends the ticket; `TPM2_CreateLoaded` has
an `outHandleCnt` of 0 and cannot be used with a session; `TPM2_GetTestResult`
reads a 32-bit result as 16 bits; `TPM2_PCR_Read` stops behind a clamped list;
`TPM2_PCR_SetAuthPolicy` and `TPM2_GPIO_Config` ask for an authorisation no slot
can satisfy; commands finalised with `st` from an empty area travel without
sessions.

Wrapper: a name cached in `WOLFTPM2_NV` is stale after the first write and after a
lock. `wolfTPM2_NVWriteAuth` renews it (`tpm2_wrap.c:5817`); `wolfTPM2_NVReadAuth`
does so for a policy session only (5944), and `NVIncrement` and `NVWriteLock`
trust it, so that with an HMAC session the TPM refuses them unless the caller opens
the index again. `ChangeAuthKey`, `HmacStart`,
the symmetric calls and `CreateLoadedKey` cannot be used with a parameter
encryption session in slot 1. `NVDeleteKey`, `Clear` and `ResetPCR` authorise
with whatever slot 0 holds. `StartSession` leaves the session in the TPM if the
derivation behind the command fails (`tpm2_wrap.c:2516`): nothing flushes it, and
its handle does not reach the caller's structure (`underived`). It puts the key's object handle into slot 0, and checks
the random generator with `rc < 0`, which misses TPM errors. A failed `HashFinish`,
`NVStoreKey` or `ChangeAuthKey` forgets a handle the TPM still has (`lost`).
`PolicyPassword` cannot authorise, since the flag it sets is never read in
`tpm2.c`. `SetAuthHandle` sets `policyAuth` before its size check fails;
`SetAuthHandleName` keeps the value the slot had if the handle's is empty; a
session bound to an entity with an empty value has no key on the host.
`EncryptSecret_RSA` replaces a given secret by a random one. RSA keys with a
SHA-1 or SHA-512 name, or larger than `MAX_RSA_KEY_BITS`, cannot salt a session.
EK index for SM2 has no template, and a keyed-hash template with both or neither
of sign and decrypt is refused by the TPM.

Callbacks: copies of a hash object share its cache, so that data added to a copy
is added to the original, and an object freed while it has copies leaves them to
finish what the original had (both outside what `HashCache` claims); an object that
is freed without being finished leaves its context in memory and its sequence in
the TPM; an empty hash or HMAC fails; `rc & TPM_RC_CURVE` tests single bits;
RSA key generation overwrites the handle of a loaded key; the overflow check of
the cache is never true.

Lock and transports: a failed `wolfTPM2_Test` or `wolfTPM2_New` leaves
`gActiveTPM` at memory that is gone, and a failed `wolfTPM2_Init` without
`wolfTPM2_Cleanup` leaves `gWolfCryptRefCount` raised (`Failing` says which
calls the run lets fail). After an interrupted poll the Linux device
answers the next write with EBUSY until its answer is read. The Linux and the
simulator transport wait for an answer without a bound. Of two threads that make or
destroy contexts at the same time, as the unit tests do, each may find
`gActiveTPM` or `gWolfCryptRefCount` changed under it, since both are read and written
outside `gHwLock`. The TIS semaphore
is not given back if its holder dies. `wolfTPM2_SpdmCleanup` on a connected
context frees it without END_SESSION.

## Not modelled

ASN.1 parsing and the conversions of key formats, which keep no state; the
cryptography itself; the drivers under `src/hal`; the C# wrapper and the
examples, which call the library and have no state of their own; string tables,
printing and debug output; byte order and buffer ends of packets, each checked
at one place in `TPM2_Packet_*`; the firmware images of an upgrade.

## Plan

1. The session slots and `gActiveTPM` under threads that are not `Guarded` or `Alone`,
   with the reads and writes outside the lock split further, as soon as the
   repository says what it promises of such programs.
2. Larger instances of `SessionKeys` (audit sessions) and of `WrapperCalls`
   (calls of two families in one program).
3. `CommandLayout` with lists of any length: the cells of a list as a function of
   its length, so that `RequestInStep` can be proved of a field instead of checked
   for each command.

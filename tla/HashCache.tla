----------------------------- MODULE HashCache -----------------------------
(***************************************************************************)
(* The contexts that the hash callback of tpm2_cryptocb.c keeps behind the *)
(* devCtx pointer of wolfCrypt's hash objects.  An object with the flag    *)
(* WILLCOPY collects its data in a buffer of the context, so that a copy   *)
(* of the object can be finished without ending the original; the copy     *)
(* shares the context (wc_Sha256Copy copies the pointer and sets ISCOPY).  *)
(* Other objects stream their data into a sequence of the TPM.  Memory and *)
(* the TPM may fail at every point; a call of the callback is one step.    *)
(* Sizes stay below 2^32 less a block, where word32 does not wrap and the  *)
(* check that returns BUFFER_E does not fire; a call with data and digest  *)
(* at once, which needs no context, is CbHashOnce of WrapCrypto.           *)
(***************************************************************************)
EXTENDS Integers, SequencesExt

CONSTANTS
    Objects,        \* wolfCrypt hash objects
    Contexts,       \* addresses the allocator gives out, 1 .. n
    Lengths,        \* of the data of one update
    Block,          \* WOLFTPM2_HASH_BLOCK_SZ
    MaxChunks       \* bound on the number of updates

ASSUME SizesAssumption ==
    IsFiniteSet(Contexts) /\ Contexts = 1 .. Cardinality(Contexts) /\ Lengths \subseteq Nat /\ Block \in Nat \ {0}

VARIABLES
    obj,        \* the objects
    ctx,        \* the heap: a context at every address
    seqs,       \* the sequences in the TPM, by handle: the data each was sent
    lost,       \* handles whose flush failed
    chunks,     \* the lengths of the data taken so far, all objects together
    digest      \* what the last digest covers and should cover

vars == <<obj, ctx, seqs, lost, chunks, digest>>

Handles == 1 .. Cardinality(Contexts) + 1
\* What fails during a call: nothing, one thing, or an update and the flush.
Faults == {{}} \cup {{f} : f \in {"ctx", "buf", "start", "update", "finish"}} \cup {{"update", "flush"}}

\* state: "idle" (not initialised, finished or abandoned after an error), "open".
NoObject == [state |-> "idle", devCtx |-> 0, will |-> FALSE, copy |-> FALSE, given |-> <<>>]
Freed == [live |-> FALSE, handle |-> 0, buf |-> FALSE, bufSz |-> 0, sz |-> 0, data |-> <<>>]
NewCtx == [Freed EXCEPT !.live = TRUE]          \* XMALLOC and XMEMSET
Nothing == [covers |-> <<>>, given |-> <<>>]

Init ==
    /\ obj = [o \in Objects |-> NoObject]
    /\ ctx = [c \in Contexts |-> Freed]
    /\ seqs = [h \in {} |-> <<>>] /\ lost = {}
    /\ chunks = <<>> /\ digest = Nothing

-----------------------------------------------------------------------------
(* wolfCrypt (external).  Three things are assumed of its use, all kept by *)
(* wc_Sha256GetHash and the transcript hashes of TLS, and enforced by      *)
(* nobody: a copy is taken only of an object with WILLCOPY, it is finished *)
(* or freed before the original is used again, and it is given no data of  *)
(* its own (MayUse, MayUpdate).  The cache is shared without a count, so   *)
(* whoever does otherwise gets a wrong digest or a freed context.          *)

Copies(o) == {p \in Objects : obj[p].state = "open" /\ obj[p].copy /\ obj[p].devCtx = obj[o].devCtx}
MayUse(o) == obj[o].state = "open" /\ (~obj[o].copy => Copies(o) = {})
MayUpdate(o) == MayUse(o) /\ ~obj[o].copy

wc_InitSha256(o, will) ==
    /\ obj[o].state = "idle"
    /\ obj' = [obj EXCEPT ![o] = [NoObject EXCEPT !.state = "open", !.will = will]]
    /\ digest' = Nothing /\ UNCHANGED <<ctx, seqs, lost, chunks>>

wc_Sha256Copy(o, p) ==
    /\ MayUpdate(o) /\ obj[o].will /\ obj[o].devCtx # 0
    /\ obj[p].state = "idle"
    /\ obj' = [obj EXCEPT ![p] = [obj[o] EXCEPT !.copy = TRUE]]
    /\ digest' = Nothing /\ UNCHANGED <<ctx, seqs, lost, chunks>>

\* An object is freed without a digest, a copy or an original with copies among
\* them.  The callback has no branch for it: context and sequence stay.
wc_Sha256Free(o) ==
    /\ obj[o].state = "open"
    /\ obj' = [obj EXCEPT ![o] = NoObject]
    /\ digest' = Nothing /\ UNCHANGED <<ctx, seqs, lost, chunks>>

-----------------------------------------------------------------------------
(* wolfTPM2_HashUpdateCache: the context behind the update, rc.            *)

RoundUp(n) == ((n + Block - 1) \div Block) * Block
Failed(c) == [rc |-> "fail", c |-> c]

CacheUngrown(c, n, faults) ==       \* a slip: the buffer is never grown
    IF ~c.buf /\ "buf" \in faults THEN Failed([c EXCEPT !.sz = 0])
    ELSE [rc |-> "ok",
          c |-> [c EXCEPT !.buf = TRUE, !.bufSz = IF c.buf THEN @ ELSE RoundUp(n),
                          !.sz = @ + n, !.data = Append(@, Len(chunks) + 1)]]
CacheUncopied(c, n, faults) ==      \* a slip: a new buffer starts empty
    LET grow == c.sz + n > c.bufSz
    IN  IF "buf" \in faults THEN Failed(c)
        ELSE [rc |-> "ok",
              c |-> [c EXCEPT !.buf = TRUE, !.bufSz = IF grow THEN RoundUp(n) ELSE @,
                              !.sz = IF grow THEN n ELSE @ + n,
                              !.data = IF grow THEN <<Len(chunks) + 1>> ELSE Append(@, Len(chunks) + 1)]]
wolfTPM2_HashUpdateCache(c, n, faults) ==
    LET start  == ~c.buf
        grow   == c.buf /\ c.sz + n > c.bufSz
        sized  == IF start /\ n = 0 THEN Block ELSE RoundUp(c.sz + n)
    IN  IF (start \/ grow) /\ "buf" \in faults
        THEN Failed(IF start THEN [c EXCEPT !.sz = 0, !.bufSz = sized] ELSE c)
        ELSE [rc |-> "ok",
              c |-> [c EXCEPT !.buf = TRUE,
                              !.bufSz = IF start \/ grow THEN sized ELSE @,
                              !.sz = @ + n,
                              !.data = Append(@, Len(chunks) + 1)]]

\* The TPM: one sequence is started, sent data, completed or flushed.
FreeHandle == IF Handles \subseteq DOMAIN seqs THEN 0 ELSE Min(Handles \ DOMAIN seqs)
Sent(q, h, data) ==
    [g \in DOMAIN q \cup {h} |-> (IF g \in DOMAIN q THEN q[g] ELSE <<>>) \o (IF g = h THEN data ELSE <<>>)]
Gone(q, h) == [g \in DOMAIN q \ {h} |-> q[g]]
Stuck(q, h) == [q EXCEPT ![h] = <<>>]       \* nobody will complete it

\* "if final or failure cleanup": the context is freed unless this is a copy,
\* the sequence is flushed if it still has a handle.
Cleanup(o, c) == IF obj[o].copy THEN [c EXCEPT !.handle = 0] ELSE Freed

\* The flush of h works or not.
Flush(q, h, faults) ==
    /\ seqs' = IF "flush" \in faults THEN Stuck(q, h) ELSE Gone(q, h)
    /\ lost' = IF "flush" \in faults THEN lost \cup {h} ELSE lost

-----------------------------------------------------------------------------
(* The hash branch of wolfTPM2_CryptoDevCb.                                *)

\* The address of the context: the object's, or a fresh one.
Address(o) == IF obj[o].devCtx # 0 THEN obj[o].devCtx
              ELSE Min({a \in Contexts : ~ctx[a].live})
Context(o) == IF obj[o].devCtx # 0 THEN ctx[obj[o].devCtx] ELSE NewCtx
Room(o) == obj[o].devCtx # 0 \/ \E a \in Contexts : ~ctx[a].live

\* The data reaches the context, or the TPM; the call returns success.
Updated(o, n, c, q) ==
    /\ ctx' = [ctx EXCEPT ![Address(o)] = c]
    /\ obj' = [obj EXCEPT ![o].devCtx = Address(o), ![o].given = Append(@, Len(chunks) + 1)]
    /\ chunks' = Append(chunks, n)
    /\ seqs' = q /\ UNCHANGED lost

\* The call returns an error, the caller gives the object up.
GivenUp(o, c) ==
    /\ ctx' = [ctx EXCEPT ![Address(o)] = Cleanup(o, c)]
    /\ obj' = [obj EXCEPT ![o] = NoObject] /\ UNCHANGED chunks

UpdateCached(o, n, faults) ==
    LET r == wolfTPM2_HashUpdateCache(Context(o), n, faults)
    IN  \/ r.rc = "ok" /\ Updated(o, n, r.c, seqs)
        \/ r.rc # "ok" /\ GivenUp(o, r.c) /\ UNCHANGED <<seqs, lost>>

UpdateStreamed(o, n, faults) ==
    LET old == Context(o).handle
        h   == IF old = 0 THEN FreeHandle ELSE old
        started == old # 0 \/ (h # 0 /\ "start" \notin faults)
    IN  \/ ~started /\ GivenUp(o, Context(o)) /\ UNCHANGED <<seqs, lost>>
        \/ /\ started /\ "update" \in faults
           /\ GivenUp(o, Context(o)) /\ Flush(Sent(seqs, h, <<>>), h, faults)
        \/ /\ started /\ "update" \notin faults
           /\ Updated(o, n, [Context(o) EXCEPT !.handle = h], Sent(seqs, h, <<Len(chunks) + 1>>))

HashUpdate(o, n, faults) ==
    /\ MayUpdate(o) /\ Len(chunks) < MaxChunks /\ Room(o)
    /\ IF obj[o].devCtx = 0 /\ "ctx" \in faults
       THEN obj' = [obj EXCEPT ![o] = NoObject] /\ UNCHANGED <<ctx, seqs, lost, chunks>>
       ELSE IF obj[o].will THEN UpdateCached(o, n, faults) ELSE UpdateStreamed(o, n, faults)
    /\ digest' = Nothing

\* With a context and WILLCOPY the sequence is started and fed here.  A failed
\* completion drops the handle without a flush (wolfTPM2_HashFinish).
HashFinal(o, faults) ==
    LET c    == Context(o)
        will == obj[o].will /\ obj[o].devCtx # 0
        h    == IF c.handle = 0 THEN FreeHandle ELSE c.handle
        q    == IF will THEN Sent(seqs, h, c.data) ELSE seqs
        started == c.handle # 0 \/ (will /\ h # 0 /\ "start" \notin faults)
        fed     == started /\ ~(will /\ "update" \in faults)
        done    == fed /\ "finish" \notin faults
    IN  /\ MayUse(o)
        /\ \/ /\ ~started /\ digest' = Nothing /\ UNCHANGED <<seqs, lost>>
           \/ /\ started /\ ~fed /\ digest' = Nothing /\ Flush(Sent(seqs, h, <<>>), h, faults)
           \/ /\ fed /\ ~done /\ digest' = Nothing /\ seqs' = Stuck(q, h) /\ lost' = lost \cup {h}
           \/ /\ done /\ digest' = [covers |-> q[h], given |-> obj[o].given]
              /\ seqs' = Gone(q, h) /\ UNCHANGED lost
        /\ ctx' = IF obj[o].devCtx = 0 THEN ctx
                  ELSE [ctx EXCEPT ![obj[o].devCtx] = Cleanup(o, [c EXCEPT !.handle = h])]
        /\ obj' = [obj EXCEPT ![o] = NoObject]
        /\ UNCHANGED chunks

-----------------------------------------------------------------------------
Next ==
    \E o \in Objects :
       \/ \E will \in BOOLEAN : wc_InitSha256(o, will)
       \/ \E p \in Objects \ {o} : wc_Sha256Copy(o, p)
       \/ wc_Sha256Free(o)
       \/ \E n \in Lengths, faults \in Faults : HashUpdate(o, n, faults)
       \/ \E faults \in Faults : HashFinal(o, faults)

Spec == Init /\ [][Next]_vars

-----------------------------------------------------------------------------
(* Properties.                                                             *)

ObjectType == [state : {"idle", "open"}, devCtx : Contexts \cup {0}, will : BOOLEAN,
               copy : BOOLEAN, given : Seq(Nat)]
ContextType == [live : BOOLEAN, handle : Handles \cup {0}, buf : BOOLEAN, bufSz : Int,
                sz : Nat, data : Seq(Nat)]
TypeOK ==
    /\ obj \in [Objects -> ObjectType] /\ ctx \in [Contexts -> ContextType]
    /\ DOMAIN seqs \subseteq Handles /\ seqs \in [DOMAIN seqs -> Seq(Nat)]
    /\ lost \subseteq DOMAIN seqs
    /\ chunks \in Seq(Lengths)

\* A digest that wolfTPM2_CryptoDevCb returns covers exactly the data its object
\* was given, in order, whatever failed or was freed before, in this object or
\* in another; for objects that are used as MayUse and MayUpdate have it.
DigestCovers == digest.covers = digest.given

\* The data of a context fits its buffer, and the buffer holds what was cached.
Total(s) == FoldLeft(LAMBDA sum, i : sum + chunks[i], 0, s)
CacheFits ==
    \A c \in Contexts : ctx[c].buf => /\ ctx[c].sz <= ctx[c].bufSz
                                      /\ ctx[c].sz = Total(ctx[c].data)
=============================================================================

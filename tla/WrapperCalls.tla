---------------------------- MODULE WrapperCalls ----------------------------
(***************************************************************************)
(* A program that uses the wrapper: it keeps a few structures, calls the   *)
(* functions of WrapKeys and WrapData on them one after the other, and     *)
(* every command of theirs, every host computation may fail.  The TPM      *)
(* (external) keeps the objects, sessions and indices, with the            *)
(* authorisation value and the name each really has; the wrapper never     *)
(* asks for either again, it relies on its structures and on the slots.    *)
(***************************************************************************)
EXTENDS WrapperApi, SessionSlots, FiniteSets, TLC

CONSTANT Families       \* the families of calls that are made

VARIABLES
    family,     \* the calls this program makes
    tpm,        \* the entities of the TPM, by handle
    mem,        \* the caller's structures, and the ones on the stack
    slots,      \* dev->session
    resp,       \* the response of the last command
    call, pc, rc,
    refused,    \* the TPM found an authorisation, a name or a handle wrong
    lost,       \* handles whose flush or completion failed
    underived   \* sessions whose value could not be derived

vars == <<family, tpm, mem, slots, resp, call, pc, rc, refused, lost, underived>>

Fixed == {"OWNER", "ENDORSEMENT", "PLATFORM", "LOCKOUT", "NULL", "PCR"}
Sessions == {"S1", "S2"}
Held == Transient \cup Sessions
Entity(auth, name) == [auth |-> auth, name |-> name]

Empty == [hndl |-> "0", auth |-> "", name |-> "", nameLoaded |-> FALSE, blob |-> NoBlob]
Junk  == [hndl |-> "junk", auth |-> "junk", name |-> "junk", nameLoaded |-> TRUE, blob |-> NoBlob]
Stack == {"l", "lnv", "lp", "ls", "lh"}
OffStack(m) == [r \in DOMAIN m |-> IF r \in Stack THEN Junk ELSE m[r]]
NoResponse == [hndl |-> "", auth |-> "", name |-> "", blob |-> NoBlob]

\* wolfTPM2_Init leaves a blank password in slot 1; the second slot is free, or
\* has a session for parameter encryption that the caller set.
Init ==
    /\ family \in Families
    /\ tpm = [h \in Fixed |-> Entity("", h)]
    /\ mem = OffStack([r \in Owned \cup Stack \cup {"owner"} |->
                          IF r = "owner" THEN [Empty EXCEPT !.hndl = "OWNER"] ELSE Empty])
    /\ slots \in {SetAuthPassword(<<NoSlot, s>>, 1, "") : s \in {NoSlot, Slot("enc", "", "")}}
    /\ resp = NoResponse
    /\ call = "none" /\ pc = 0 /\ rc = "ok"
    /\ refused = FALSE /\ lost = {} /\ underived = {}

-----------------------------------------------------------------------------
(* The caller.                                                             *)

Live(h) == h \in DOMAIN tpm
Encrypts == slots[2].kind = "enc"

\* What the caller sees to before it calls, where the function does not.
\*   blank, pw, index: slot 0 authorises with what the call before left there
\*   (blank: wolfTPM2_ResetPCR, _NVDeleteKey, _Clear, _ChangePlatformAuth);
\*   opened: an index is opened again after its first write or its lock, which
\*   change its name, before a function that relies on the name in WOLFTPM2_NV;
\*   plain: no session for parameter encryption is set;
\*   the others: the key, index or value that is asked for is there.
Kept(rule) ==
    CASE rule = "blank"  -> slots[1].kind = "pw" /\ slots[1].auth = ""
      [] rule = "index"  -> Live("NV") /\ slots[1].kind = "pw" /\ slots[1].auth = tpm["NV"].auth
      [] rule = "pw"     -> slots[1].kind = "pw"
      [] rule = "plain"  -> ~Encrypts
      [] rule = "stored" -> Live("P")
      [] rule = "defined" -> Live("NV")
      [] rule = "opened" -> mem["nv"].nameLoaded => mem["nv"].name = tpm["NV"].name
      [] rule = "closed" -> \A r \in Owned : mem[r].hndl \notin DOMAIN tpm \ Fixed
      [] rule = "platform" -> tpm["PLATFORM"].auth = ""

Allowed(a) ==
    /\ \A r \in a.into : mem[r].hndl \notin DOMAIN tpm \ Fixed
    /\ \A r \in a.uses : mem[r].hndl \in DOMAIN tpm \ Fixed
    /\ \A r \in a.blobs : mem[r].blob # NoBlob
    /\ \A rule \in a.rules : Kept(rule)

\* A step runs after no failure, after a failure, or always; where a block is
\* not entered the function goes on behind it.
Resume(body, i, ok) ==
    LET Runs(s) == s.when = "always" \/ (s.when = "ok") = ok
        From[j \in 1 .. Len(body) + 1] ==
            IF j > Len(body) \/ Runs(body[j]) THEN j
            ELSE From[j + 1 + (IF body[j].op = "block" THEN body[j].x.len ELSE 0)]
    IN  From[i]

Begin(c, a) ==
    /\ call = "none" /\ Allowed(a)
    /\ call' = c /\ pc' = 1 /\ rc' = "ok"
    /\ UNCHANGED <<family, tpm, mem, slots, resp, refused, lost, underived>>

Return(b) ==
    /\ pc > Len(b)
    /\ call' = "none" /\ pc' = 0 /\ rc' = "ok"
    /\ mem' = OffStack(mem) /\ resp' = NoResponse
    /\ UNCHANGED <<family, tpm, slots, refused, lost, underived>>

-----------------------------------------------------------------------------
(* One step of the function that runs.                                     *)

\* b is the body of that function.
S(b) == b[pc]
Running(b, ops) == pc <= Len(b) /\ S(b).op \in ops

\* The step ends with result r; a dropped result changes nothing.
Ends(b, r) ==
    LET r1 == IF r = "ok" \/ S(b).ignored THEN rc ELSE r
    IN  rc' = r1 /\ pc' = Resume(b, pc + 1, r1 # "fail")

\* Only the fields of d in F are given to the structure.
With(d, e, F) == [f \in DOMAIN d |-> IF f \in F THEN e[f] ELSE d[f]]

Assign(b) ==
    /\ Running(b, {"zero", "put", "take", "copy"})
    /\ mem' = [mem EXCEPT ![S(b).r] =
          CASE S(b).op = "zero" -> Empty
            [] S(b).op = "put"  -> With(@, S(b).x, DOMAIN S(b).x)
            [] S(b).op = "take" -> With(@, resp, S(b).x)
            [] S(b).op = "copy" -> With(@, mem[S(b).x.from], S(b).x.fields)]
    /\ Ends(b, "ok")
    /\ UNCHANGED <<family, tpm, slots, resp, call, refused, lost, underived>>

SetSlot(b) ==
    /\ Running(b, {"handle", "name", "password", "key", "session", "policy", "unset"})
    /\ slots' =
          CASE S(b).op = "handle"   -> SetAuthHandle(slots, S(b).x, mem[S(b).r])
            [] S(b).op = "name"     -> SetAuthHandleName(slots, S(b).x, mem[S(b).r])
            [] S(b).op = "password" -> SetAuthPassword(slots, S(b).x, "")
            [] S(b).op = "key"      -> SetAuth(slots, S(b).x, "obj", mem[S(b).r].auth, mem[S(b).r].name)
            [] S(b).op = "session"  -> SetAuthSession(slots, S(b).x, "enc")
            [] S(b).op = "policy"   -> SetSessionHandle(slots, S(b).x, mem[S(b).r])
            [] S(b).op = "unset"    -> UnsetAuth(slots, S(b).x)
    /\ Ends(b, "ok")
    /\ UNCHANGED <<family, tpm, mem, resp, call, refused, lost, underived>>

HostStep(b) ==
    /\ Running(b, {"check"}) /\ \E r \in {"ok", "fail"} : Ends(b, r)
    /\ UNCHANGED <<family, tpm, mem, slots, resp, call, refused, lost, underived>>

\* A derivation behind TPM2_StartAuthSession; one that fails leaves a session
\* whose handle is in no structure, and nobody flushes it.
DeriveStep(b) ==
    /\ Running(b, {"derive"})
    /\ \/ Ends(b, "ok") /\ UNCHANGED underived
       \/ Ends(b, "fail") /\ underived' = underived \cup {resp.hndl}
    /\ UNCHANGED <<family, tpm, mem, slots, resp, call, refused, lost>>

Enter(test, r) ==
    CASE test = "call"    -> {TRUE}
      [] test = "maybe"   -> BOOLEAN
      [] test = "named"   -> {~mem[r].nameLoaded}
      [] test = "held"    -> {mem[r].hndl \in {"0", "NULL"}}
      [] test = "loaded"  -> {mem[r].hndl \notin {"0", "NULL"}}
      [] test = "stored"  -> {mem[r].hndl # "P"}
      [] test = "stored!" -> {mem[r].hndl = "P"}

Branch(b) ==
    /\ \/ Running(b, {"block"})
          /\ \E enter \in Enter(S(b).x.test, S(b).r) :
                pc' = Resume(b, pc + 1 + (IF enter THEN 0 ELSE S(b).x.len), TRUE)
       \/ Running(b, {"again"}) /\ \E i \in {pc - S(b).x, pc + 1} : pc' = Resume(b, i, TRUE)
    /\ UNCHANGED <<family, tpm, mem, slots, resp, call, rc, refused, lost, underived>>

-----------------------------------------------------------------------------
(* Commands.                                                               *)

Hndl(x) == IF x \in DOMAIN mem THEN mem[x].hndl ELSE x
On(b) == [i \in DOMAIN S(b).x.on |-> Hndl(S(b).x.on[i])]

Required(flags) == {i \in {1, 2} : \/ i = 1 /\ flags \cap {"USER1", "ADMIN", "DUP"} # {}
                                   \/ i = 2 /\ "USER2" \in flags}

\* The TPM's view of a command: the handles are there, each that needs it is
\* authorised, and a session that travels saw the right names.
Accepts(fn, on) ==
    LET travel == IF fn.tag = "NO_SESSIONS" THEN 0
                  ELSE AuthCount(fn.flags, <<slots[1].kind, slots[2].kind>>)
    IN  /\ \A i \in DOMAIN on : Live(on[i])
        /\ \A i \in Required(fn.flags) :
              /\ i <= travel /\ slots[i].kind \in {"pw", "pol"}
              /\ slots[i].kind = "pw" => slots[i].auth = tpm[on[i]].auth
        /\ (\E i \in 1 .. travel : slots[i].kind = "enc") =>
              \A i \in DOMAIN on :
                 HandleName(slots, i, on[i], Fixed \cup Sessions) = tpm[on[i]].name

Least(pool) == CHOOSE h \in pool : h \in DOMAIN First /\ \A g \in pool : First[h] <= First[g]
Free(pool) == pool \ DOMAIN tpm
Added(pool, entity) == Least(Free(pool)) :> entity @@ tpm
Without(h) == [g \in DOMAIN tpm \ {h} |-> tpm[g]]
Filled(h, entity) == [hndl |-> h, auth |-> entity.auth, name |-> entity.name,
                      blob |-> BlobRec(entity.name, entity.auth)]

\* What a command makes: the entity, and the handles it may get.
Makes(e) ==
    CASE e.do = "new"      -> Entity(e.auth, e.name)
      [] e.do = "sequence" -> Entity(mem[e.r].auth, "")
      [] e.do = "load"     -> Entity(mem[e.r].blob.auth, mem[e.r].blob.id)
      [] e.do = "loadout"  -> Entity(resp.blob.auth, resp.blob.id)
      [] e.do = "external" -> Entity(mem[e.r].auth, e.name)
      [] e.do = "session"  -> Entity("", Least(Free(Sessions)))
Making == {"new", "sequence", "load", "loadout", "external", "session"}
Pool(e) == IF e.do = "session" THEN Sessions ELSE Transient

\* The attributes are part of an index's name: WRITTEN from the first write on,
\* WRITELOCKED from TPM2_NV_WriteLock on, when no write is accepted any more.
LockedName == [NV0 |-> "NV0L", NV1 |-> "NV1L", NV0L |-> "NV0L", NV1L |-> "NV1L"]

\* A command that succeeded: the entities and the response.
Does(b, e, on) ==
    \/ /\ e.do \in Making /\ Free(Pool(e)) # {}
       /\ tpm' = Added(Pool(e), Makes(e))
       /\ resp' = Filled(Least(Free(Pool(e))), Makes(e))
       /\ Ends(b, "ok")
    \/ /\ \/ e.do = "blob"   /\ resp' = Filled("", Entity(e.auth, e.id))
          \/ e.do = "blobof" /\ resp' = Filled("", Entity(mem[e.r].auth, e.id))
          \/ e.do = "reblob" /\ resp' = Filled("", Entity(e.auth, tpm[on[1]].name))
          \/ e.do = "public" /\ resp' = Filled(on[1], tpm[on[1]])
       /\ Ends(b, "ok") /\ UNCHANGED tpm
    \/ /\ \/ e.do = "nothing"  /\ UNCHANGED tpm
          \/ e.do = "complete" /\ tpm' = Without(on[1])
          \/ e.do = "evict" /\ on[2] = e.to /\ tpm' = Without(e.to)
          \/ e.do = "evict" /\ on[2] # e.to /\ ~Live(e.to) /\ tpm' = e.to :> tpm[on[2]] @@ tpm
          \/ e.do = "define" /\ ~Live("NV") /\ tpm' = "NV" :> Entity(e.auth, "NV0") @@ tpm
          \/ e.do = "undefine" /\ tpm' = Without("NV")
          \/ e.do = "written" /\ tpm["NV"].name \in {"NV0", "NV1"} /\ tpm' = [tpm EXCEPT !["NV"].name = "NV1"]
          \/ e.do = "locked" /\ tpm' = [tpm EXCEPT !["NV"].name = LockedName[@]]
          \/ e.do = "forget" /\ tpm' = [tpm EXCEPT ![on[1]].auth = "random"]
       /\ Ends(b, "ok") /\ UNCHANGED resp
    \/ /\ e.do = "define" /\ Live("NV") /\ Ends(b, "defined") /\ UNCHANGED <<tpm, resp>>

Succeeds(b) ==
    /\ Running(b, {"cmd"}) /\ Accepts(S(b).x.fn, On(b)) /\ Does(b, S(b).x.effect, On(b))
    /\ UNCHANGED <<family, mem, slots, call, refused, lost, underived>>

\* A command that fails on the way or in the TPM; a sequence whose completion
\* failed stays.
Fails(b) ==
    /\ Running(b, {"cmd"}) /\ Ends(b, "fail")
    /\ refused' = (refused \/ ~Accepts(S(b).x.fn, On(b)))
    /\ lost' = IF S(b).x.effect.do = "complete" /\ Live(On(b)[1]) THEN lost \cup {On(b)[1]} ELSE lost
    /\ UNCHANGED <<family, tpm, mem, slots, resp, call, underived>>

\* wolfTPM2_UnloadHandle.
Unload(b) ==
    /\ Running(b, {"unload"})
    /\ LET h == mem[S(b).r].hndl
       IN  \/ /\ h \in {"0", "NULL", "P"}
              /\ Ends(b, "ok") /\ UNCHANGED <<tpm, mem, lost, refused>>
           \/ /\ h \notin {"0", "NULL", "P"} /\ Live(h)
              /\ tpm' = Without(h) /\ mem' = [mem EXCEPT ![S(b).r].hndl = "NULL"]
              /\ Ends(b, "ok") /\ lost' = lost \ {h} /\ UNCHANGED refused
           \/ /\ h \notin {"0", "NULL", "P"}
              /\ Ends(b, "fail") /\ lost' = IF Live(h) THEN lost \cup {h} ELSE lost
              /\ refused' = (refused \/ (~Live(h) /\ ~S(b).ignored))
              /\ UNCHANGED <<tpm, mem>>
    /\ UNCHANGED <<family, slots, resp, call, underived>>

-----------------------------------------------------------------------------
Next ==
    \/ \E c \in Calls[family] : \E a \in {Api[c]} : Begin(c, a)
    \/ call # "none" /\ \E b \in {Api[call].body} :
          \/ Return(b) \/ Assign(b) \/ SetSlot(b) \/ HostStep(b) \/ DeriveStep(b) \/ Branch(b)
          \/ Succeeds(b) \/ Fails(b) \/ Unload(b)

Spec == Init /\ [][Next]_vars

-----------------------------------------------------------------------------
(* Properties.                                                             *)

TypeOK ==
    /\ DOMAIN tpm \subseteq Fixed \cup Held \cup {"P", "NV"}
    /\ rc \in {"ok", "defined", "fail"}
    /\ call # "none" => call \in Calls[family] /\ pc \in 1 .. Len(Api[call].body) + 1
    /\ lost \subseteq Held /\ underived \subseteq Sessions
    /\ \A i \in DOMAIN slots : slots[i].kind \in {"none", "pw", "pol", "enc", "obj"}

\* Between calls every object and session in the TPM has its handle in a
\* structure of the caller, whatever failed inside a function, with two
\* exceptions: the command that was to free it failed itself (lost), or it is a
\* salted session of wolfTPM2_StartSession whose KDFa failed (underived), which
\* the code does leak: it returns behind TPM2_StartAuthSession without a flush.
NoOrphan ==
    call = "none" =>
        DOMAIN tpm \cap Held \subseteq {mem[r].hndl : r \in Owned} \cup lost \cup underived

\* A program that calls functions on structures that are filled, and keeps the
\* rules of Kept that the function leaves to it, is never refused by the TPM for
\* an authorisation, a name or a handle, also inside a function: wolfTPM2_NVWrite
\* reads the name again for each chunk, and the slots a function sets fit each
\* of its commands.  Without the rules the code is refused: of a stale name
\* in WOLFTPM2_NV, and of a slot 0 with another value, nothing is said here.
NeverRefused == ~refused

\* Between calls a structure with a handle has the authorisation and the name
\* of the entity behind that handle (a session's name is its handle,
\* wolfTPM2_LoadSymmetricKey takes no name, and the name of an index changes
\* at the first write and at the lock).
StructTrue ==
    call = "none" =>
        \A r \in Owned : mem[r].hndl \in DOMAIN tpm \ Fixed =>
            /\ mem[r].auth = tpm[mem[r].hndl].auth
            /\ mem[r].name = tpm[mem[r].hndl].name \/ r \in {"sess", "sym", "nv"}
=============================================================================

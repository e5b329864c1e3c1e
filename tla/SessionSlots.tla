---------------------------- MODULE SessionSlots ----------------------------
(***************************************************************************)
(* The session slots of a device, dev->session, as the wrapper fills them  *)
(* and the command layer counts them.  A slot is a kind of session, the    *)
(* authorisation value sent or mixed in, and the name of the handle of the *)
(* command that has the slot's number.                                     *)
(*    kind  "none"  the slot is zeroed                                     *)
(*          "pw"    TPM_RS_PW, the value travels in clear                  *)
(*          "pol"   a policy session                                       *)
(*          "enc"   an HMAC session with both attributes of parameter      *)
(*                  encryption                                             *)
(*          "obj"   the handle of an object, which is no session           *)
(***************************************************************************)
EXTENDS Integers, Sequences, FiniteSets

\* TPM2_GetCmdAuthCount.
AuthCount(flags, s) ==
    LET Req(i)  == \/ i = 1 /\ flags \cap {"USER1", "ADMIN", "DUP"} # {}
                   \/ i = 2 /\ "USER2" \in flags
        Scan[i \in 0 .. Len(s)] ==
            IF i = 0 THEN [count |-> 0, stop |-> FALSE]
            ELSE LET before == Scan[i - 1]
                     more   == [before EXCEPT !.count = @ + 1]
                 IN  CASE before.stop -> before
                       [] ~before.stop /\ s[i] = "pw" /\ Req(i) -> more
                       [] ~before.stop /\ s[i] = "enc" /\ before.count > 0 ->
                             IF flags \cap {"ENC2", "DEC2"} # {} THEN more ELSE before
                       [] ~before.stop /\ s[i] = "pol" /\ Req(i) -> more
                       [] OTHER -> [before EXCEPT !.stop = ~Req(i)]
    IN  Scan[Len(s)].count

-----------------------------------------------------------------------------
(* The setters.  A handle h is a record with auth and name.                *)

Slot(kind, auth, name) == [kind |-> kind, auth |-> auth, name |-> name]
NoSlot == Slot("none", "", "")

UnsetAuth(s, i) == [s EXCEPT ![i] = NoSlot]

\* wolfTPM2_SetAuth clears the slot first: what is not given is empty.
SetAuth(s, i, kind, auth, name) == [s EXCEPT ![i] = Slot(kind, auth, name)]
SetAuthPassword(s, i, auth) == SetAuth(s, i, "pw", auth, "")

\* With handle->policyAuth the slot keeps its session: "wolfTPM2_SetAuthHandle"
\* is only used for handles without it here.
SetAuthHandle(s, i, h) == SetAuth(s, i, "pw", h.auth, h.name)

\* wolfTPM2_SetAuthHandleName keeps the session of the slot, and its value too
\* unless the handle has one and the slot is a password.
SetAuthHandleName(s, i, h) ==
    [s EXCEPT ![i].name = h.name,
              ![i].auth = IF h.auth # "" /\ s[i].kind = "pw" THEN h.auth ELSE @]

\* wolfTPM2_SetAuthSession and wolfTPM2_SetSessionHandle: the session's value
\* (derived from salt and bind) is not told apart.
SetAuthSession(s, i, kind) == SetAuth(s, i, kind, "", "")
SetSessionHandle(s, i, h) == [s EXCEPT ![i] = Slot("pol", "", h.name)]

\* TPM2_GetName: objects and NV indices by the slot of the same number, any
\* other handle by its own value.
HandleName(s, i, handle, fixed) == IF handle \in fixed THEN handle ELSE s[i].name
=============================================================================

---------------------------- MODULE WrapperSteps ----------------------------
(***************************************************************************)
(* The vocabulary in which a function of tpm2_wrap.c is written down: the  *)
(* sequence of its steps.  A step names structures of the caller or of the *)
(* stack ("srk", "nv", ...); each step runs only while rc is zero, which   *)
(* is what the early returns and the "if (rc == 0)" of the code amount to, *)
(* unless it is marked otherwise.  Slots count from 1.                     *)
(***************************************************************************)
EXTENDS Sequences, Integers

Step(op, r, x) == <<[op |-> op, r |-> r, x |-> x, when |-> "ok", ignored |-> FALSE]>>

Always(s)  == <<[s[1] EXCEPT !.when = "always"]>>      \* also on the way out
OnFail(s)  == <<[s[1] EXCEPT !.when = "fail"]>>        \* only after a failure
Ignored(s) == <<[s[1] EXCEPT !.ignored = TRUE]>>       \* its result is dropped

\* A computation on the host that may fail, and one behind a command.
Check  == Step("check", "", "")
Derive == Step("derive", "", "")

\* Fields of structure r: zeroed, given, from the last response, from q.
Zero(r)      == Step("zero", r, "")
Put(r, rec)  == Step("put", r, rec)
Take(r, F)   == Step("take", r, F)
Copy(r, q, F) == Step("copy", r, [from |-> q, fields |-> F])

\* The session slots.
SetHandle(i, r)     == Step("handle", r, i)
SetHandleName(i, r) == Step("name", r, i)
SetPassword(i)      == Step("password", "", i)
SetKey(i, r)        == Step("key", r, i)
SetSession(i, r)    == Step("session", r, i)
SetPolicy(i, r)     == Step("policy", r, i)
Unset(i)            == Step("unset", "", i)

\* A TPM command on handles (of structures, or fixed ones), and what it does.
Cmd(fn, on, effect) == Step("cmd", "", [fn |-> fn, on |-> on, effect |-> effect])
Nothing       == [do |-> "nothing"]
New(name, auth) == [do |-> "new", name |-> name, auth |-> auth]
Sequence(r)   == [do |-> "sequence", r |-> r]
Complete      == [do |-> "complete"]
Blob(id, auth) == [do |-> "blob", id |-> id, auth |-> auth]
BlobOf(id, r) == [do |-> "blobof", id |-> id, r |-> r]
Reblob(auth)  == [do |-> "reblob", auth |-> auth]
Load(r)       == [do |-> "load", r |-> r]
LoadOut       == [do |-> "loadout"]
External(name, r) == [do |-> "external", name |-> name, r |-> r]
Public        == [do |-> "public"]
Evict(to)     == [do |-> "evict", to |-> to]
Define(auth)  == [do |-> "define", auth |-> auth]
Undefine      == [do |-> "undefine"]
Written       == [do |-> "written"]
Locked        == [do |-> "locked"]
Session       == [do |-> "session"]
Forget        == [do |-> "forget"]

\* Blocks: a called function (skipped as a whole after a failure), one that
\* depends on what is not modelled, one that depends on a structure, a loop.
Block(test, r, body) == Step("block", r, [test |-> test, len |-> Len(body)]) \o body
Call(body)       == Block("call", "", body)
Maybe(body)      == Block("maybe", "", body)
IfNot(field, r, body) == Block(field, r, body)
Loop(body)       == Maybe(body \o Step("again", "", Len(body)))
=============================================================================

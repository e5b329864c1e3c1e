-------------------------- MODULE HashCacheProofs --------------------------
(***************************************************************************)
(* Theorems about HashCache, for any objects, addresses, lengths, block    *)
(* size and bound: a digest covers the data it should and the cached data  *)
(* fits its buffer.                                                        *)
(***************************************************************************)
EXTENDS HashCache, SelectionLemmas, FiniteSetTheorems, TLAPS

-----------------------------------------------------------------------------
(* The inductive invariant.                                                *)

\* The context behind an object holds the data the object was given, in its
\* buffer with WILLCOPY and in the sequence of its handle without.
Behind(o) == ctx[obj[o].devCtx]
Matches(o) ==
    /\ obj[o].state = "idle" => obj[o] = NoObject
    /\ obj[o].devCtx = 0 => obj[o].given = <<>> /\ ~obj[o].copy
    /\ obj[o].copy => obj[o].will
    /\ obj[o].devCtx # 0 =>
          /\ Behind(o).live
          /\ obj[o].will => Behind(o).handle = 0 /\ Behind(o).data = obj[o].given
          /\ ~obj[o].will => Behind(o).handle # 0 /\ seqs[Behind(o).handle] = obj[o].given

\* A context belongs to at most one object that is no copy.
OneOwner ==
    \A o, p \in Objects : /\ obj[o].devCtx = obj[p].devCtx /\ obj[o].devCtx # 0
                          /\ ~obj[o].copy /\ ~obj[p].copy
                          => o = p

\* The sequences that are not lost belong to one context each.
HandlesMatch ==
    /\ \A c \in Contexts : ctx[c].live \/ ctx[c].handle = 0
    /\ \A c, d \in Contexts : ctx[c].handle = ctx[d].handle /\ ctx[c].handle # 0 => c = d
    /\ \A c \in Contexts : ctx[c].handle # 0 => ctx[c].handle \in DOMAIN seqs \ lost
    /\ \A h \in DOMAIN seqs \ lost : \E c \in Contexts : ctx[c].handle = h

Consistent ==
    /\ TypeOK /\ DigestCovers
    /\ \A o \in Objects : Matches(o)
    /\ OneOwner /\ HandlesMatch

-----------------------------------------------------------------------------
(* Addresses and handles.                                                  *)

LEMMA Numbers ==
    /\ Contexts \subseteq Nat /\ 0 \notin Contexts
    /\ Handles \subseteq Nat /\ 0 \notin Handles
    /\ Lengths \subseteq Nat /\ Block \in Nat /\ Block # 0
<1>1. Cardinality(Contexts) \in Nat
  BY SizesAssumption, FS_CardinalityType
<1> QED
  BY <1>1, SizesAssumption DEF Handles

\* The allocator and the TPM give out what nobody holds.
LEMMA FreeHandleType == FreeHandle = 0 \/ FreeHandle \in Handles \ DOMAIN seqs
<1>1. CASE Handles \subseteq DOMAIN seqs
  BY <1>1 DEF FreeHandle
<1>2. CASE ~(Handles \subseteq DOMAIN seqs)
  <2>1. Handles \ DOMAIN seqs \subseteq Nat /\ Handles \ DOMAIN seqs # {}
    BY <1>2, Numbers
  <2>2. Min(Handles \ DOMAIN seqs) \in Handles \ DOMAIN seqs
    BY <2>1, MinIsLeast, Zenon
  <2> QED
    BY <1>2, <2>2 DEF FreeHandle
<1> QED
  BY <1>1, <1>2

LEMMA AddressType ==
    ASSUME TypeOK, NEW o \in Objects, Room(o)
    PROVE  /\ Address(o) \in Contexts
           /\ obj[o].devCtx # 0 => Address(o) = obj[o].devCtx
           /\ obj[o].devCtx = 0 => ~ctx[Address(o)].live
<1>1. CASE obj[o].devCtx # 0
  BY <1>1 DEF Address, TypeOK, ObjectType, ContextType
<1>2. CASE obj[o].devCtx = 0
  <2> DEFINE free == {a \in Contexts : ~ctx[a].live}
  <2>1. free \subseteq Nat /\ free # {}
    BY <1>2, Numbers DEF Room
  <2>2. Min(free) \in free
    <3> HIDE DEF free
    <3> QED
      BY <2>1, MinIsLeast
  <2>3. Address(o) = Min(free)
    BY <1>2 DEF Address
  <2> QED
    BY <1>2, <2>2, <2>3
<1> QED
  BY <1>1, <1>2

\* The object that a call may use, and no copy, shares its context with nobody.
LEMMA Unshared ==
    ASSUME Consistent, NEW o \in Objects, MayUse(o), ~obj[o].copy, Room(o)
    PROVE  \A p \in Objects \ {o} : obj[p].devCtx # Address(o)
<1> SUFFICES ASSUME NEW p \in Objects \ {o}, obj[p].devCtx = Address(o)
             PROVE  FALSE
  OBVIOUS
<1>1. Address(o) \in Contexts /\ Address(o) # 0
  BY AddressType, Numbers DEF Consistent
<1>2. obj[o].devCtx # 0
  BY <1>1, AddressType DEF Consistent, Matches, Behind
<1>3. obj[p].devCtx = obj[o].devCtx
  BY <1>2, AddressType DEF Consistent
<1>4. obj[p].copy
  BY <1>2, <1>3 DEF Consistent, OneOwner
<1>5. obj[p].state = "open"
  <2>1. obj[p].state = "idle" => obj[p] = NoObject
    BY DEF Consistent, Matches
  <2>2. ~NoObject.copy
    BY DEF NoObject
  <2> QED
    BY <1>4, <2>1, <2>2 DEF Consistent, TypeOK, ObjectType, ContextType
<1> QED
  BY <1>3, <1>4, <1>5 DEF MayUse, Copies

\* What is sent to one sequence reaches no other.
LEMMA SentFields ==
    ASSUME NEW q, q \in [DOMAIN q -> Seq(Nat)], NEW h, NEW data \in Seq(Nat)
    PROVE  /\ DOMAIN Sent(q, h, data) = DOMAIN q \cup {h}
           /\ \A g \in DOMAIN q \ {h} : Sent(q, h, data)[g] = q[g]
           /\ h \in DOMAIN q => Sent(q, h, data)[h] = q[h] \o data
           /\ h \notin DOMAIN q => Sent(q, h, data)[h] = data
           /\ Sent(q, h, data) \in [DOMAIN q \cup {h} -> Seq(Nat)]
<1> DEFINE value(g) == (IF g \in DOMAIN q THEN q[g] ELSE <<>>) \o (IF g = h THEN data ELSE <<>>)
<1>1. Sent(q, h, data) = [g \in DOMAIN q \cup {h} |-> value(g)]
  BY DEF Sent
<1>2. \A g \in DOMAIN q \ {h} : value(g) = q[g]
  OBVIOUS
<1>3. /\ h \in DOMAIN q => value(h) = q[h] \o data
      /\ h \notin DOMAIN q => value(h) = data
  OBVIOUS
<1>4. \A g \in DOMAIN q \cup {h} : value(g) \in Seq(Nat)
  OBVIOUS
<1> HIDE DEF value
<1> QED
  BY <1>1, <1>2, <1>3, <1>4

\* The records that calls put into obj and ctx, and the context behind an update.
LEMMA RecordTypes ==
    /\ NoObject \in ObjectType /\ Freed \in ContextType /\ NewCtx \in ContextType
    /\ \A c \in ContextType, h \in Handles \cup {0} : [c EXCEPT !.handle = h] \in ContextType
    /\ \A o \in Objects, c \in ContextType : Cleanup(o, c) \in ContextType
<1>1. <<>> \in Seq(Nat)
  OBVIOUS
<1>2. Freed \in ContextType
  BY <1>1 DEF Freed, ContextType
<1>3. \A c \in ContextType, h \in Handles \cup {0} : [c EXCEPT !.handle = h] \in ContextType
  BY DEF ContextType
<1>4. NewCtx \in ContextType
  BY <1>2 DEF NewCtx, ContextType
<1>5. NoObject \in ObjectType
  BY <1>1 DEF NoObject, ObjectType
<1>6. \A o \in Objects, c \in ContextType : Cleanup(o, c) \in ContextType
  BY <1>2, <1>3 DEF Cleanup
<1> QED
  BY <1>2, <1>3, <1>4, <1>5, <1>6

LEMMA CacheUpdate ==
    ASSUME chunks \in Seq(Lengths), NEW c \in ContextType, NEW n \in Nat, NEW faults,
           NEW r, r = wolfTPM2_HashUpdateCache(c, n, faults)
    PROVE  /\ r.c \in ContextType /\ r.c.live = c.live /\ r.c.handle = c.handle
           /\ r.rc = "ok" => r.c.data = Append(c.data, Len(chunks) + 1)
<1> DEFINE start == ~c.buf
           grow  == c.buf /\ c.sz + n > c.bufSz
           sized == IF start /\ n = 0 THEN Block ELSE RoundUp(c.sz + n)
           size  == IF start \/ grow THEN sized ELSE c.bufSz
           good  == [c EXCEPT !.buf = TRUE, !.bufSz = size, !.sz = c.sz + n,
                              !.data = Append(c.data, Len(chunks) + 1)]
           bad   == IF start THEN [c EXCEPT !.sz = 0, !.bufSz = sized] ELSE c
<1>1. r = IF (start \/ grow) /\ "buf" \in faults THEN Failed(bad) ELSE [rc |-> "ok", c |-> good]
  BY DEF wolfTPM2_HashUpdateCache, ContextType
<1>2. sized \in Int /\ size \in Int
  <2>1. c.sz + n \in Int /\ c.bufSz \in Int
    BY DEF ContextType
  <2>2. \A m \in Int : RoundUp(m) \in Int
    BY Numbers DEF RoundUp
  <2>3. sized \in {Block, RoundUp(c.sz + n)}
    <3> HIDE DEF start
    <3> QED
      OBVIOUS
  <2>4. size \in {sized, c.bufSz}
    <3> HIDE DEF start, grow, sized
    <3> QED
      OBVIOUS
  <2>5. Block \in Int
    BY Numbers
  <2>6. RoundUp(c.sz + n) \in Int
    BY <2>1, <2>2, Zenon
  <2> HIDE DEF sized, size
  <2> QED
    BY <2>1, <2>3, <2>4, <2>5, <2>6
<1>3. Append(c.data, Len(chunks) + 1) \in Seq(Nat) /\ c.sz + n \in Nat
  BY DEF ContextType
<1> HIDE DEF sized, size, start, grow
<1>4. good \in ContextType /\ good.live = c.live /\ good.handle = c.handle
      /\ good.data = Append(c.data, Len(chunks) + 1)
  BY <1>2, <1>3 DEF ContextType
<1>5. bad \in ContextType /\ bad.live = c.live /\ bad.handle = c.handle
  BY <1>2 DEF ContextType
<1> HIDE DEF good, bad
<1>6. CASE r = [rc |-> "ok", c |-> good]
  BY <1>4, <1>6
<1>7. CASE r = Failed(bad)
  BY <1>5, <1>7 DEF Failed
<1> QED
  BY <1>1, <1>6, <1>7

-----------------------------------------------------------------------------
(* The three ways a call changes objects, contexts and sequences.          *)

\* The sequences other than h stay as they are.
OnlySeq(h) ==
    /\ DOMAIN seqs' \subseteq DOMAIN seqs \cup {h}
    /\ \A g \in DOMAIN seqs \ {h} : g \in DOMAIN seqs' /\ seqs'[g] = seqs[g]
    /\ lost' \ {h} = lost \ {h}

\* An object is given up and its context freed; the handle that the context
\* had, or a fresh one, is no longer among the sequences or is lost.
LEMMA ReleaseKeeps ==
    ASSUME Consistent, TypeOK', DigestCovers', NEW o \in Objects, NEW a \in Contexts, NEW h,
           \A p \in Objects \ {o} : obj[p].devCtx # a,
           obj[o].devCtx # 0 => obj[o].devCtx = a,
           obj' = [obj EXCEPT ![o] = NoObject], ctx' = [ctx EXCEPT ![a] = Freed],
           OnlySeq(h), h \notin DOMAIN seqs' \ lost',
           h \in DOMAIN seqs \ lost => ctx[a].handle = h,
           ctx[a].handle # 0 => ctx[a].handle = h
    PROVE  Consistent'
<1> USE Numbers
<1>1. /\ obj'[o] = NoObject /\ \A p \in Objects \ {o} : obj'[p] = obj[p]
      /\ ctx'[a] = Freed /\ \A c \in Contexts \ {a} : ctx'[c] = ctx[c]
  BY DEF Consistent, TypeOK, ObjectType, ContextType
<1>2. /\ NoObject.devCtx = 0 /\ ~NoObject.copy /\ NoObject.given = <<>>
      /\ Freed.handle = 0 /\ ~Freed.live
  BY DEF NoObject, Freed
<1>3. ASSUME NEW p \in Objects PROVE Matches(p)'
  <2>1. CASE p = o
    BY <1>1, <1>2, <2>1 DEF Matches
  <2>2. CASE p # o /\ obj[p].devCtx = 0
    <3>1. obj'[p] = obj[p] /\ Matches(p)
      BY <1>1, <2>2 DEF Consistent
    <3> QED
      BY <2>2, <3>1 DEF Matches
  <2>3. CASE p # o /\ obj[p].devCtx # 0
    <3>1. obj[p].devCtx \in Contexts \ {a}
      BY <2>3 DEF Consistent, TypeOK, ObjectType, ContextType
    <3>2. obj'[p] = obj[p] /\ Behind(p)' = Behind(p)
      BY <1>1, <2>3, <3>1 DEF Behind
    <3>3. ~obj[p].will => seqs'[Behind(p).handle] = seqs[Behind(p).handle]
      <4>1. ~obj[p].will => Behind(p).handle # 0 /\ Behind(p).handle \in DOMAIN seqs \ lost
        BY <2>3, <3>1 DEF Consistent, Matches, HandlesMatch, Behind
      <4>2. ~obj[p].will => Behind(p).handle # h
        <5> SUFFICES ASSUME ~obj[p].will, Behind(p).handle = h PROVE FALSE
          OBVIOUS
        <5>1. ctx[a].handle = h /\ h # 0
          BY <4>1
        <5>2. ctx[obj[p].devCtx].handle = ctx[a].handle
          BY <5>1 DEF Behind
        <5>3. obj[p].devCtx = a
          BY <3>1, <5>1, <5>2 DEF Consistent, HandlesMatch
        <5> QED
          BY <3>1, <5>3
      <4> QED
        BY <4>1, <4>2 DEF OnlySeq
    <3> QED
      BY <2>3, <3>2, <3>3 DEF Consistent, Matches
  <2> QED
    BY <2>1, <2>2, <2>3
<1>4. OneOwner'
  BY <1>1, <1>2 DEF Consistent, OneOwner
<1>5. HandlesMatch'
  <2>1. \A c \in Contexts : ctx'[c].live \/ ctx'[c].handle = 0
    BY <1>1, <1>2 DEF Consistent, HandlesMatch
  <2>2. \A c, d \in Contexts : ctx'[c].handle = ctx'[d].handle /\ ctx'[c].handle # 0 => c = d
    BY <1>1, <1>2 DEF Consistent, HandlesMatch
  <2>3. ASSUME NEW c \in Contexts, ctx'[c].handle # 0 PROVE ctx'[c].handle \in DOMAIN seqs' \ lost'
    <3>1. c # a /\ ctx'[c].handle = ctx[c].handle
      BY <1>1, <1>2, <2>3
    <3>2. ctx[c].handle \in DOMAIN seqs \ lost /\ ctx[c].handle # h
      BY <2>3, <3>1 DEF Consistent, HandlesMatch
    <3> QED
      BY <3>1, <3>2 DEF OnlySeq
  <2>4. ASSUME NEW g \in DOMAIN seqs' \ lost' PROVE \E c \in Contexts : ctx'[c].handle = g
    <3>1. g # h /\ g \in DOMAIN seqs \ lost
      BY <2>4 DEF OnlySeq
    <3>2. PICK c \in Contexts : ctx[c].handle = g
      BY <3>1 DEF Consistent, HandlesMatch
    <3>3. c # a
      BY <3>1, <3>2 DEF Consistent, TypeOK, ObjectType, ContextType
    <3> QED
      BY <1>1, <3>2, <3>3
  <2> QED
    BY <2>1, <2>2, <2>3, <2>4 DEF HandlesMatch
<1> QED
  BY <1>3, <1>4, <1>5 DEF Consistent

\* An object that owns no context is given up, a copy among them: the context
\* of a copy stays as it is, with the original.
LEMMA NoOwnerKeeps ==
    ASSUME Consistent, TypeOK', DigestCovers', NEW o \in Objects, NEW h,
           obj[o].copy \/ obj[o].devCtx = 0,
           obj' = [obj EXCEPT ![o] = NoObject], ctx' = ctx,
           OnlySeq(h), h \notin DOMAIN seqs' \ lost', h \notin DOMAIN seqs \ lost
    PROVE  Consistent'
<1> USE Numbers
<1>1. /\ obj'[o] = NoObject /\ \A p \in Objects \ {o} : obj'[p] = obj[p]
      /\ NoObject.devCtx = 0 /\ ~NoObject.copy /\ NoObject.given = <<>>
  BY DEF Consistent, TypeOK, ObjectType, NoObject
<1>2. ASSUME NEW p \in Objects PROVE Matches(p)'
  <2>1. CASE p = o
    BY <1>1, <2>1 DEF Matches
  <2>2. CASE p # o /\ obj[p].devCtx = 0
    <3>1. obj'[p] = obj[p] /\ Matches(p)
      BY <1>1, <2>2 DEF Consistent
    <3> QED
      BY <2>2, <3>1 DEF Matches
  <2>3. CASE p # o /\ obj[p].devCtx # 0
    <3>1. obj[p].devCtx \in Contexts
      BY <2>3 DEF Consistent, TypeOK, ObjectType, ContextType
    <3>2. obj'[p] = obj[p] /\ Behind(p)' = Behind(p)
      BY <1>1, <2>3, <3>1 DEF Behind
    <3>3. ~obj[p].will => seqs'[Behind(p).handle] = seqs[Behind(p).handle]
      <4>1. ~obj[p].will => Behind(p).handle \in DOMAIN seqs \ lost
        BY <2>3, <3>1 DEF Consistent, Matches, HandlesMatch, Behind
      <4> QED
        BY <4>1 DEF OnlySeq
    <3> QED
      BY <2>3, <3>2, <3>3 DEF Consistent, Matches
  <2> QED
    BY <2>1, <2>2, <2>3
<1>3. OneOwner'
  BY <1>1 DEF Consistent, OneOwner
<1>4. HandlesMatch'
  <2>1. DOMAIN seqs' \ lost' = DOMAIN seqs \ lost
    BY DEF OnlySeq
  <2> QED
    BY <2>1 DEF Consistent, HandlesMatch
<1> QED
  BY <1>2, <1>3, <1>4 DEF Consistent

\* An object is given data, which its context buffers or its sequence is sent.
LEMMA UpdateKeeps ==
    ASSUME Consistent, TypeOK', DigestCovers', NEW o \in Objects, NEW a \in Contexts, NEW c, NEW given,
           \A p \in Objects \ {o} : obj[p].devCtx # a,
           obj[o].devCtx # 0 => obj[o].devCtx = a, ~obj[o].copy, obj[o].state = "open",
           obj' = [obj EXCEPT ![o].devCtx = a, ![o].given = given],
           ctx' = [ctx EXCEPT ![a] = c], c.live,
           ctx[a].handle # 0 => ctx[a].handle = c.handle,
           c.handle \in DOMAIN seqs \ lost => ctx[a].handle = c.handle,
           OnlySeq(c.handle), c.handle # 0 => c.handle \in DOMAIN seqs' \ lost',
           obj[o].will => c.handle = 0 /\ c.data = given,
           ~obj[o].will => c.handle # 0 /\ seqs'[c.handle] = given
    PROVE  Consistent'
<1> USE Numbers
<1>1. /\ obj'[o] = [obj[o] EXCEPT !.devCtx = a, !.given = given]
      /\ \A p \in Objects \ {o} : obj'[p] = obj[p]
      /\ ctx'[a] = c /\ \A d \in Contexts \ {a} : ctx'[d] = ctx[d]
  BY DEF Consistent, TypeOK, ObjectType, ContextType
<1>2. /\ obj'[o].devCtx = a /\ obj'[o].given = given /\ obj'[o].state = "open"
      /\ obj'[o].will = obj[o].will /\ obj'[o].copy = obj[o].copy
  BY <1>1 DEF Consistent, TypeOK, ObjectType, ContextType
<1>3. ASSUME NEW p \in Objects PROVE Matches(p)'
  <2>1. CASE p = o
    BY <1>1, <1>2, <2>1 DEF Matches, Behind
  <2>2. CASE p # o /\ obj[p].devCtx = 0
    <3>1. obj'[p] = obj[p] /\ Matches(p)
      BY <1>1, <2>2 DEF Consistent
    <3> QED
      BY <2>2, <3>1 DEF Matches
  <2>3. CASE p # o /\ obj[p].devCtx # 0
    <3>1. obj[p].devCtx \in Contexts \ {a}
      BY <2>3 DEF Consistent, TypeOK, ObjectType, ContextType
    <3>2. obj'[p] = obj[p] /\ Behind(p)' = Behind(p)
      BY <1>1, <2>3, <3>1 DEF Behind
    <3>3. ~obj[p].will => seqs'[Behind(p).handle] = seqs[Behind(p).handle]
      <4>1. ~obj[p].will => Behind(p).handle # 0 /\ Behind(p).handle \in DOMAIN seqs \ lost
        BY <2>3, <3>1 DEF Consistent, Matches, HandlesMatch, Behind
      <4>2. ~obj[p].will => Behind(p).handle # c.handle
        <5> SUFFICES ASSUME ~obj[p].will, Behind(p).handle = c.handle PROVE FALSE
          OBVIOUS
        <5>1. ctx[a].handle = c.handle /\ c.handle # 0
          BY <4>1
        <5> QED
          BY <3>1, <5>1 DEF Consistent, HandlesMatch, Behind
      <4> QED
        BY <4>1, <4>2 DEF OnlySeq
    <3> QED
      BY <2>3, <3>2, <3>3 DEF Consistent, Matches
  <2> QED
    BY <2>1, <2>2, <2>3
<1>4. OneOwner'
  <2>2. ASSUME NEW p \in Objects, NEW r \in Objects, obj'[p].devCtx = obj'[r].devCtx,
               obj'[p].devCtx # 0, ~obj'[p].copy, ~obj'[r].copy
        PROVE  p = r
    <3>1. CASE p # o /\ r # o
      BY <1>1, <2>2, <3>1 DEF Consistent, OneOwner
    <3>2. CASE p = o /\ r # o
      BY <1>1, <1>2, <2>2, <3>2
    <3>3. CASE p # o /\ r = o
      BY <1>1, <1>2, <2>2, <3>3
    <3> QED
      BY <3>1, <3>2, <3>3
  <2> QED
    BY <2>2 DEF OneOwner
<1>5. HandlesMatch'
  <2>1. \A d \in Contexts : ctx'[d].live \/ ctx'[d].handle = 0
    BY <1>1 DEF Consistent, HandlesMatch
  <2>2. ASSUME NEW d \in Contexts \ {a}, ctx[d].handle # 0
        PROVE  ctx[d].handle # c.handle /\ ctx[d].handle \in DOMAIN seqs \ lost
    <3>1. ctx[d].handle \in DOMAIN seqs \ lost
      BY <2>2 DEF Consistent, HandlesMatch
    <3> SUFFICES ASSUME ctx[d].handle = c.handle PROVE FALSE
      BY <3>1
    <3>2. ctx[a].handle = ctx[d].handle
      BY <3>1
    <3> QED
      BY <2>2, <3>2 DEF Consistent, HandlesMatch
  <2>3. ASSUME NEW d \in Contexts, NEW e \in Contexts, ctx'[d].handle = ctx'[e].handle, ctx'[d].handle # 0
        PROVE  d = e
    BY <1>1, <2>2, <2>3 DEF Consistent, HandlesMatch
  <2>4. ASSUME NEW d \in Contexts, ctx'[d].handle # 0 PROVE ctx'[d].handle \in DOMAIN seqs' \ lost'
    <3>1. CASE d = a
      BY <1>1, <2>4, <3>1
    <3>2. CASE d # a
      BY <1>1, <2>2, <2>4, <3>2 DEF OnlySeq
    <3> QED
      BY <3>1, <3>2
  <2>5. ASSUME NEW g \in DOMAIN seqs' \ lost' PROVE \E d \in Contexts : ctx'[d].handle = g
    <3>1. CASE g = c.handle
      BY <1>1, <3>1
    <3>2. CASE g # c.handle
      <4>1. g \in DOMAIN seqs \ lost
        BY <2>5, <3>2 DEF OnlySeq
      <4>2. PICK d \in Contexts : ctx[d].handle = g
        BY <4>1 DEF Consistent, HandlesMatch
      <4>3. g # 0
        BY <4>1 DEF Consistent, TypeOK, ObjectType, ContextType
      <4>4. d # a
        BY <3>2, <4>2, <4>3
      <4> QED
        BY <1>1, <4>2, <4>4
    <3> QED
      BY <3>1, <3>2
  <2> QED
    BY <2>1, <2>3, <2>4, <2>5 DEF HandlesMatch
<1> QED
  BY <1>3, <1>4, <1>5 DEF Consistent

-----------------------------------------------------------------------------
(* The calls.                                                              *)

\* The context that a call works on.
LEMMA ContextFacts ==
    ASSUME Consistent, NEW o \in Objects, Room(o)
    PROVE  /\ Context(o) \in ContextType /\ Context(o).live
           /\ ctx[Address(o)].handle = Context(o).handle
           /\ obj[o].will => Context(o).handle = 0 /\ Context(o).data = obj[o].given
           /\ ~obj[o].will /\ Context(o).handle = 0 => obj[o].given = <<>>
           /\ ~obj[o].will /\ Context(o).handle # 0
              => Context(o).handle \in DOMAIN seqs \ lost /\ seqs[Context(o).handle] = obj[o].given
<1>1. CASE obj[o].devCtx = 0
  <2>1. NewCtx.live /\ NewCtx.handle = 0 /\ NewCtx.data = <<>>
    BY DEF NewCtx, Freed
  <2>2. Context(o) = NewCtx
    BY <1>1 DEF Context
  <2>3. ctx[Address(o)].handle = 0
    BY <1>1, AddressType DEF Consistent, HandlesMatch
  <2> QED
    BY <1>1, <2>1, <2>2, <2>3, RecordTypes DEF Consistent, Matches
<1>2. CASE obj[o].devCtx # 0
  <2>1. obj[o].devCtx \in Contexts /\ Address(o) = obj[o].devCtx /\ Context(o) = ctx[obj[o].devCtx]
    BY <1>2 DEF Consistent, TypeOK, ObjectType, Address, Context
  <2>2. Context(o) \in ContextType
    BY <2>1 DEF Consistent, TypeOK
  <2>3. Context(o).handle # 0 => Context(o).handle \in DOMAIN seqs \ lost
    BY <2>1 DEF Consistent, HandlesMatch
  <2> QED
    BY <1>2, <2>1, <2>2, <2>3 DEF Consistent, Matches, Behind
<1> QED
  BY <1>1, <1>2

\* A sequence ends, flushed or stuck; the others stay.
LEMMA EndKeeps ==
    ASSUME TypeOK, NEW h \in Handles, h \notin lost,
           NEW q, q \in [DOMAIN q -> Seq(Nat)], DOMAIN q = DOMAIN seqs \cup {h},
           \A g \in DOMAIN seqs \ {h} : q[g] = seqs[g],
           \/ seqs' = Gone(q, h) /\ lost' = lost
           \/ seqs' = Stuck(q, h) /\ lost' = lost \cup {h}
    PROVE  /\ OnlySeq(h) /\ h \notin DOMAIN seqs' \ lost'
           /\ DOMAIN seqs' \subseteq Handles /\ seqs' \in [DOMAIN seqs' -> Seq(Nat)]
           /\ lost' \subseteq DOMAIN seqs'
<1>1. CASE seqs' = Gone(q, h) /\ lost' = lost
  <2>1. DOMAIN seqs' = DOMAIN q \ {h} /\ \A g \in DOMAIN q \ {h} : seqs'[g] = q[g]
    BY <1>1 DEF Gone
  <2>2. seqs' \in [DOMAIN seqs' -> Seq(Nat)]
    BY <1>1, <2>1 DEF Gone
  <2>3. OnlySeq(h)
    BY <1>1, <2>1 DEF OnlySeq
  <2> QED
    BY <1>1, <2>1, <2>2, <2>3 DEF TypeOK
<1>2. CASE seqs' = Stuck(q, h) /\ lost' = lost \cup {h}
  <2>1. <<>> \in Seq(Nat)
    OBVIOUS
  <2>2. DOMAIN seqs' = DOMAIN q /\ \A g \in DOMAIN q \ {h} : seqs'[g] = q[g]
    BY <1>2 DEF Stuck
  <2>3. seqs' \in [DOMAIN seqs' -> Seq(Nat)]
    BY <1>2, <2>1, <2>2 DEF Stuck
  <2>4. OnlySeq(h)
    BY <1>2, <2>2 DEF OnlySeq
  <2> QED
    BY <1>2, <2>2, <2>3, <2>4 DEF TypeOK
<1> QED
  BY <1>1, <1>2

\* An object starts anew; an object is copied.
LEMMA InitKeeps ==
    ASSUME Consistent, NEW o \in Objects, NEW will \in BOOLEAN, wc_InitSha256(o, will)
    PROVE  Consistent'
<1> DEFINE new == [NoObject EXCEPT !.state = "open", !.will = will]
<1>1. obj' = [obj EXCEPT ![o] = new] /\ UNCHANGED <<ctx, seqs, lost, chunks>> /\ DigestCovers'
  BY DEF wc_InitSha256, DigestCovers, Nothing
<1>2. new \in ObjectType /\ new.state = "open" /\ new.devCtx = 0 /\ ~new.copy /\ new.given = <<>>
  BY RecordTypes DEF NoObject, ObjectType
<1>3. obj[o].devCtx = 0
  <2>1. obj[o] = NoObject
    BY DEF wc_InitSha256, Consistent, Matches
  <2> QED
    BY <2>1 DEF NoObject
<1> HIDE DEF new
<1>4. /\ obj'[o] = new /\ \A p \in Objects \ {o} : obj'[p] = obj[p]
      /\ obj' \in [Objects -> ObjectType]
  BY <1>1, <1>2 DEF Consistent, TypeOK
<1>5. TypeOK' /\ HandlesMatch'
  BY <1>1, <1>4 DEF Consistent, TypeOK, HandlesMatch
<1>6. ASSUME NEW p \in Objects PROVE Matches(p)'
  BY <1>1, <1>2, <1>4 DEF Consistent, Matches, Behind
<1>7. OneOwner'
  BY <1>2, <1>4 DEF Consistent, OneOwner
<1> QED
  BY <1>1, <1>5, <1>6, <1>7 DEF Consistent

LEMMA CopyKeeps ==
    ASSUME Consistent, NEW o \in Objects, NEW p \in Objects \ {o}, wc_Sha256Copy(o, p)
    PROVE  Consistent'
<1> DEFINE new == [obj[o] EXCEPT !.copy = TRUE]
<1>1. obj' = [obj EXCEPT ![p] = new] /\ UNCHANGED <<ctx, seqs, lost, chunks>> /\ DigestCovers'
  BY DEF wc_Sha256Copy, DigestCovers, Nothing
<1>2. /\ new \in ObjectType /\ new.state = obj[o].state /\ new.devCtx = obj[o].devCtx /\ new.copy
      /\ new.given = obj[o].given /\ new.will /\ obj[o].will /\ obj[o].devCtx # 0
      /\ obj[o].state = "open"
  BY DEF wc_Sha256Copy, MayUpdate, MayUse, Consistent, TypeOK, ObjectType
<1>3. obj[p].devCtx = 0
  <2>1. obj[p] = NoObject
    BY DEF wc_Sha256Copy, Consistent, Matches
  <2> QED
    BY <2>1 DEF NoObject
<1> HIDE DEF new
<1>4. /\ obj'[p] = new /\ \A q \in Objects \ {p} : obj'[q] = obj[q]
      /\ obj' \in [Objects -> ObjectType]
  BY <1>1, <1>2 DEF Consistent, TypeOK
<1>5. TypeOK' /\ HandlesMatch'
  BY <1>1, <1>4 DEF Consistent, TypeOK, HandlesMatch
<1>6. ASSUME NEW q \in Objects PROVE Matches(q)'
  <2>1. CASE q = p
    BY <1>1, <1>2, <1>4, <2>1 DEF Consistent, Matches, Behind
  <2>2. CASE q # p
    BY <1>1, <1>4, <2>2 DEF Consistent, Matches, Behind
  <2> QED
    BY <2>1, <2>2
<1>7. OneOwner'
  BY <1>2, <1>4 DEF Consistent, OneOwner
<1> QED
  BY <1>1, <1>5, <1>6, <1>7 DEF Consistent

\* A freed object leaves its context behind, with what is in it.
LEMMA FreeKeeps ==
    ASSUME Consistent, NEW o \in Objects, wc_Sha256Free(o)
    PROVE  Consistent'
<1>1. obj' = [obj EXCEPT ![o] = NoObject] /\ UNCHANGED <<ctx, seqs, lost, chunks>> /\ DigestCovers'
  BY DEF wc_Sha256Free, DigestCovers, Nothing
<1>2. NoObject.devCtx = 0 /\ ~NoObject.copy /\ NoObject.given = <<>> /\ NoObject \in ObjectType
  BY RecordTypes DEF NoObject
<1>3. /\ obj'[o] = NoObject /\ \A p \in Objects \ {o} : obj'[p] = obj[p]
      /\ obj' \in [Objects -> ObjectType]
  BY <1>1, <1>2 DEF Consistent, TypeOK
<1>4. TypeOK' /\ HandlesMatch'
  BY <1>1, <1>3 DEF Consistent, TypeOK, HandlesMatch
<1>5. ASSUME NEW p \in Objects PROVE Matches(p)'
  BY <1>1, <1>2, <1>3 DEF Consistent, Matches, Behind
<1>6. OneOwner'
  BY <1>2, <1>3 DEF Consistent, OneOwner
<1> QED
  BY <1>1, <1>4, <1>5, <1>6 DEF Consistent

\* An update ends well, or with the object given up.
LEMMA UpdatedType ==
    ASSUME TypeOK, NEW o \in Objects, NEW n \in Lengths, NEW c \in ContextType, NEW q,
           Address(o) \in Contexts, Updated(o, n, c, q),
           DOMAIN q \subseteq Handles, q \in [DOMAIN q -> Seq(Nat)], lost \subseteq DOMAIN q
    PROVE  TypeOK'
<1>1. Append(obj[o].given, Len(chunks) + 1) \in Seq(Nat) /\ Append(chunks, n) \in Seq(Lengths)
  BY DEF TypeOK, ObjectType
<1>2. obj' \in [Objects -> ObjectType]
  <2> DEFINE new == [obj[o] EXCEPT !.devCtx = Address(o), !.given = Append(obj[o].given, Len(chunks) + 1)]
  <2>1. obj' = [obj EXCEPT ![o] = new]
    BY DEF Updated, TypeOK
  <2>2. new \in ObjectType
    BY <1>1 DEF TypeOK, ObjectType
  <2> HIDE DEF new
  <2> QED
    BY <2>1, <2>2 DEF TypeOK
<1> QED
  BY <1>1, <1>2 DEF Updated, TypeOK

LEMMA GivenUpType ==
    ASSUME TypeOK, NEW o \in Objects, NEW c \in ContextType, Address(o) \in Contexts, GivenUp(o, c),
           DOMAIN seqs' \subseteq Handles, seqs' \in [DOMAIN seqs' -> Seq(Nat)], lost' \subseteq DOMAIN seqs'
    PROVE  TypeOK'
BY RecordTypes DEF GivenUp, TypeOK

LEMMA UpdateCachedKeeps ==
    ASSUME Consistent, NEW o \in Objects, NEW n \in Lengths, NEW faults,
           MayUse(o), ~obj[o].copy, Room(o), obj[o].will, UpdateCached(o, n, faults), digest' = Nothing
    PROVE  Consistent'
<1> DEFINE r == wolfTPM2_HashUpdateCache(Context(o), n, faults)
<1>0. /\ TypeOK /\ DigestCovers' /\ Address(o) \in Contexts /\ obj[o].state = "open"
      /\ \A p \in Objects \ {o} : obj[p].devCtx # Address(o)
      /\ obj[o].devCtx # 0 => obj[o].devCtx = Address(o)
  BY AddressType, Unshared DEF Consistent, DigestCovers, Nothing, MayUse
<1>1. /\ Context(o) \in ContextType /\ Context(o).live /\ Context(o).handle = 0
      /\ Context(o).data = obj[o].given /\ ctx[Address(o)].handle = 0
  BY ContextFacts
<1>2. /\ r.c \in ContextType /\ r.c.live /\ r.c.handle = 0
      /\ r.rc = "ok" => r.c.data = Append(obj[o].given, Len(chunks) + 1)
  <2>1. n \in Nat /\ chunks \in Seq(Lengths)
    BY <1>0, Numbers DEF TypeOK
  <2> HIDE DEF r
  <2>2. /\ r.c \in ContextType /\ r.c.live = Context(o).live /\ r.c.handle = Context(o).handle
        /\ r.rc = "ok" => r.c.data = Append(Context(o).data, Len(chunks) + 1)
    BY <1>1, <2>1, CacheUpdate DEF r
  <2> QED
    BY <1>1, <2>2
<1> HIDE DEF r
<1>3. CASE r.rc = "ok" /\ Updated(o, n, r.c, seqs)
  <2> DEFINE given == Append(obj[o].given, Len(chunks) + 1)
  <2>1. TypeOK'
    <3>1. DOMAIN seqs \subseteq Handles /\ seqs \in [DOMAIN seqs -> Seq(Nat)] /\ lost \subseteq DOMAIN seqs
      BY <1>0 DEF TypeOK
    <3> QED
      BY <1>0, <1>2, <1>3, <3>1, UpdatedType
  <2>2. obj' = [obj EXCEPT ![o].devCtx = Address(o), ![o].given = given]
        /\ ctx' = [ctx EXCEPT ![Address(o)] = r.c] /\ seqs' = seqs /\ lost' = lost
    BY <1>3 DEF Updated
  <2>3. r.c.data = given
    BY <1>2, <1>3
  <2>4. 0 \notin DOMAIN seqs
    BY <1>0, Numbers DEF TypeOK
  <2>5. OnlySeq(r.c.handle)
    BY <2>2 DEF OnlySeq
  <2> HIDE DEF given
  <2> QED
    BY <1>0, <1>1, <1>2, <2>1, <2>2, <2>3, <2>4, <2>5, UpdateKeeps
<1>4. CASE GivenUp(o, r.c) /\ UNCHANGED <<seqs, lost>>
  <2>1. obj' = [obj EXCEPT ![o] = NoObject] /\ ctx' = [ctx EXCEPT ![Address(o)] = Freed]
    BY <1>4 DEF GivenUp, Cleanup
  <2>2. TypeOK'
    BY <1>0, <1>2, <1>4, GivenUpType DEF TypeOK
  <2>3. 0 \notin DOMAIN seqs
    BY <1>0, Numbers DEF TypeOK
  <2>4. OnlySeq(0)
    BY <1>4 DEF OnlySeq
  <2> QED
    BY <1>0, <1>1, <1>4, <2>1, <2>2, <2>3, <2>4, ReleaseKeeps
<1> QED
  BY <1>3, <1>4 DEF UpdateCached, r

LEMMA UpdateStreamedKeeps ==
    ASSUME Consistent, NEW o \in Objects, NEW n \in Lengths, NEW faults,
           MayUse(o), ~obj[o].copy, Room(o), ~obj[o].will, UpdateStreamed(o, n, faults), digest' = Nothing
    PROVE  Consistent'
<1> DEFINE old == Context(o).handle
           h   == IF old = 0 THEN FreeHandle ELSE old
           started == old # 0 \/ (h # 0 /\ "start" \notin faults)
           k == Len(chunks) + 1
<1>0. /\ TypeOK /\ DigestCovers' /\ Address(o) \in Contexts /\ obj[o].state = "open"
      /\ \A p \in Objects \ {o} : obj[p].devCtx # Address(o)
      /\ obj[o].devCtx # 0 => obj[o].devCtx = Address(o)
  BY AddressType, Unshared DEF Consistent, DigestCovers, Nothing, MayUse
<1>1. /\ Context(o) \in ContextType /\ Context(o).live /\ ctx[Address(o)].handle = old
      /\ old = 0 => obj[o].given = <<>>
      /\ old # 0 => old \in DOMAIN seqs \ lost /\ seqs[old] = obj[o].given
  BY ContextFacts
<1>2. /\ DOMAIN seqs \subseteq Handles /\ seqs \in [DOMAIN seqs -> Seq(Nat)]
      /\ lost \subseteq DOMAIN seqs /\ 0 \notin DOMAIN seqs /\ obj[o].given \in Seq(Nat) /\ k \in Nat
      /\ <<>> \in Seq(Nat) /\ <<k>> \in Seq(Nat)
  BY <1>0, Numbers DEF TypeOK, ObjectType
<1>3. started => h \in Handles /\ h # 0 /\ h \notin lost /\ (old # 0 => h = old)
                 /\ (old = 0 => h \notin DOMAIN seqs)
  BY <1>1, <1>2, FreeHandleType, Numbers
<1>4. CASE ~started /\ GivenUp(o, Context(o)) /\ UNCHANGED <<seqs, lost>>
  <2>1. obj' = [obj EXCEPT ![o] = NoObject] /\ ctx' = [ctx EXCEPT ![Address(o)] = Freed]
    BY <1>4 DEF GivenUp, Cleanup
  <2>2. TypeOK'
    BY <1>0, <1>1, <1>4, GivenUpType DEF TypeOK
  <2>3. OnlySeq(0) /\ old = 0
    BY <1>4 DEF OnlySeq
  <2> QED
    BY <1>0, <1>1, <1>2, <1>4, <2>1, <2>2, <2>3, ReleaseKeeps
<1> HIDE DEF old, h, started, k
<1>5. CASE started /\ GivenUp(o, Context(o)) /\ Flush(Sent(seqs, h, <<>>), h, faults)
  <2> DEFINE q == Sent(seqs, h, <<>>)
  <2>1. DOMAIN q = DOMAIN seqs \cup {h} /\ q \in [DOMAIN q -> Seq(Nat)]
        /\ \A g \in DOMAIN seqs \ {h} : q[g] = seqs[g]
    <3>1. /\ DOMAIN q = DOMAIN seqs \cup {h} /\ q \in [DOMAIN seqs \cup {h} -> Seq(Nat)]
          /\ \A g \in DOMAIN seqs \ {h} : q[g] = seqs[g]
      <4>1. seqs \in [DOMAIN seqs -> Seq(Nat)] /\ <<>> \in Seq(Nat)
        BY <1>2
      <4> QED
        BY <4>1, SentFields
    <3> QED
      BY <3>1
  <2>2. \/ seqs' = Gone(q, h) /\ lost' = lost
        \/ seqs' = Stuck(q, h) /\ lost' = lost \cup {h}
    BY <1>5 DEF Flush
  <2> HIDE DEF q
  <2>3. /\ OnlySeq(h) /\ h \notin DOMAIN seqs' \ lost'
        /\ DOMAIN seqs' \subseteq Handles /\ seqs' \in [DOMAIN seqs' -> Seq(Nat)]
        /\ lost' \subseteq DOMAIN seqs'
    BY <1>0, <1>3, <1>5, <2>1, <2>2, EndKeeps
  <2>4. obj' = [obj EXCEPT ![o] = NoObject] /\ ctx' = [ctx EXCEPT ![Address(o)] = Freed]
    BY <1>5 DEF GivenUp, Cleanup
  <2>5. TypeOK'
    BY <1>0, <1>1, <1>5, <2>3, GivenUpType
  <2>6. h \in DOMAIN seqs \ lost => ctx[Address(o)].handle = h
    BY <1>1, <1>3, <1>5
  <2>7. ctx[Address(o)].handle # 0 => ctx[Address(o)].handle = h
    BY <1>1, <1>3, <1>5
  <2> QED
    BY <1>0, <2>3, <2>4, <2>5, <2>6, <2>7, ReleaseKeeps
<1>6. CASE started /\ Updated(o, n, [Context(o) EXCEPT !.handle = h], Sent(seqs, h, <<k>>))
  <2> DEFINE q == Sent(seqs, h, <<k>>)
             c == [Context(o) EXCEPT !.handle = h]
             given == Append(obj[o].given, k)
  <2>1. /\ DOMAIN q = DOMAIN seqs \cup {h} /\ q \in [DOMAIN q -> Seq(Nat)]
        /\ \A g \in DOMAIN seqs \ {h} : q[g] = seqs[g]
        /\ h \in DOMAIN seqs => q[h] = seqs[h] \o <<k>>
        /\ h \notin DOMAIN seqs => q[h] = <<k>>
    <3>1. /\ DOMAIN q = DOMAIN seqs \cup {h} /\ q \in [DOMAIN seqs \cup {h} -> Seq(Nat)]
          /\ \A g \in DOMAIN seqs \ {h} : q[g] = seqs[g]
          /\ h \in DOMAIN seqs => q[h] = seqs[h] \o <<k>>
          /\ h \notin DOMAIN seqs => q[h] = <<k>>
      <4> DEFINE data == <<k>>
      <4>1. seqs \in [DOMAIN seqs -> Seq(Nat)] /\ data \in Seq(Nat) /\ q = Sent(seqs, h, data)
        BY <1>2
      <4> HIDE DEF data, q
      <4>3. /\ DOMAIN Sent(seqs, h, data) = DOMAIN seqs \cup {h}
            /\ \A g \in DOMAIN seqs \ {h} : Sent(seqs, h, data)[g] = seqs[g]
            /\ h \in DOMAIN seqs => Sent(seqs, h, data)[h] = seqs[h] \o data
            /\ h \notin DOMAIN seqs => Sent(seqs, h, data)[h] = data
            /\ Sent(seqs, h, data) \in [DOMAIN seqs \cup {h} -> Seq(Nat)]
        BY <4>1, SentFields, Zenon
      <4>2. /\ DOMAIN q = DOMAIN seqs \cup {h} /\ q \in [DOMAIN seqs \cup {h} -> Seq(Nat)]
            /\ \A g \in DOMAIN seqs \ {h} : q[g] = seqs[g]
            /\ h \in DOMAIN seqs => q[h] = seqs[h] \o data
            /\ h \notin DOMAIN seqs => q[h] = data
        BY <4>1, <4>3, Zenon
      <4> QED
        BY <4>2 DEF data
    <3> QED
      BY <3>1
  <2>2. q[h] = given
    <3>1. CASE old = 0
      <4>1. q[h] = <<k>> /\ obj[o].given = <<>>
        BY <1>1, <1>3, <1>6, <2>1, <3>1
      <4>2. Append(<<>>, k) = <<k>>
        OBVIOUS
      <4> QED
        BY <4>1, <4>2
    <3>2. CASE old # 0
      <4>1. q[h] = obj[o].given \o <<k>>
        BY <1>1, <1>3, <1>6, <2>1, <3>2
      <4>2. obj[o].given \o <<k>> = given
        BY <1>2
      <4> QED
        BY <4>1, <4>2
    <3> QED
      BY <3>1, <3>2
  <2>3. c \in ContextType /\ c.handle = h /\ c.live
    BY <1>1, <1>3, <1>6 DEF ContextType
  <2>4. obj' = [obj EXCEPT ![o].devCtx = Address(o), ![o].given = given]
        /\ ctx' = [ctx EXCEPT ![Address(o)] = c] /\ seqs' = q /\ lost' = lost
    BY <1>6 DEF Updated, k
  <2> HIDE DEF q, c, given
  <2>5. TypeOK'
    <3>1. Updated(o, n, c, q)
      BY <1>6 DEF c, q
    <3>2. DOMAIN q \subseteq Handles /\ lost \subseteq DOMAIN q
      BY <1>2, <1>3, <1>6, <2>1
    <3> QED
      BY <1>0, <2>1, <2>3, <3>1, <3>2, UpdatedType
  <2>6. OnlySeq(c.handle)
    BY <2>1, <2>3, <2>4 DEF OnlySeq
  <2>7. c.handle \in DOMAIN seqs' \ lost' /\ seqs'[c.handle] = given /\ c.handle # 0
    BY <1>3, <1>6, <2>1, <2>2, <2>3, <2>4
  <2>8. c.handle \in DOMAIN seqs \ lost => ctx[Address(o)].handle = c.handle
    BY <1>1, <1>3, <1>6, <2>3
  <2>9. ctx[Address(o)].handle # 0 => ctx[Address(o)].handle = c.handle
    BY <1>1, <1>3, <1>6, <2>3
  <2> QED
    BY <1>0, <2>3, <2>4, <2>5, <2>6, <2>7, <2>8, <2>9, UpdateKeeps
<1> QED
  BY <1>4, <1>5, <1>6 DEF UpdateStreamed, old, h, started, k

LEMMA HashUpdateKeeps ==
    ASSUME Consistent, NEW o \in Objects, NEW n \in Lengths, NEW faults, HashUpdate(o, n, faults)
    PROVE  Consistent'
<1>0. MayUse(o) /\ ~obj[o].copy /\ Room(o) /\ digest' = Nothing
  BY DEF HashUpdate, MayUpdate
<1>1. CASE obj[o].devCtx = 0 /\ obj' = [obj EXCEPT ![o] = NoObject] /\ UNCHANGED <<ctx, seqs, lost, chunks>>
  <2>1. TypeOK' /\ DigestCovers'
    BY <1>0, <1>1, RecordTypes DEF Consistent, TypeOK, DigestCovers, Nothing
  <2>2. OnlySeq(0) /\ 0 \notin DOMAIN seqs
    BY <1>1, Numbers DEF OnlySeq, Consistent, TypeOK
  <2> QED
    BY <1>1, <2>1, <2>2, NoOwnerKeeps
<1>2. CASE obj[o].will /\ UpdateCached(o, n, faults)
  BY <1>0, <1>2, UpdateCachedKeeps
<1>3. CASE ~obj[o].will /\ UpdateStreamed(o, n, faults)
  BY <1>0, <1>3, UpdateStreamedKeeps
<1> QED
  BY <1>1, <1>2, <1>3 DEF HashUpdate

\* A digest is computed, or the call fails; either way the object is done.
LEMMA HashFinalKeeps ==
    ASSUME Consistent, NEW o \in Objects, NEW faults, HashFinal(o, faults)
    PROVE  Consistent'
<1> DEFINE c    == Context(o)
           will == obj[o].will /\ obj[o].devCtx # 0
           h    == IF c.handle = 0 THEN FreeHandle ELSE c.handle
           q    == IF will THEN Sent(seqs, h, c.data) ELSE seqs
           started == c.handle # 0 \/ (will /\ h # 0 /\ "start" \notin faults)
           fed     == started /\ ~(will /\ "update" \in faults)
           done    == fed /\ "finish" \notin faults
           a    == obj[o].devCtx
<1>0. MayUse(o) /\ obj' = [obj EXCEPT ![o] = NoObject] /\ UNCHANGED chunks
  BY DEF HashFinal
<1>1. ctx' = IF a = 0 THEN ctx ELSE [ctx EXCEPT ![a] = Cleanup(o, [c EXCEPT !.handle = h])]
  BY DEF HashFinal
<1>2. \/ ~started /\ digest' = Nothing /\ UNCHANGED <<seqs, lost>>
      \/ started /\ ~fed /\ digest' = Nothing /\ Flush(Sent(seqs, h, <<>>), h, faults)
      \/ fed /\ ~done /\ digest' = Nothing /\ seqs' = Stuck(q, h) /\ lost' = lost \cup {h}
      \/ done /\ digest' = [covers |-> q[h], given |-> obj[o].given] /\ seqs' = Gone(q, h) /\ UNCHANGED lost
  BY DEF HashFinal
<1>3. /\ DOMAIN seqs \subseteq Handles /\ seqs \in [DOMAIN seqs -> Seq(Nat)]
      /\ lost \subseteq DOMAIN seqs /\ 0 \notin DOMAIN seqs /\ TypeOK /\ obj[o].given \in Seq(Nat)
      /\ <<>> \in Seq(Nat)
  BY Numbers DEF Consistent, TypeOK, ObjectType
<1>4. CASE a = 0
  <2>1. c.handle = 0 /\ ~will
    BY <1>4 DEF Context, NewCtx, Freed
  <2>2. ~started
    BY <2>1
  <2> HIDE DEF started, will, h, c, q
  <2>3. ctx' = ctx /\ UNCHANGED <<seqs, lost>> /\ digest' = Nothing
    BY <1>1, <1>2, <1>4, <2>2
  <2>4. TypeOK' /\ DigestCovers'
    BY <1>0, <1>3, <2>3, RecordTypes DEF TypeOK, DigestCovers, Nothing
  <2>5. OnlySeq(0)
    BY <2>3 DEF OnlySeq
  <2> QED
    BY <1>0, <1>3, <1>4, <2>3, <2>4, <2>5, NoOwnerKeeps
<1>5. CASE a # 0
  <2>0. a \in Contexts /\ Room(o) /\ Address(o) = a /\ c = ctx[a]
    BY <1>3, <1>5 DEF TypeOK, ObjectType, Room, Address, Context
  <2>1. /\ c \in ContextType /\ ctx[a].handle = c.handle
        /\ obj[o].will => c.handle = 0 /\ c.data = obj[o].given
        /\ ~obj[o].will => c.handle # 0 /\ c.handle \in DOMAIN seqs \ lost /\ seqs[c.handle] = obj[o].given
    <3>1. ~obj[o].will => c.handle # 0
      BY <1>5, <2>0 DEF Consistent, Matches, Behind
    <3> QED
      BY <2>0, <3>1, ContextFacts
  <2> HIDE DEF c
  <2>2. /\ h \in Handles \cup {0} /\ h \notin lost
        /\ c.handle # 0 => h = c.handle
        /\ c.handle = 0 => h \notin DOMAIN seqs
        /\ started => h # 0
        /\ ~started => h \notin DOMAIN seqs
    BY <1>3, <2>1, FreeHandleType, Numbers
  <2>3. started =>
        /\ DOMAIN q = DOMAIN seqs \cup {h} /\ q \in [DOMAIN q -> Seq(Nat)]
        /\ \A g \in DOMAIN seqs \ {h} : q[g] = seqs[g]
        /\ q[h] = obj[o].given
    <3> HIDE DEF h, started
    <3>1. CASE obj[o].will
      <4> DEFINE data == c.data
      <4>1. c.handle = 0 /\ h \notin DOMAIN seqs /\ data = obj[o].given /\ data \in Seq(Nat)
        BY <1>3, <2>1, <2>2, <3>1
      <4>2. q = Sent(seqs, h, data)
        BY <1>5, <3>1
      <4>3. seqs \in [DOMAIN seqs -> Seq(Nat)]
        BY <1>3
      <4> HIDE DEF data, q
      <4>4. /\ DOMAIN Sent(seqs, h, data) = DOMAIN seqs \cup {h}
            /\ \A g \in DOMAIN seqs \ {h} : Sent(seqs, h, data)[g] = seqs[g]
            /\ h \in DOMAIN seqs => Sent(seqs, h, data)[h] = seqs[h] \o data
            /\ h \notin DOMAIN seqs => Sent(seqs, h, data)[h] = data
            /\ Sent(seqs, h, data) \in [DOMAIN seqs \cup {h} -> Seq(Nat)]
        BY <4>1, <4>3, SentFields, Zenon
      <4> QED
        BY <4>1, <4>2, <4>4
    <3>2. CASE ~obj[o].will
      <4>1. q = seqs /\ h \in DOMAIN seqs /\ h = c.handle
        BY <2>1, <2>2, <3>2
      <4> HIDE DEF q
      <4> QED
        BY <1>3, <2>1, <3>2, <4>1
    <3> QED
      BY <3>1, <3>2
  <2>4. started =>
        /\ DOMAIN Sent(seqs, h, <<>>) = DOMAIN seqs \cup {h}
        /\ Sent(seqs, h, <<>>) \in [DOMAIN Sent(seqs, h, <<>>) -> Seq(Nat)]
        /\ \A g \in DOMAIN seqs \ {h} : Sent(seqs, h, <<>>)[g] = seqs[g]
    <3> HIDE DEF h, started
    <3> DEFINE data == <<>>
    <3>1. seqs \in [DOMAIN seqs -> Seq(Nat)] /\ data \in Seq(Nat)
      BY <1>3
    <3> HIDE DEF data
    <3>2. /\ DOMAIN Sent(seqs, h, data) = DOMAIN seqs \cup {h}
          /\ \A g \in DOMAIN seqs \ {h} : Sent(seqs, h, data)[g] = seqs[g]
          /\ Sent(seqs, h, data) \in [DOMAIN seqs \cup {h} -> Seq(Nat)]
      BY <3>1, SentFields, Zenon
    <3> QED
      BY <3>2 DEF data
  <2>5. h \in DOMAIN seqs \ lost => ctx[a].handle = h
    BY <2>1, <2>2
  <2>6. ctx[a].handle # 0 => ctx[a].handle = h
    BY <2>1, <2>2
  <2>7. fed => started
    OBVIOUS
  <2>8. done => fed
    OBVIOUS
  <2> HIDE DEF h, started, fed, done, q, will
  <2>9. /\ OnlySeq(h) /\ h \notin DOMAIN seqs' \ lost'
        /\ DOMAIN seqs' \subseteq Handles /\ seqs' \in [DOMAIN seqs' -> Seq(Nat)]
        /\ lost' \subseteq DOMAIN seqs' /\ DigestCovers'
    <3>1. CASE ~started /\ digest' = Nothing /\ UNCHANGED <<seqs, lost>>
      BY <1>3, <2>2, <3>1 DEF OnlySeq, DigestCovers, Nothing
    <3>2. CASE started /\ ~fed /\ digest' = Nothing /\ Flush(Sent(seqs, h, <<>>), h, faults)
      <4> DEFINE r == Sent(seqs, h, <<>>)
      <4>1. \/ seqs' = Gone(r, h) /\ lost' = lost
            \/ seqs' = Stuck(r, h) /\ lost' = lost \cup {h}
        BY <3>2 DEF Flush
      <4>2. DOMAIN r = DOMAIN seqs \cup {h} /\ r \in [DOMAIN r -> Seq(Nat)]
            /\ \A g \in DOMAIN seqs \ {h} : r[g] = seqs[g]
        BY <2>4, <3>2
      <4>3. h \in Handles /\ h \notin lost
        BY <2>2, <3>2
      <4> HIDE DEF r
      <4>4. DigestCovers'
        BY <3>2 DEF DigestCovers, Nothing
      <4> QED
        BY <1>3, <4>1, <4>2, <4>3, <4>4, EndKeeps
    <3>3. CASE \/ fed /\ ~done /\ digest' = Nothing /\ seqs' = Stuck(q, h) /\ lost' = lost \cup {h}
               \/ done /\ digest' = [covers |-> q[h], given |-> obj[o].given] /\ seqs' = Gone(q, h) /\ UNCHANGED lost
      <4>1. DOMAIN q = DOMAIN seqs \cup {h} /\ q \in [DOMAIN q -> Seq(Nat)]
            /\ (\A g \in DOMAIN seqs \ {h} : q[g] = seqs[g]) /\ q[h] = obj[o].given
        BY <2>3, <2>7, <2>8, <3>3
      <4>2. h \in Handles /\ h \notin lost
        BY <2>2, <2>7, <2>8, <3>3
      <4>3. DigestCovers'
        BY <3>3, <4>1 DEF DigestCovers, Nothing
      <4>4. \/ seqs' = Gone(q, h) /\ lost' = lost
            \/ seqs' = Stuck(q, h) /\ lost' = lost \cup {h}
        BY <3>3
      <4>5. TypeOK
        BY <1>3
      <4>6. \A g \in DOMAIN seqs \ {h} : q[g] = seqs[g]
        BY <4>1
      <4>7. /\ OnlySeq(h) /\ h \notin DOMAIN seqs' \ lost'
            /\ DOMAIN seqs' \subseteq Handles /\ seqs' \in [DOMAIN seqs' -> Seq(Nat)]
            /\ lost' \subseteq DOMAIN seqs'
        BY <4>1, <4>2, <4>4, <4>5, <4>6, EndKeeps
      <4> QED
        BY <4>3, <4>7, Zenon
    <3> QED
      BY <1>2, <3>1, <3>2, <3>3
  <2>10. CASE obj[o].copy
    <3>1. c.handle = 0
      BY <2>1, <2>10 DEF Consistent, Matches
    <3>2. [[c EXCEPT !.handle = h] EXCEPT !.handle = 0] = c
      BY <2>1, <3>1 DEF ContextType
    <3>3. ctx' = [ctx EXCEPT ![a] = c]
      BY <1>1, <1>5, <2>10, <3>2 DEF Cleanup
    <3>4. ctx' = ctx
      BY <1>3, <2>0, <3>3 DEF TypeOK
    <3>5. TypeOK'
      BY <1>0, <1>3, <2>9, <3>4, RecordTypes DEF TypeOK
    <3>6. h \notin DOMAIN seqs \ lost
      BY <2>2, <3>1
    <3> QED
      BY <1>0, <2>9, <2>10, <3>4, <3>5, <3>6, NoOwnerKeeps
  <2>11. CASE ~obj[o].copy
    <3>1. ctx' = [ctx EXCEPT ![a] = Freed]
      BY <1>1, <1>5, <2>11 DEF Cleanup
    <3>2. TypeOK'
      BY <1>0, <1>3, <2>9, <3>1, RecordTypes DEF TypeOK
    <3>3. \A p \in Objects \ {o} : obj[p].devCtx # a
      BY <1>0, <2>0, <2>11, Unshared
    <3> QED
      BY <1>0, <2>0, <2>5, <2>6, <2>9, <3>1, <3>2, <3>3, ReleaseKeeps
  <2> QED
    BY <2>10, <2>11
<1> QED
  BY <1>4, <1>5

-----------------------------------------------------------------------------
(* The buffers: what a context was given, summed over the chunks it holds, *)
(* is what it says it holds.                                               *)

\* The size of a context is the total of its data, and within its buffer.
Fits(r, amounts) ==
    /\ \A i \in 1 .. Len(r.data) : r.data[i] \in 1 .. Len(amounts)
    /\ r.sz = TotalOf(amounts, r.data)
    /\ r.buf => r.sz =< r.bufSz
    /\ ~r.buf => r.data = <<>>

AllFit == \A c \in Contexts : Fits(ctx[c], chunks)

\* Rounding up to whole blocks loses nothing.
LEMMA RoundUpHolds == \A m \in Nat : RoundUp(m) \in Int /\ m =< RoundUp(m)
<1> SUFFICES ASSUME NEW m \in Nat PROVE RoundUp(m) \in Int /\ m =< RoundUp(m)
  OBVIOUS
<1> DEFINE x == m + Block - 1
<1>1. x \in Int /\ Block \in Nat \ {0}
  BY Numbers
<1>2. x \div Block \in Int /\ x < (x \div Block) * Block + Block
  <2> HIDE DEF x
  <2> QED
    BY <1>1
<1> DEFINE y == (x \div Block) * Block
<1>3. y \in Int /\ m + Block - 1 < y + Block
  <2> DEFINE q == x \div Block
  <2>1. q \in Int /\ x < q * Block + Block
    BY <1>2
  <2> HIDE DEF q
  <2>2. q * Block \in Int
    BY <1>1, <2>1
  <2> QED
    BY <2>1, <2>2 DEF q
<1> HIDE DEF y
<1>4. m =< y
  BY <1>1, <1>3
<1> QED
  BY <1>3, <1>4 DEF RoundUp, y

LEMMA EmptyFits ==
    ASSUME NEW amounts
    PROVE  Fits(Freed, amounts) /\ Fits(NewCtx, amounts)
<1>1. TotalOf(amounts, <<>>) = 0
  BY TotalEmpty
<1>2. /\ Freed.data = <<>> /\ Freed.sz = 0 /\ ~Freed.buf
      /\ NewCtx.data = <<>> /\ NewCtx.sz = 0 /\ ~NewCtx.buf
  BY DEF Freed, NewCtx
<1> QED
  BY <1>1, <1>2 DEF Fits

\* A new handle, and an update of another object, change nothing about it.
LEMMA HandleFits ==
    ASSUME NEW c \in ContextType, NEW amounts, Fits(c, amounts), NEW h
    PROVE  Fits([c EXCEPT !.handle = h], amounts)
<1> DEFINE w == [c EXCEPT !.handle = h]
<1>1. w.data = c.data /\ w.sz = c.sz /\ w.buf = c.buf /\ w.bufSz = c.bufSz
  BY DEF ContextType
<1> HIDE DEF w
<1>2. Fits(w, amounts)
  BY <1>1 DEF Fits
<1> QED
  BY <1>2 DEF w

LEMMA LaterFits ==
    ASSUME NEW c \in ContextType, NEW T, NEW amounts \in Seq(T), Fits(c, amounts), NEW n \in T
    PROVE  /\ Fits(c, Append(amounts, n))
           /\ SameAt(c.data, amounts, Append(amounts, n))
<1> DEFINE more == Append(amounts, n)
<1>1. Len(more) = Len(amounts) + 1 /\ Len(amounts) \in Nat
      /\ \A j \in 1 .. Len(amounts) : j \in 1 .. Len(more) /\ more[j] = amounts[j]
  OBVIOUS
<1> HIDE DEF more
<1>2. \A i \in 1 .. Len(c.data) : c.data[i] \in 1 .. Len(more) /\ more[c.data[i]] = amounts[c.data[i]]
  BY <1>1 DEF Fits
<1>3. TotalOf(more, c.data) = TotalOf(amounts, c.data)
  <2>1. c.data \in Seq(Nat)
    BY DEF ContextType
  <2>2. SameAt(c.data, amounts, more)
    BY <1>2 DEF SameAt
  <2> QED
    BY <2>1, <2>2, TotalOther
<1>4. Fits(c, more)
  BY <1>2, <1>3 DEF Fits
<1> QED
  BY <1>2, <1>4 DEF more, SameAt

\* An update that is cached leaves a context that holds one chunk more, in a
\* buffer that was large enough or was made so.
LEMMA CachedFits ==
    ASSUME chunks \in Seq(Lengths), NEW c \in ContextType, NEW n \in Lengths, NEW faults,
           Fits(c, chunks), wolfTPM2_HashUpdateCache(c, n, faults).rc = "ok"
    PROVE  Fits(wolfTPM2_HashUpdateCache(c, n, faults).c, Append(chunks, n))
<1> DEFINE k == Len(chunks) + 1
           more == Append(chunks, n)
           start == ~c.buf
           grow  == c.buf /\ c.sz + n > c.bufSz
           sized == IF start /\ n = 0 THEN Block ELSE RoundUp(c.sz + n)
           size  == IF start \/ grow THEN sized ELSE c.bufSz
           data  == Append(c.data, k)
           good  == [c EXCEPT !.buf = TRUE, !.bufSz = size, !.sz = c.sz + n, !.data = data]
<1>1. wolfTPM2_HashUpdateCache(c, n, faults).c = good
  BY DEF wolfTPM2_HashUpdateCache, ContextType, Failed
<1>2. /\ n \in Nat /\ c.sz \in Nat /\ c.sz + n \in Nat /\ c.bufSz \in Int /\ c.data \in Seq(Nat)
      /\ Len(chunks) \in Nat /\ k \in Nat /\ Block \in Nat
      /\ Len(more) = k /\ more[k] = n
  BY Numbers DEF ContextType
<1>3. c.sz + n =< size
  <2>1. start => c.sz = 0
    BY TotalEmpty DEF Fits
  <2>2. RoundUp(c.sz + n) \in Int /\ c.sz + n =< RoundUp(c.sz + n)
    BY <1>2, RoundUpHolds
  <2>3. CASE start /\ n = 0
    BY <1>2, <2>1, <2>3
  <2>4. CASE (start \/ grow) /\ ~(start /\ n = 0)
    BY <2>2, <2>4
  <2>5. CASE ~start /\ ~grow
    BY <1>2, <2>5
  <2> QED
    BY <2>3, <2>4, <2>5
<1>4. \A i \in 1 .. Len(data) : data[i] \in 1 .. Len(more)
  <2>1. Len(data) = Len(c.data) + 1 /\ Len(c.data) \in Nat /\ data[Len(data)] = k
        /\ \A i \in 1 .. Len(c.data) : data[i] = c.data[i]
    BY <1>2
  <2>2. \A i \in 1 .. Len(c.data) : c.data[i] \in 1 .. Len(chunks)
    BY DEF Fits
  <2> HIDE DEF data, more
  <2>3. ASSUME NEW i \in 1 .. Len(data) PROVE data[i] \in 1 .. Len(more)
    <3>1. CASE i = Len(data)
      BY <1>2, <2>1, <3>1
    <3>2. CASE i # Len(data)
      <4>1. i \in 1 .. Len(c.data)
        BY <2>1, <3>2
      <4>2. data[i] \in 1 .. Len(chunks)
        BY <2>1, <2>2, <4>1
      <4>3. Len(more) = Len(chunks) + 1 /\ Len(chunks) \in Nat
        BY <1>2
      <4> QED
        BY <4>2, <4>3
    <3> QED
      BY <3>1, <3>2
  <2> QED
    BY <2>3
<1>5. TotalOf(more, data) = c.sz + n
  <2>1. SameAt(c.data, chunks, more)
    <3> HIDE DEF good, data, size, start, grow, sized, k
    <3> QED
      BY LaterFits
  <2>2. TotalOf(more, Append(c.data, k)) = TotalOf(chunks, c.data) + more[k]
    <3>1. c.data \in Seq(Nat)
      BY <1>2
    <3> HIDE DEF more, k, good, data, size, start, grow, sized
    <3> QED
      BY <2>1, <3>1, TotalAppend
  <2> QED
    BY <1>2, <2>2 DEF Fits
<1>6. good.buf /\ good.bufSz = size /\ good.sz = c.sz + n /\ good.data = data
  <2> HIDE DEF size, data
  <2> QED
    BY DEF ContextType
<1> HIDE DEF good, size, data, more, start, grow, sized, k
<1>7. Fits(good, more)
  BY <1>3, <1>4, <1>5, <1>6 DEF Fits
<1> QED
  BY <1>1, <1>7 DEF more

\* One context changes, the others keep what they hold.
LEMMA OneFits ==
    ASSUME TypeOK, AllFit, NEW a \in Contexts, NEW r, ctx' = [ctx EXCEPT ![a] = r],
           Fits(r, chunks'), chunks' = chunks \/ \E n \in Lengths : chunks' = Append(chunks, n)
    PROVE  AllFit'
<1>1. ASSUME NEW c \in Contexts PROVE Fits(ctx[c], chunks')
  <2>1. ctx[c] \in ContextType /\ chunks \in Seq(Lengths) /\ Fits(ctx[c], chunks)
    BY DEF AllFit, TypeOK
  <2>2. CASE chunks' = chunks
    BY <2>1, <2>2
  <2>3. CASE \E n \in Lengths : chunks' = Append(chunks, n)
    <3>1. \A n \in Lengths : Fits(ctx[c], Append(chunks, n))
      <4> DEFINE r0 == ctx[c]
      <4> HIDE DEF r0
      <4> QED
        BY <2>1, LaterFits DEF r0
    <3> QED
      BY <2>3, <3>1
  <2> QED
    BY <2>2, <2>3
<1>2. ASSUME NEW c \in Contexts PROVE Fits(ctx'[c], chunks')
  BY <1>1 DEF TypeOK
<1>3. AllFit' <=> \A c \in Contexts : Fits(ctx'[c], chunks')
  BY DEF AllFit
<1> QED
  BY <1>2, <1>3

LEMMA UpdateFits ==
    ASSUME Consistent, AllFit, NEW o \in Objects, NEW n \in Lengths, NEW faults, HashUpdate(o, n, faults)
    PROVE  AllFit'
<1>0. /\ TypeOK /\ Address(o) \in Contexts /\ Room(o) /\ ~obj[o].copy /\ chunks \in Seq(Lengths)
  BY AddressType DEF HashUpdate, MayUpdate, Consistent, TypeOK
<1>1. Context(o) \in ContextType /\ Fits(Context(o), chunks)
  <2>1. Context(o) \in ContextType
    BY <1>0, ContextFacts
  <2>2. ASSUME obj[o].devCtx = 0 PROVE Fits(Context(o), chunks)
    BY <2>2, EmptyFits DEF Context
  <2>3. ASSUME obj[o].devCtx # 0 PROVE Fits(Context(o), chunks)
    <3>1. obj[o].devCtx \in Contexts /\ Context(o) = ctx[obj[o].devCtx]
      BY <1>0, <2>3 DEF Context, TypeOK, ObjectType
    <3> QED
      BY <3>1 DEF AllFit
  <2> QED
    BY <2>1, <2>2, <2>3
<1>2. ASSUME NEW c, GivenUp(o, c) PROVE AllFit'
  <2>1. ctx' = [ctx EXCEPT ![Address(o)] = Freed] /\ chunks' = chunks
    BY <1>0, <1>2 DEF GivenUp, Cleanup
  <2>2. Fits(Freed, chunks')
    BY EmptyFits
  <2> QED
    BY <1>0, <2>1, <2>2, OneFits
<1>3. ASSUME NEW c, NEW q, Updated(o, n, c, q), Fits(c, Append(chunks, n)) PROVE AllFit'
  <2>1. ctx' = [ctx EXCEPT ![Address(o)] = c] /\ chunks' = Append(chunks, n)
    BY <1>3 DEF Updated
  <2>2. Fits(c, chunks')
    BY <1>3, <2>1
  <2> QED
    BY <1>0, <2>1, <2>2, OneFits
<1>4. CASE UNCHANGED <<ctx, chunks>>
  BY <1>4 DEF AllFit
<1>5. CASE UpdateCached(o, n, faults)
  BY <1>0, <1>1, <1>2, <1>3, <1>5, CachedFits DEF UpdateCached
<1>6. CASE UpdateStreamed(o, n, faults)
  <2>1. \A h : Fits([Context(o) EXCEPT !.handle = h], Append(chunks, n))
    BY <1>0, <1>1, LaterFits, HandleFits
  <2> QED
    BY <1>2, <1>3, <1>6, <2>1 DEF UpdateStreamed
<1> QED
  BY <1>4, <1>5, <1>6 DEF HashUpdate

LEMMA FinalFits ==
    ASSUME Consistent, AllFit, NEW o \in Objects, NEW faults, HashFinal(o, faults)
    PROVE  AllFit'
<1>1. TypeOK /\ chunks' = chunks
  BY DEF HashFinal, Consistent
<1>2. CASE obj[o].devCtx = 0
  <2>1. ctx' = ctx
    BY <1>2 DEF HashFinal
  <2> QED
    BY <1>1, <2>1 DEF AllFit
<1>3. CASE obj[o].devCtx # 0
  <2> DEFINE a == obj[o].devCtx
  <2>1. a \in Contexts /\ ctx[a] \in ContextType /\ Fits(ctx[a], chunks)
    BY <1>1, <1>3 DEF TypeOK, ObjectType, AllFit
  <2>2. \E h : ctx' = [ctx EXCEPT ![a] = Cleanup(o, [ctx[a] EXCEPT !.handle = h])]
    BY <1>3 DEF HashFinal, Context
  <2>3. PICK h : ctx' = [ctx EXCEPT ![a] = Cleanup(o, [ctx[a] EXCEPT !.handle = h])]
    BY <2>2
  <2> DEFINE r == Cleanup(o, [ctx[a] EXCEPT !.handle = h])
  <2>4. Fits(r, chunks)
    <3>1. CASE ~obj[o].copy
      BY <3>1, EmptyFits DEF Cleanup
    <3>2. CASE obj[o].copy
      <4>1. r = [ctx[a] EXCEPT !.handle = 0]
        BY <2>1, <3>2 DEF Cleanup, ContextType
      <4> QED
        BY <2>1, <4>1, HandleFits
    <3> QED
      BY <3>1, <3>2
  <2> HIDE DEF r, a
  <2> QED
    BY <1>1, <2>1, <2>3, <2>4, OneFits DEF r
<1> QED
  BY <1>2, <1>3

-----------------------------------------------------------------------------
(* The theorems.                                                           *)

LEMMA AlwaysConsistent == Spec => []Consistent
<1>1. Init => Consistent
  <2> SUFFICES ASSUME Init PROVE Consistent
    OBVIOUS
  <2>1. <<>> \in Seq(Lengths) /\ [h \in {} |-> <<>>] \in [{} -> Seq(Nat)]
        /\ DOMAIN [h \in {} |-> <<>>] = {}
    OBVIOUS
  <2>2. TypeOK
    BY <2>1, RecordTypes DEF Init, TypeOK
  <2>3. /\ NoObject.devCtx = 0 /\ NoObject.given = <<>> /\ ~NoObject.copy
        /\ ~Freed.live /\ Freed.handle = 0
    BY DEF NoObject, Freed
  <2>4. OneOwner /\ HandlesMatch /\ \A o \in Objects : Matches(o)
    BY <2>1, <2>3 DEF Init, OneOwner, HandlesMatch, Matches
  <2> QED
    BY <2>2, <2>4 DEF Init, Consistent, DigestCovers, Nothing
<1>2. Consistent /\ [Next]_vars => Consistent'
  <2>1. CASE UNCHANGED vars
    BY <2>1 DEF vars, Consistent, TypeOK, DigestCovers, Matches, Behind, OneOwner, HandlesMatch
  <2>2. ASSUME Consistent, NEW o \in Objects, \E will \in BOOLEAN : wc_InitSha256(o, will)
        PROVE  Consistent'
    BY <2>2, InitKeeps
  <2>3. ASSUME Consistent, NEW o \in Objects, \E p \in Objects \ {o} : wc_Sha256Copy(o, p)
        PROVE  Consistent'
    BY <2>3, CopyKeeps
  <2>4. ASSUME Consistent, NEW o \in Objects, \E n \in Lengths, faults \in Faults : HashUpdate(o, n, faults)
        PROVE  Consistent'
    BY <2>4, HashUpdateKeeps
  <2>5. ASSUME Consistent, NEW o \in Objects, \E faults \in Faults : HashFinal(o, faults)
        PROVE  Consistent'
    BY <2>5, HashFinalKeeps
  <2>6. ASSUME Consistent, NEW o \in Objects, wc_Sha256Free(o)
        PROVE  Consistent'
    BY <2>6, FreeKeeps
  <2> QED
    BY <2>1, <2>2, <2>3, <2>4, <2>5, <2>6 DEF Next
<1> QED
  BY <1>1, <1>2, PTL DEF Spec

\* Objects, contexts and sequences stay well formed, through every call of the
\* hash callback and every failure in it.
THEOREM HashTypeCorrect == Spec => []TypeOK
<1>1. Consistent => TypeOK
  BY DEF Consistent
<1> QED
  BY <1>1, AlwaysConsistent, PTL

\* Every digest that wolfTPM2_CryptoDevCb returns covers exactly the data its
\* object was given, in order.
THEOREM DigestsCover == Spec => []DigestCovers
<1>1. Consistent => DigestCovers
  BY DEF Consistent
<1> QED
  BY <1>1, AlwaysConsistent, PTL

\* The data of a WILLCOPY object never runs past the buffer it was cached in,
\* whatever sizes the updates have and wherever memory ran out.
THEOREM CachedDataFits == Spec => []CacheFits
<1>1. Init => AllFit
  BY EmptyFits DEF Init, AllFit
<1>2. Consistent /\ AllFit /\ [Next]_vars => AllFit'
  <2>1. CASE UNCHANGED <<ctx, chunks>>
    BY <2>1 DEF AllFit
  <2>2. ASSUME Consistent, AllFit, NEW o \in Objects, NEW will \in BOOLEAN, wc_InitSha256(o, will)
        PROVE  UNCHANGED <<ctx, chunks>>
    BY <2>2 DEF wc_InitSha256
  <2>3. ASSUME Consistent, AllFit, NEW o \in Objects, NEW p \in Objects \ {o}, wc_Sha256Copy(o, p)
        PROVE  UNCHANGED <<ctx, chunks>>
    BY <2>3 DEF wc_Sha256Copy
  <2>4. ASSUME Consistent, AllFit, NEW o \in Objects, wc_Sha256Free(o)
        PROVE  UNCHANGED <<ctx, chunks>>
    BY <2>4 DEF wc_Sha256Free
  <2> QED
    BY <2>1, <2>2, <2>3, <2>4, UpdateFits, FinalFits DEF Next, vars
<1>3. Consistent /\ AllFit => CacheFits
  <2>1. \A s : Total(s) = TotalOf(chunks, s)
    BY DEF Total, TotalOf
  <2> QED
    BY <2>1 DEF AllFit, Fits, CacheFits
<1> QED
  BY <1>1, <1>2, <1>3, AlwaysConsistent, PTL DEF Spec
=============================================================================

-------------------------- MODULE CompressedProofs --------------------------
(***************************************************************************)
(* That the members of healthy object streams are found by every lookup    *)
(* (CompressedFound of ObjectLookup), for documents of any size whose      *)
(* streams have direct lengths, with any wrong, missing or circular        *)
(* entries besides.                                                        *)
(*                                                                         *)
(* The argument.  A lookup of a compressed object looks its stream up, and *)
(* that lookup may find the stream in a table that a running rebuild is    *)
(* about to replace, or in a cache that one has just emptied.  So the      *)
(* invariant (SInv) speaks of the whole stack of calls: every running      *)
(* rebuild started from a table with the right entries, and files them     *)
(* under their numbers; what is in the current table under a wrong number  *)
(* was in the snapshot of every rebuild that still runs (Follows), so no   *)
(* object can be filed over an entry that is right; and what a call has    *)
(* been returned is what the one that waits for it asked for.              *)
(*                                                                         *)
(* The argument needs direct lengths: where a stream refers to its length, *)
(* reading it looks another object up, a rebuild can start below that      *)
(* lookup, and what it moves need not have been in an outer snapshot.      *)
(***************************************************************************)
EXTENDS ObjectLookup, SequenceTheorems, TLAPS

\* What ParseIndirectObject returns at offset o, with a direct length.
Read(o) == IF Unreadable(doc.body[o]) THEN Failure ELSE Value(ObjectAt(o))

\* The running calls of lookupByNumber and of rebuildXrefTable.
LookupFrame == [fn : {"lookup"}, n : Nums, rep : BOOLEAN, pc : {"start", "parsed", "rebuilt", "os"}]
RebuildFrame == [fn : {"rebuild"}, k : Nums, pc : {"next", "looked"}, todo : SUBSET Nums,
                 snapshot : Table, newXrefs : Table]

-----------------------------------------------------------------------------
\* No stream refers to its length.  Entries may be wrong, in streams within streams, or
\* come round.
DirectLengths == \A d \in Documents : \A o \in Offs : ~HasLengthReference(d.body[o])

\* A member of a healthy object stream that is nowhere else in the file, the stream and
\* where that stands.
StreamOf(n) == doc.xrefs[n].at
StreamAt(n) == doc.xrefs[StreamOf(n)].at
Compressed(n) ==
    /\ n \in DOMAIN doc.xrefs /\ doc.xrefs[n].XType = "objstm" /\ Healthy(StreamOf(n))
    /\ doc.body[StreamAt(n)].kind = "objstm" /\ n \in DOMAIN doc.body[StreamAt(n)].members
    /\ \A o \in Offs : doc.body[o].num = n => doc.body[o].kind = "junk"

\* The objects that every lookup finds, and what it finds.
Firm(n) == Compressed(n) \/ Healthy(n)
Due(n) == IF doc.xrefs[n].XType = "table" THEN ObjectAt(doc.xrefs[n].at)
          ELSE [num |-> n, at |-> 0, kind |-> doc.body[StreamAt(n)].members[n]]

\* An entry that leads to a readable object of number k.
Filed(k, e) == e.XType = "table" /\ doc.body[e.at].num = k /\ ~Unreadable(doc.body[e.at])

\* The table x has the right entries for the objects that are found.
Keeps(x) == \A m \in Nums : Firm(m) => m \in DOMAIN x /\ x[m] = doc.xrefs[m]

\* An entry of x that leads to another number than its own was in y already.
Follows(x, y) == \A k \in DOMAIN x : Filed(k, x[k]) \/ (k \in DOMAIN y /\ x[k] = y[k])

\* With table x the lookup of k may give v, and return r.
Proper(v) == v \in Object /\ (v.kind = "objstm" => v.at \in Offs)
Gives(x, k, v) == v.num \in {k, 0} \/ (k \in DOMAIN x /\ Filed(v.num, x[k]))
Returned(x, k, r) ==
    /\ r = Failure \/ (r = Value(r.obj) /\ Proper(r.obj) /\ Gives(x, k, r.obj))
    /\ Firm(k) => r = Value(Due(k))

ParseFrame == [fn : {"parse"}, off : Offs, pc : {"start"}]
ViaOSFrame == [fn : {"viaOS"}, s : Nums, n : Nums, pc : {"start", "so"}]

\* A rebuild: it started from a table with the right entries, files them as they were,
\* and what else it files stands under the number it leads to or where it stood.
RebuildSound(f, x) ==
    /\ f \in RebuildFrame /\ f.todo \subseteq DOMAIN f.snapshot
    /\ f.pc = "looked" => f.k \in DOMAIN f.snapshot
    /\ Keeps(f.snapshot) /\ Follows(x, f.snapshot) /\ Follows(f.newXrefs, f.snapshot)
    /\ \A m \in Nums : Firm(m) =>
         /\ m \in DOMAIN f.newXrefs => f.newXrefs[m] = doc.xrefs[m]
         /\ m \in DOMAIN f.newXrefs \cup f.todo \/ (f.pc = "looked" /\ f.k = m)

CallSound(f, x) ==
    f \in LookupFrame \/ f \in ParseFrame \/ f \in ViaOSFrame \/ RebuildSound(f, x)

\* The call f was made by the call g.
MadeBy(f, g) ==
    \/ /\ g \in LookupFrame /\ g.pc = "parsed" /\ f \in ParseFrame
    \/ /\ g \in LookupFrame /\ g.pc = "os" /\ f \in ViaOSFrame /\ f.n = g.n
       /\ ~Healthy(g.n) /\ (Compressed(g.n) => f.s = StreamOf(g.n))
    \/ /\ g \in LookupFrame /\ g.pc = "rebuilt" /\ f \in RebuildFrame /\ ~Firm(g.n)
    \/ /\ g \in ViaOSFrame /\ g.pc = "so" /\ f \in LookupFrame /\ f.n = g.s
    \/ /\ g \in RebuildFrame /\ g.pc = "looked" /\ f \in LookupFrame /\ f.n = g.k

\* The running calls st, the outermost of which is the lookup of a.
CallsSound(st, x, a) ==
    /\ \A i \in DOMAIN st : CallSound(st[i], x)
    /\ \A i \in DOMAIN st : i + 1 \in DOMAIN st => MadeBy(st[i], st[i + 1])
    /\ st # <<>> => st[Len(st)] \in LookupFrame /\ st[Len(st)].n = a
    /\ \A i, j \in DOMAIN st :
         (i < j /\ st[i] \in RebuildFrame /\ st[j] \in RebuildFrame) => Follows(st[i].snapshot, st[j].snapshot)

\* What the innermost call g has been returned, if it waits for it.
Received(g, x, r) ==
    /\ g \in LookupFrame /\ g.pc = "parsed" =>
         g.n \in DOMAIN x /\ x[g.n].XType = "table" /\ r = Read(x[g.n].at)
    /\ g \in LookupFrame /\ g.pc = "os" =>
         /\ r = Failure \/ (r = Value(r.obj) /\ Proper(r.obj) /\ r.obj.num = g.n)
         /\ ~Healthy(g.n) /\ (Compressed(g.n) => r = Value(Due(g.n)))
    /\ g \in LookupFrame /\ g.pc = "rebuilt" => ~Firm(g.n) /\ r \in {Failure, Value(Null)}
    /\ g \in ViaOSFrame /\ g.pc = "so" => Returned(x, g.s, r)
    /\ g \in RebuildFrame /\ g.pc = "looked" => Returned(x, g.k, r)

Expected(st, x, a, r) ==
    /\ st = <<>> => r = Nothing \/ Returned(x, a, r)
    /\ st # <<>> => Received(st[1], x, r)
    /\ st # <<>> /\ st[1] \in ParseFrame =>
         st[2].n \in DOMAIN x /\ x[st[2].n].XType = "table" /\ st[1].off = x[st[2].n].at

\* The cache c.  Between the end of a rebuild and the next step it may be out of date.
CacheSound(c) ==
    DOMAIN c \subseteq Nums /\ \A k \in DOMAIN c : Proper(c[k]) /\ (Firm(k) => c[k] = Due(k))
CacheCurrent(c, x) == \A k \in DOMAIN c : Gives(x, k, c[k])
JustRebuilt(st, r) == st # <<>> /\ st[1] \in LookupFrame /\ st[1].pc = "rebuilt" /\ r.st = "ok"

\* The decoded streams.
MemberTable == UNION {[S -> Member] : S \in SUBSET Nums}
StreamsSound(os) ==
    /\ \A s \in DOMAIN os : os[s] \in MemberTable
    /\ \A n \in Nums : Compressed(n) /\ StreamOf(n) \in DOMAIN os =>
         os[StreamOf(n)] = doc.body[StreamAt(n)].members

SoundAt(x, c, os, st, r, a) ==
    /\ x \in Table /\ Keeps(x)
    /\ CacheSound(c) /\ StreamsSound(os)
    /\ JustRebuilt(st, r) \/ CacheCurrent(c, x)
    /\ CallsSound(st, x, a)
    /\ Expected(st, x, a, r)
    /\ a \in Nums \/ (st = <<>> /\ r = Nothing)
Sound == SoundAt(xrefs, ObjCache, objstms, stack, ret, asked.n)

AnswersSound(as) == \A i \in DOMAIN as : Compressed(as[i].n) => as[i].ret = Value(Due(as[i].n))

\* As long as no top-down repair was made.
SInv ==
    /\ doc \in Documents /\ repairsAttempted \in BOOLEAN
    /\ ~repairsAttempted =>
         /\ stack \in Seq(Frame) /\ Sound
         /\ answers \in Seq([n : Nums, ret : [st : {"ok", "error"}, obj : Object]])
         /\ AnswersSound(answers)

-----------------------------------------------------------------------------
\* The stack of calls after a return.
LEMMA Popped ==
    ASSUME NEW S, NEW s \in Seq(S), s # <<>>
    PROVE  /\ Tail(s) \in Seq(S) /\ Len(Tail(s)) = Len(s) - 1 /\ Len(s) \in Nat \ {0}
           /\ s[1] \in S /\ 1 \in DOMAIN s
           /\ \A i \in DOMAIN Tail(s) : i \in Nat \ {0} /\ i + 1 \in DOMAIN s /\ Tail(s)[i] = s[i + 1]
  <1>1. Len(s) \in Nat \ {0} /\ DOMAIN s = 1 .. Len(s)  BY EmptySeq, LenProperties
  <1>2. Tail(s) \in Seq(S) /\ Len(Tail(s)) = Len(s) - 1 /\ DOMAIN Tail(s) = 1 .. Len(s) - 1
    BY <1>1, HeadTailProperties, LenProperties
  <1>3. \A i \in 1 .. Len(s) - 1 : Tail(s)[i] = s[i + 1]  BY <1>1
  <1>4. s[1] \in S /\ 1 \in DOMAIN s  BY <1>1, ElementOfSeq
  <1> QED  BY <1>1, <1>2, <1>3, <1>4

\* The stack after the innermost call has moved on.
LEMMA Replaced ==
    ASSUME NEW S, NEW s \in Seq(S), s # <<>>, NEW f \in S
    PROVE  LET t == <<f>> \o Tail(s)
           IN  /\ t \in Seq(S) /\ Len(t) = Len(s) /\ Len(s) \in Nat \ {0}
               /\ DOMAIN t = 1 .. Len(s) /\ DOMAIN s = 1 .. Len(s)
               /\ t[1] = f /\ \A i \in 2 .. Len(s) : t[i] = s[i]
  <1>1. Tail(s) \in Seq(S) /\ Len(Tail(s)) = Len(s) - 1 /\ Len(s) \in Nat \ {0}  BY Popped
  <1>2. <<f>> \in Seq(S) /\ Len(<<f>>) = 1 /\ <<f>>[1] = f  OBVIOUS
  <1>3. DOMAIN s = 1 .. Len(s) /\ \A i \in 1 .. Len(s) - 1 : Tail(s)[i] = s[i + 1]  BY <1>1
  <1>4. \A i \in 2 .. Len(s) : i - 1 \in 1 .. Len(s) - 1 /\ i \in 2 .. Len(s) /\ (i - 1) + 1 = i  BY <1>1
  <1> DEFINE t == <<f>> \o Tail(s)
  <1>5. t \in Seq(S) /\ Len(t) = 1 + (Len(s) - 1) /\ DOMAIN t = 1 .. Len(t)
    BY <1>1, <1>2, ConcatProperties, LenProperties
  <1>6. t[1] = f /\ \A i \in 2 .. Len(s) : t[i] = Tail(s)[i - 1]  BY <1>1, <1>2, ConcatProperties
  <1>7. \A i \in 2 .. Len(s) : t[i] = s[i]  BY <1>3, <1>4, <1>6
  <1> HIDE DEF t
  <1>8. Len(t) = Len(s)  BY <1>1, <1>5
  <1>9. /\ t \in Seq(S) /\ Len(t) = Len(s) /\ Len(s) \in Nat \ {0}
        /\ DOMAIN t = 1 .. Len(s) /\ DOMAIN s = 1 .. Len(s)
        /\ t[1] = f /\ \A i \in 2 .. Len(s) : t[i] = s[i]
    BY <1>1, <1>3, <1>5, <1>6, <1>7, <1>8
  <1> QED  BY <1>9 DEF t

\* The stack after a call.
LEMMA PushedOn ==
    ASSUME NEW S, NEW s \in Seq(S), NEW f \in S
    PROVE  LET t == <<f>> \o s
           IN  /\ t \in Seq(S) /\ Len(t) = Len(s) + 1 /\ Len(s) \in Nat
               /\ DOMAIN t = 1 .. Len(s) + 1 /\ DOMAIN s = 1 .. Len(s)
               /\ t[1] = f /\ \A i \in 2 .. Len(s) + 1 : t[i] = s[i - 1] /\ i - 1 \in DOMAIN s
  <1>1. Len(s) \in Nat /\ DOMAIN s = 1 .. Len(s)  BY LenProperties
  <1>2. <<f>> \in Seq(S) /\ Len(<<f>>) = 1 /\ <<f>>[1] = f  OBVIOUS
  <1> DEFINE t == <<f>> \o s
  <1>3. t \in Seq(S) /\ Len(t) = 1 + Len(s) /\ DOMAIN t = 1 .. Len(t)  BY <1>2, ConcatProperties, LenProperties
  <1>4. t[1] = f /\ \A i \in 2 .. Len(s) + 1 : t[i] = s[i - 1]  BY <1>1, <1>2, ConcatProperties
  <1> HIDE DEF t
  <1>5. /\ t \in Seq(S) /\ Len(t) = Len(s) + 1 /\ Len(s) \in Nat
        /\ DOMAIN t = 1 .. Len(s) + 1 /\ DOMAIN s = 1 .. Len(s)
        /\ t[1] = f /\ \A i \in 2 .. Len(s) + 1 : t[i] = s[i - 1] /\ i - 1 \in DOMAIN s
    BY <1>1, <1>3, <1>4
  <1> QED  BY <1>5 DEF t

\* The stack after the innermost call has moved on to a call of its own.
LEMMA TwoPushed ==
    ASSUME NEW S, NEW s \in Seq(S), NEW f \in S, NEW g \in S
    PROVE  <<f, g>> \o s = <<f>> \o (<<g>> \o s)
  <1>1. <<f>> \in Seq(S) /\ <<g>> \in Seq(S)  OBVIOUS
  <1>2. <<f, g>> = <<f>> \o <<g>>
    <2> DEFINE t == <<f, g>>  u == <<f>> \o <<g>>
    <2>1. t \in Seq(S) /\ u \in Seq(S) /\ Len(t) = 2 /\ Len(u) = 2 /\ t[1] = u[1] /\ t[2] = u[2]  OBVIOUS
    <2> HIDE DEF t, u
    <2>2. \A i \in 1 .. Len(t) : i = 1 \/ i = 2  BY <2>1
    <2>3. t = u  BY <2>1, <2>2, SeqEqual
    <2> QED  BY <2>3 DEF t, u
  <1> QED  BY <1>1, <1>2, ConcatAssociative

-----------------------------------------------------------------------------
\* The document stays, and with it all that is said about tables, calls and values.
LEMMA DocumentStays ==
    ASSUME doc' = doc, NEW x, NEW c, NEW os, NEW st, NEW r, NEW a, NEW as
    PROVE  /\ SoundAt(x, c, os, st, r, a)' <=> SoundAt(x, c, os, st, r, a)
           /\ AnswersSound(as)' <=> AnswersSound(as)
  <1>1. \A n : Healthy(n)' <=> Healthy(n)  BY DEF Healthy
  <1>2. \A o : Read(o)' = Read(o) /\ ObjectAt(o)' = ObjectAt(o)  BY DEF Read, ObjectAt
  <1>3. \A n : StreamOf(n)' = StreamOf(n) /\ StreamAt(n)' = StreamAt(n)  BY DEF StreamOf, StreamAt
  <1>4. \A n : Compressed(n)' <=> Compressed(n)  BY <1>1, <1>3 DEF Compressed
  <1>5. \A n : Firm(n)' <=> Firm(n)  BY <1>1, <1>4 DEF Firm
  <1>6. \A n : Due(n)' = Due(n)  BY <1>2, <1>3 DEF Due
  <1>7. \A k, e : Filed(k, e)' <=> Filed(k, e)  BY DEF Filed, Unreadable
  <1>8. \A t : Keeps(t)' <=> Keeps(t)  BY <1>5 DEF Keeps
  <1>9. \A t, u : Follows(t, u)' <=> Follows(t, u)  BY <1>7 DEF Follows
  <1>10. \A k, v : Gives(x, k, v)' <=> Gives(x, k, v)  BY <1>7 DEF Gives
  <1>11. \A k : Returned(x, k, r)' <=> Returned(x, k, r)  BY <1>5, <1>6, <1>10 DEF Returned, Proper
  <1>12. \A f : RebuildSound(f, x)' <=> RebuildSound(f, x)  BY <1>5, <1>8, <1>9 DEF RebuildSound
  <1>13. \A f : CallSound(f, x)' <=> CallSound(f, x)  BY <1>12 DEF CallSound
  <1>14. \A f, g : MadeBy(f, g)' <=> MadeBy(f, g)  BY <1>1, <1>3, <1>4, <1>5 DEF MadeBy
  <1>15. CallsSound(st, x, a)' <=> CallsSound(st, x, a)  BY <1>9, <1>13, <1>14 DEF CallsSound
  <1>16. \A g : Received(g, x, r)' <=> Received(g, x, r)
    BY <1>1, <1>2, <1>4, <1>5, <1>6, <1>11 DEF Received, Proper
  <1>17. Expected(st, x, a, r)' <=> Expected(st, x, a, r)  BY <1>11, <1>16 DEF Expected
  <1>18. CacheSound(c)' <=> CacheSound(c)  BY <1>5, <1>6 DEF CacheSound, Proper
  <1>19. CacheCurrent(c, x)' <=> CacheCurrent(c, x)  BY <1>10 DEF CacheCurrent
  <1>20. StreamsSound(os)' <=> StreamsSound(os)  BY <1>3, <1>4 DEF StreamsSound, MemberTable
  <1>21. AnswersSound(as)' <=> AnswersSound(as)  BY Zenon, <1>4, <1>6 DEF AnswersSound
  <1> QED
    BY Zenon, <1>8, <1>15, <1>17, <1>18, <1>19, <1>20, <1>21 DEF SoundAt, JustRebuilt

\* What is found under a number whose object every lookup finds.
LEMMA DueFacts ==
    ASSUME doc \in Document, NEW n \in Nums, Firm(n)
    PROVE  /\ n \in DOMAIN doc.xrefs /\ doc.xrefs[n] \in XrefEntry
           /\ Due(n).num = n /\ Proper(Due(n))
           /\ doc.xrefs[n].XType = "table" =>
                /\ Healthy(n) /\ ~Compressed(n) /\ doc.xrefs[n].at \in Offs
                /\ Read(doc.xrefs[n].at) = Value(Due(n)) /\ ~Unreadable(doc.body[doc.xrefs[n].at])
           /\ doc.xrefs[n].XType # "table" =>
                /\ Compressed(n) /\ ~Healthy(n) /\ doc.xrefs[n].XType = "objstm"
                /\ StreamOf(n) \in Nums /\ Healthy(StreamOf(n)) /\ StreamOf(n) # n
  <1>1. doc.xrefs \in Table /\ doc.body \in [Offs -> Body]
    <2>1. doc \in Document  OBVIOUS
    <2> QED  BY ONLY <2>1 DEF Document
  <1>2. n \in DOMAIN doc.xrefs  BY DEF Firm, Compressed, Healthy
  <1>3. doc.xrefs[n] \in XrefEntry  BY Zenon, <1>1, <1>2 DEF Table
  <1>4. CASE doc.xrefs[n].XType = "table"
    <2>1. Healthy(n) /\ ~Compressed(n)  BY <1>4 DEF Firm, Compressed
    <2> DEFINE o == doc.xrefs[n].at
    <2>2. o \in Offs  BY <1>3, <1>4 DEF XrefEntry
    <2>3. doc.body[o] \in Body  BY Zenon, <1>1, <2>2
    <2>4. doc.body[o].num = n /\ doc.body[o].kind \notin {"junk", "broken"}  BY Zenon, <2>1 DEF Healthy
    <2>5. Due(n) = [num |-> n, kind |-> doc.body[o].kind, at |-> o]  BY Zenon, <1>4, <2>4 DEF Due, ObjectAt
    <2>6. doc.body[o].kind \in {"int", "ref", "other", "stream", "objstm"}  BY Zenon, <2>3, <2>4 DEF Body
    <2>7. Due(n) \in Object /\ Due(n).num = n /\ Due(n).at \in Offs  BY <2>2, <2>5, <2>6 DEF Object
    <2>8. ~Unreadable(doc.body[o])  BY <2>4 DEF Unreadable
    <2>9. Read(o) = Value(Due(n))  BY Zenon, <1>4, <2>8 DEF Read, Due
    <2> QED  BY Zenon, <1>2, <1>3, <1>4, <2>1, <2>2, <2>7, <2>8, <2>9 DEF Proper
  <1>5. CASE doc.xrefs[n].XType # "table"
    <2>1. Compressed(n) /\ ~Healthy(n)  BY <1>5 DEF Firm, Healthy
    <2>2. doc.xrefs[n].XType = "objstm" /\ Healthy(StreamOf(n))  BY <2>1 DEF Compressed
    <2>3. StreamOf(n) \in Nums  BY <1>3, <2>2 DEF XrefEntry, StreamOf
    <2>4. StreamOf(n) # n  BY Zenon, <2>1, <2>2
    <2>5. doc.xrefs[StreamOf(n)] \in XrefEntry /\ doc.xrefs[StreamOf(n)].XType = "table"
      BY <1>1, <2>2 DEF Healthy, Table
    <2>6. StreamAt(n) \in Offs  BY <2>5 DEF XrefEntry, StreamAt
    <2>7. doc.body[StreamAt(n)].members \in MemberTable  BY <1>1, <2>6 DEF Body, MemberTable
    <2>8. n \in DOMAIN doc.body[StreamAt(n)].members  BY <2>1 DEF Compressed
    <2>9. doc.body[StreamAt(n)].members[n] \in Member  BY <2>7, <2>8 DEF MemberTable
    <2>10. Due(n) = [num |-> n, at |-> 0, kind |-> doc.body[StreamAt(n)].members[n]]  BY Zenon, <1>5 DEF Due
    <2>11. Due(n) \in Object /\ Due(n).num = n /\ Due(n).kind # "objstm"
      BY <2>9, <2>10 DEF Object, Member
    <2> QED  BY Zenon, <1>2, <1>3, <1>5, <2>1, <2>2, <2>3, <2>4, <2>11 DEF Proper
  <1> QED  BY <1>4, <1>5

\* An entry under the number of such an object that leads to an object of that number is
\* the entry of the document; no other object has the number.
LEMMA FiledRight ==
    ASSUME doc \in Document, NEW n \in Nums, Firm(n), NEW e \in XrefEntry, Filed(n, e)
    PROVE  e = doc.xrefs[n] /\ Healthy(n)
  <1>1. e.XType = "table" /\ doc.body[e.at].num = n /\ ~Unreadable(doc.body[e.at])  BY DEF Filed
  <1>2. e.at \in Offs /\ e = [XType |-> "table", at |-> e.at]  BY <1>1 DEF XrefEntry
  <1>3. doc.body[e.at].kind # "junk"  BY <1>1 DEF Unreadable
  <1>4. ~Compressed(n)  BY <1>1, <1>2, <1>3 DEF Compressed
  <1>5. Healthy(n)  BY Zenon, <1>4 DEF Firm
  <1>6. doc.xrefs[n].XType = "table" /\ \A p \in Offs \ {doc.xrefs[n].at} : doc.body[p].num = n => doc.body[p].kind = "junk"
    BY <1>5 DEF Healthy
  <1>7. doc.xrefs[n].at = e.at  BY Zenon, <1>1, <1>2, <1>3, <1>6
  <1>8. doc.xrefs[n] = [XType |-> "table", at |-> doc.xrefs[n].at]
    BY <1>6, DueFacts DEF XrefEntry
  <1> QED  BY Zenon, <1>2, <1>5, <1>7, <1>8

\* Tables one after the other.
LEMMA FollowsOn ==
    ASSUME NEW x, NEW y, NEW z, Follows(x, y), Follows(y, z)
    PROVE  Follows(x, z)
  BY DEF Follows

\* The four kinds of calls are told apart by their names.
LEMMA Kinds ==
    ASSUME NEW f
    PROVE  /\ f \in LookupFrame => f.fn = "lookup"
           /\ f \in ParseFrame => f.fn = "parse"
           /\ f \in ViaOSFrame => f.fn = "viaOS"
           /\ f \in RebuildFrame => f.fn = "rebuild"
  BY DEF LookupFrame, ParseFrame, ViaOSFrame, RebuildFrame

-----------------------------------------------------------------------------
\* The calls that are left when the innermost one has returned.
LEMMA CallsLeft ==
    ASSUME NEW s \in Seq(Frame), s # <<>>, NEW x, NEW a, CallsSound(s, x, a)
    PROVE  CallsSound(Tail(s), x, a)
  <1> DEFINE t == Tail(s)
  <1>1. /\ t \in Seq(Frame) /\ Len(t) = Len(s) - 1 /\ Len(s) \in Nat \ {0}
        /\ \A i \in DOMAIN t : i \in Nat \ {0} /\ i + 1 \in DOMAIN s /\ t[i] = s[i + 1]
    BY Popped
  <1> HIDE DEF t
  <1>2. \A i \in DOMAIN t : CallSound(t[i], x)  BY <1>1, Zenon DEF CallsSound
  <1>3. \A i \in DOMAIN t : i + 1 \in DOMAIN t => MadeBy(t[i], t[i + 1])
    <2> TAKE i \in DOMAIN t
    <2> HAVE i + 1 \in DOMAIN t
    <2>1. i + 1 \in DOMAIN s /\ (i + 1) + 1 \in DOMAIN s /\ t[i] = s[i + 1] /\ t[i + 1] = s[(i + 1) + 1]
      BY <1>1, Zenon
    <2> QED  BY <2>1, Zenon DEF CallsSound
  <1>4. t # <<>> => t[Len(t)] \in LookupFrame /\ t[Len(t)].n = a
    <2> HAVE t # <<>>
    <2>1. Len(t) \in DOMAIN t  BY <1>1, EmptySeq, LenProperties
    <2>2. t[Len(t)] = s[Len(s)]  BY <1>1, <2>1
    <2> QED  BY <2>2 DEF CallsSound
  <1>5. ASSUME NEW i \in DOMAIN t, NEW j \in DOMAIN t, i < j, t[i] \in RebuildFrame, t[j] \in RebuildFrame
        PROVE  Follows(t[i].snapshot, t[j].snapshot)
    <2>1. i + 1 \in DOMAIN s /\ j + 1 \in DOMAIN s /\ t[i] = s[i + 1] /\ t[j] = s[j + 1]  BY <1>1, Zenon
    <2>2. i + 1 < j + 1  BY <1>1, <1>5
    <2> QED  BY <1>5, <2>1, <2>2, Zenon DEF CallsSound
  <1>6. CallsSound(t, x, a)  BY <1>2, <1>3, <1>4, <1>5, Zenon DEF CallsSound
  <1> QED  BY <1>6 DEF t

\* The innermost call is replaced by one that its caller could have made.
LEMMA CallsReplaced ==
    ASSUME NEW s \in Seq(Frame), s # <<>>, NEW x, NEW a, CallsSound(s, x, a), NEW f \in Frame,
           CallSound(f, x), Len(s) > 1 => MadeBy(f, s[2]),
           Len(s) = 1 => f \in LookupFrame /\ f.n = a,
           f \in RebuildFrame => s[1] \in RebuildFrame /\ f.snapshot = s[1].snapshot
    PROVE  CallsSound(<<f>> \o Tail(s), x, a)
  <1> DEFINE t == <<f>> \o Tail(s)
  <1>1. /\ t \in Seq(Frame) /\ Len(t) = Len(s) /\ Len(s) \in Nat \ {0}
        /\ DOMAIN t = 1 .. Len(s) /\ DOMAIN s = 1 .. Len(s)
        /\ t[1] = f /\ \A i \in 2 .. Len(s) : t[i] = s[i]
    BY Replaced
  <1> HIDE DEF t
  <1>0. \A i \in 1 .. Len(s) : i = 1 \/ i \in 2 .. Len(s)  BY <1>1
  <1>2. \A i \in DOMAIN t : CallSound(t[i], x)  BY <1>0, <1>1, Zenon DEF CallsSound
  <1>3. \A i \in DOMAIN t : i + 1 \in DOMAIN t => MadeBy(t[i], t[i + 1])
    <2> TAKE i \in DOMAIN t
    <2> HAVE i + 1 \in DOMAIN t
    <2>1. i \in 1 .. Len(s) /\ i + 1 \in 2 .. Len(s) /\ t[i + 1] = s[i + 1]  BY <1>1
    <2>2. CASE i = 1
      <3>1. Len(s) > 1 /\ t[i + 1] = s[2] /\ t[i] = f  BY <1>1, <2>1, <2>2
      <3> QED  BY <3>1
    <2>3. CASE i # 1
      <3>1. i \in 2 .. Len(s)  BY <1>0, <2>1, <2>3
      <3> QED  BY <1>1, <2>1, <3>1, Zenon DEF CallsSound
    <2> QED  BY <2>2, <2>3
  <1>4. t[Len(t)] \in LookupFrame /\ t[Len(t)].n = a
    <2>1. CASE Len(s) = 1  BY <1>1, <2>1
    <2>2. CASE Len(s) # 1
      <3>1. Len(s) \in 2 .. Len(s)  BY <1>1, <2>2
      <3>2. t[Len(t)] = s[Len(s)]  BY <1>1, <3>1
      <3> QED  BY <3>2 DEF CallsSound
    <2> QED  BY <2>1, <2>2
  <1>5. ASSUME NEW i \in DOMAIN t, NEW j \in DOMAIN t, i < j, t[i] \in RebuildFrame, t[j] \in RebuildFrame
        PROVE  Follows(t[i].snapshot, t[j].snapshot)
    <2>1. i \in 1 .. Len(s) /\ j \in 2 .. Len(s) /\ t[j] = s[j]  BY <1>1, <1>5
    <2>2. s[i] \in RebuildFrame /\ s[i].snapshot = t[i].snapshot  BY <1>0, <1>1, <1>5, <2>1
    <2> QED  BY <1>1, <1>5, <2>1, <2>2, Zenon DEF CallsSound
  <1>6. CallsSound(t, x, a)  BY <1>2, <1>3, <1>4, <1>5, Zenon DEF CallsSound
  <1> QED  BY <1>6 DEF t

\* A call is added that the innermost one makes.
LEMMA CallsAdded ==
    ASSUME NEW s \in Seq(Frame), s # <<>>, NEW x, NEW a, CallsSound(s, x, a), NEW f \in Frame,
           CallSound(f, x), MadeBy(f, s[1]), f \in RebuildFrame => f.snapshot = x
    PROVE  CallsSound(<<f>> \o s, x, a)
  <1> DEFINE t == <<f>> \o s
  <1>1. /\ t \in Seq(Frame) /\ Len(t) = Len(s) + 1 /\ Len(s) \in Nat
        /\ DOMAIN t = 1 .. Len(s) + 1 /\ DOMAIN s = 1 .. Len(s)
        /\ t[1] = f /\ \A i \in 2 .. Len(s) + 1 : t[i] = s[i - 1] /\ i - 1 \in DOMAIN s
    BY PushedOn
  <1>00. Len(s) > 0  BY <1>1, EmptySeq
  <1> HIDE DEF t
  <1>0. \A i \in 1 .. Len(s) + 1 : i = 1 \/ i \in 2 .. Len(s) + 1  BY <1>1
  <1>2. \A i \in DOMAIN t : CallSound(t[i], x)  BY <1>0, <1>1, Zenon DEF CallsSound
  <1>3. \A i \in DOMAIN t : i + 1 \in DOMAIN t => MadeBy(t[i], t[i + 1])
    <2> TAKE i \in DOMAIN t
    <2> HAVE i + 1 \in DOMAIN t
    <2>1. i \in 1 .. Len(s) + 1 /\ i + 1 \in 2 .. Len(s) + 1 /\ t[i + 1] = s[i] /\ i \in DOMAIN s  BY <1>1
    <2>2. CASE i = 1  BY Zenon, <1>1, <2>1, <2>2
    <2>3. CASE i # 1
      <3>1. i \in 2 .. Len(s) + 1 /\ t[i] = s[i - 1] /\ i - 1 \in DOMAIN s /\ (i - 1) + 1 = i  BY <1>0, <1>1, <2>1, <2>3
      <3> QED  BY Zenon, <2>1, <3>1 DEF CallsSound
    <2> QED  BY Zenon, <2>2, <2>3
  <1>4. t[Len(t)] \in LookupFrame /\ t[Len(t)].n = a
    <2>1. t[Len(t)] = s[Len(s)]  BY <1>1, <1>00
    <2> QED  BY <2>1 DEF CallsSound
  <1>5. ASSUME NEW i \in DOMAIN t, NEW j \in DOMAIN t, i < j, t[i] \in RebuildFrame, t[j] \in RebuildFrame
        PROVE  Follows(t[i].snapshot, t[j].snapshot)
    <2>1. i \in 1 .. Len(s) + 1 /\ j \in 2 .. Len(s) + 1 /\ t[j] = s[j - 1] /\ j - 1 \in DOMAIN s  BY <1>1, <1>5
    <2>2. CASE i = 1
      <3>1. CallSound(t[j], x)  BY Zenon, <1>2
      <3>2. Follows(x, t[j].snapshot)  BY <1>5, <3>1, Kinds DEF CallSound, RebuildSound
      <3> QED  BY <1>1, <1>5, <2>2, <3>2
    <2>3. CASE i # 1
      <3>1. i \in 2 .. Len(s) + 1 /\ t[i] = s[i - 1] /\ i - 1 \in DOMAIN s /\ i - 1 < j - 1  BY <1>0, <1>1, <1>5, <2>1, <2>3
      <3> QED  BY <1>5, <2>1, <3>1, Zenon DEF CallsSound
    <2> QED  BY <2>2, <2>3
  <1>6. CallsSound(t, x, a)
    <2>1. t # <<>> => t[Len(t)] \in LookupFrame /\ t[Len(t)].n = a  BY <1>4
    <2> QED  BY <1>2, <1>3, <2>1, <1>5, Zenon DEF CallsSound
  <1> QED  BY <1>6 DEF t

-----------------------------------------------------------------------------
\* The call that runs, and its caller.
LEMMA Runner ==
    ASSUME NEW s \in Seq(Frame), s # <<>>, NEW x, NEW a, CallsSound(s, x, a)
    PROVE  /\ Head(s) = s[1] /\ s[1] \in Frame /\ Len(s) \in Nat \ {0}
           /\ s[1].fn = "lookup" => s[1] \in LookupFrame
           /\ s[1].fn = "parse" => s[1] \in ParseFrame /\ Len(s) > 1
           /\ s[1].fn = "viaOS" => s[1] \in ViaOSFrame /\ Len(s) > 1
           /\ s[1].fn = "rebuild" => s[1] \in RebuildFrame /\ RebuildSound(s[1], x) /\ Len(s) > 1
           /\ Len(s) = 1 \/ Len(s) > 1
           /\ Len(s) > 1 => MadeBy(s[1], s[2]) /\ Tail(s) # <<>> /\ Tail(s)[1] = s[2]
           /\ Len(s) = 1 => s[1] \in LookupFrame /\ s[1].n = a /\ Tail(s) = <<>>
  <1>1. /\ Tail(s) \in Seq(Frame) /\ Len(Tail(s)) = Len(s) - 1 /\ Len(s) \in Nat \ {0}
        /\ s[1] \in Frame /\ 1 \in DOMAIN s
        /\ \A i \in DOMAIN Tail(s) : i \in Nat \ {0} /\ i + 1 \in DOMAIN s /\ Tail(s)[i] = s[i + 1]
    BY Popped
  <1>2. Head(s) = s[1]  OBVIOUS
  <1>3. CallSound(s[1], x)  BY Zenon, <1>1 DEF CallsSound
  <1>4. /\ s[1].fn = "lookup" => s[1] \in LookupFrame
        /\ s[1].fn = "parse" => s[1] \in ParseFrame
        /\ s[1].fn = "viaOS" => s[1] \in ViaOSFrame
        /\ s[1].fn = "rebuild" => s[1] \in RebuildFrame /\ RebuildSound(s[1], x)
    BY <1>3, Kinds DEF CallSound, RebuildSound
  <1>5. ASSUME Len(s) = 1 PROVE s[1] \in LookupFrame /\ s[1].n = a /\ Tail(s) = <<>>
    <2>1. s[1] \in LookupFrame /\ s[1].n = a  BY <1>5 DEF CallsSound
    <2>2. Len(Tail(s)) = 0  BY <1>1, <1>5
    <2> QED  BY Zenon, <1>1, <2>1, <2>2, EmptySeq
  <1>6. ASSUME Len(s) > 1 PROVE MadeBy(s[1], s[2]) /\ Tail(s) # <<>> /\ Tail(s)[1] = s[2]
    <2>1. 1 \in DOMAIN s /\ 1 + 1 \in DOMAIN s /\ 1 + 1 = 2  BY <1>1, <1>6
    <2>2. MadeBy(s[1], s[2])  BY <2>1 DEF CallsSound
    <2>5. Len(Tail(s)) >= 1 /\ DOMAIN Tail(s) = 1 .. Len(Tail(s))  BY <1>1, <1>6, LenProperties
    <2>3. Tail(s) # <<>> /\ 1 \in DOMAIN Tail(s)  BY <1>1, <2>5, EmptySeq
    <2>4. Tail(s)[1] = s[2]  BY <1>1, <2>1, <2>3
    <2> QED  BY <2>2, <2>3, <2>4
  <1>7. Len(s) = 1 \/ Len(s) > 1  BY <1>1
  <1>8. s[1].fn # "lookup" => Len(s) > 1  BY Zenon, <1>5, <1>7, Kinds
  <1> QED  BY <1>1, <1>2, <1>4, <1>5, <1>6, <1>7, <1>8, Zenon

\* A caller does not tell apart two calls of one function with the same arguments.
LEMMA MadeAlike ==
    ASSUME NEW f, NEW g, NEW h, MadeBy(f, h),
           \/ f \in LookupFrame /\ g \in LookupFrame /\ f.n = g.n
           \/ f \in ViaOSFrame /\ g \in ViaOSFrame /\ f.n = g.n /\ f.s = g.s
           \/ f \in RebuildFrame /\ g \in RebuildFrame
    PROVE  MadeBy(g, h)
  BY Zenon, Kinds DEF MadeBy

\* The innermost call goes on, or is made again, with the same arguments.
LEMMA CallGoesOn ==
    ASSUME NEW s \in Seq(Frame), s # <<>>, NEW x, NEW a, CallsSound(s, x, a), NEW g \in Frame, CallSound(g, x),
           \/ s[1] \in LookupFrame /\ g \in LookupFrame /\ s[1].n = g.n
           \/ s[1] \in ViaOSFrame /\ g \in ViaOSFrame /\ s[1].n = g.n /\ s[1].s = g.s
           \/ s[1] \in RebuildFrame /\ g \in RebuildFrame /\ g.snapshot = s[1].snapshot
    PROVE  CallsSound(<<g>> \o Tail(s), x, a)
  <1>1. Len(s) > 1 => MadeBy(g, s[2])  BY Zenon, Runner, MadeAlike
  <1>2. Len(s) = 1 => g \in LookupFrame /\ g.n = a  BY Runner, Kinds
  <1>3. g \in RebuildFrame => s[1] \in RebuildFrame /\ g.snapshot = s[1].snapshot  BY Kinds
  <1> QED  BY Zenon, <1>1, <1>2, <1>3, CallsReplaced

\* The innermost call goes on as g and calls f.
LEMMA CallMade ==
    ASSUME NEW s \in Seq(Frame), s # <<>>, NEW x, NEW a, NEW f \in Frame, NEW g \in Frame,
           CallsSound(<<g>> \o Tail(s), x, a),
           CallSound(f, x), MadeBy(f, g), f \in RebuildFrame => f.snapshot = x
    PROVE  LET t == <<f, g>> \o Tail(s)
           IN  t \in Seq(Frame) /\ t # <<>> /\ t[1] = f /\ t[2] = g /\ CallsSound(t, x, a)
  <1> DEFINE u == <<g>> \o Tail(s)
             t == <<f>> \o u
  <1>0. Tail(s) \in Seq(Frame)  BY Popped
  <1>1. u \in Seq(Frame) /\ Len(u) = Len(s) /\ Len(s) \in Nat \ {0} /\ u[1] = g  BY Replaced
  <1>2. <<f, g>> \o Tail(s) = t  BY <1>0, TwoPushed
  <1>3. CallsSound(u, x, a)  OBVIOUS
  <1> HIDE DEF u
  <1>4. u # <<>>  BY <1>1
  <1>5. CallsSound(t, x, a)  BY <1>1, <1>3, <1>4, CallsAdded
  <1>6. /\ t \in Seq(Frame) /\ Len(t) = Len(u) + 1
        /\ t[1] = f /\ \A i \in 2 .. Len(u) + 1 : t[i] = u[i - 1] /\ i - 1 \in DOMAIN u
    BY <1>1, PushedOn
  <1> HIDE DEF t
  <1>7. t[2] = g /\ t # <<>>  BY <1>1, <1>6
  <1> QED  BY Zenon, <1>2, <1>5, <1>6, <1>7

\* A call that has just been made waits for nothing.
LEMMA NothingExpected ==
    ASSUME NEW t, t # <<>>, NEW x, NEW a,
           \/ t[1] \in LookupFrame /\ t[1].pc = "start"
           \/ t[1] \in ViaOSFrame /\ t[1].pc = "start"
           \/ t[1] \in RebuildFrame /\ t[1].pc = "next"
    PROVE  Expected(t, x, a, Nothing)
  <1>1. Received(t[1], x, Nothing)  BY Kinds DEF Received
  <1>2. t[1] \notin ParseFrame  BY Kinds
  <1> QED  BY <1>1, <1>2 DEF Expected

\* A lookup returns what it should; whoever made it gets what is expected.
LEMMA LookupEnds ==
    ASSUME NEW s \in Seq(Frame), s # <<>>, s[1] \in LookupFrame, NEW x \in Table, NEW c, NEW os, NEW r, NEW a \in Nums,
           Keeps(x), CallsSound(s, x, a), CacheSound(c), CacheCurrent(c, x), StreamsSound(os),
           Returned(x, s[1].n, r)
    PROVE  SoundAt(x, c, os, Tail(s), r, a)
  <1>1. CallsSound(Tail(s), x, a)  BY CallsLeft
  <1>2. Expected(Tail(s), x, a, r)
    <2>1. Len(s) = 1 \/ Len(s) > 1  BY Runner, Zenon
    <2>2. CASE Len(s) = 1
      <3>1. Tail(s) = <<>> /\ s[1].n = a  BY Zenon, <2>2, Runner
      <3> QED  BY Zenon, <3>1 DEF Expected
    <2>3. CASE Len(s) > 1
      <3>1. MadeBy(s[1], s[2]) /\ Tail(s) # <<>> /\ Tail(s)[1] = s[2]  BY Zenon, <2>3, Runner
      <3>2. \/ s[2] \in ViaOSFrame /\ s[2].pc = "so" /\ s[1].n = s[2].s
            \/ s[2] \in RebuildFrame /\ s[2].pc = "looked" /\ s[1].n = s[2].k
        BY Zenon, <3>1, Kinds DEF MadeBy
      <3>3. Received(s[2], x, r)  BY Zenon, <3>2, Kinds DEF Received
      <3>4. s[2] \notin ParseFrame  BY <3>2, Kinds
      <3> QED  BY Zenon, <3>1, <3>3, <3>4 DEF Expected
    <2> QED  BY <2>1, <2>2, <2>3
  <1> QED  BY <1>1, <1>2 DEF SoundAt

\* A value that is filed in the cache.
LEMMA CachePut ==
    ASSUME NEW c, NEW x, CacheSound(c), CacheCurrent(c, x), NEW n \in Nums, NEW v, Returned(x, n, Value(v))
    PROVE  CacheSound(Put(c, n, v)) /\ CacheCurrent(Put(c, n, v), x)
  <1>1. Value(v) # Failure /\ \A w : Value(w) = Value(v) => w = v  BY DEF Value, Failure
  <1>2. Proper(v) /\ Gives(x, n, v) /\ (Firm(n) => v = Due(n))  BY <1>1 DEF Returned
  <1>3. DOMAIN Put(c, n, v) = DOMAIN c \cup {n}
        /\ \A k \in DOMAIN Put(c, n, v) : Put(c, n, v)[k] = IF k = n THEN v ELSE c[k]
    BY Zenon DEF Put
  <1>4. CacheSound(Put(c, n, v))  BY Zenon, <1>2, <1>3 DEF CacheSound
  <1>5. CacheCurrent(Put(c, n, v), x)  BY Zenon, <1>2, <1>3 DEF CacheCurrent
  <1> QED  BY Zenon, <1>4, <1>5

\* What parsing the object at an offset gives.
LEMMA ReadProper ==
    ASSUME doc \in Document, NEW o \in Offs
    PROVE  /\ Unreadable(doc.body[o]) => Read(o) = Failure
           /\ ~Unreadable(doc.body[o]) =>
                /\ Read(o) = Value(ObjectAt(o)) /\ Proper(ObjectAt(o))
                /\ ObjectAt(o).num = doc.body[o].num
  <1>1. doc.body[o] \in Body  BY DEF Document
  <1>2. Unreadable(doc.body[o]) => Read(o) = Failure  BY Zenon DEF Read
  <1>3. ASSUME ~Unreadable(doc.body[o])
        PROVE  Proper(ObjectAt(o)) /\ ObjectAt(o).num = doc.body[o].num
    <2>1. doc.body[o].num \in Nums /\ doc.body[o].kind \in {"int", "ref", "other", "stream", "objstm"}
      BY <1>1, <1>3 DEF Body, Unreadable
    <2> QED  BY <2>1 DEF Proper, ObjectAt, Object
  <1>4. ~Unreadable(doc.body[o]) => Read(o) = Value(ObjectAt(o))  BY Zenon DEF Read
  <1> QED  BY <1>2, <1>3, <1>4

\* Parsing what an entry of the table leads to returns what the lookup may return.
LEMMA ParseReturns ==
    ASSUME doc \in Document, NEW x \in Table, Keeps(x), NEW n \in DOMAIN x, x[n].XType = "table"
    PROVE  /\ x[n].at \in Offs /\ Returned(x, n, Read(x[n].at))
           /\ Read(x[n].at) = Failure => ~Firm(n)
           /\ Read(x[n].at).obj.num # n => ~Firm(n)
  <1>1. n \in Nums /\ x[n] \in XrefEntry  BY DEF Table
  <1>2. x[n].at \in Offs  BY Zenon, <1>1 DEF XrefEntry
  <1>3. Firm(n) => Read(x[n].at) = Value(Due(n)) /\ Due(n).num = n
    BY Zenon, <1>1, DueFacts DEF Keeps
  <1>4. Value(Due(n)) # Failure /\ Value(Due(n)).obj = Due(n)  BY Zenon DEF Value, Failure
  <1>5. CASE Unreadable(doc.body[x[n].at])
    <2>1. Read(x[n].at) = Failure  BY Zenon, <1>2, <1>5, ReadProper
    <2> QED  BY Zenon, <1>2, <1>3, <1>4, <2>1 DEF Returned
  <1>6. CASE ~Unreadable(doc.body[x[n].at])
    <2> DEFINE v == ObjectAt(x[n].at)
    <2>1. Read(x[n].at) = Value(v) /\ Proper(v) /\ v.num = doc.body[x[n].at].num  BY Zenon, <1>2, <1>6, ReadProper
    <2>2. Value(v).obj = v  BY Zenon DEF Value
    <2>3. Gives(x, n, v)  BY Zenon, <1>6, <2>1 DEF Gives, Filed
    <2> HIDE DEF v
    <2> QED  BY Zenon, <1>2, <1>3, <1>4, <2>1, <2>2, <2>3 DEF Returned
  <1> QED  BY <1>5, <1>6

-----------------------------------------------------------------------------
\* What a step starts from, as long as no top-down repair was made.
Before == /\ doc \in Document /\ stack \in Seq(Frame)
          /\ SoundAt(xrefs, ObjCache, objstms, stack, ret, asked.n)
After == stack' \in Seq(Frame) /\ SoundAt(xrefs', ObjCache', objstms', stack', ret', asked'.n)

\* What is known of the innermost call when it runs.
LEMMA Runs ==
    ASSUME Before, NEW fn, NEW pc, Running(fn, pc)
    PROVE  LET f == Head(stack)
           IN  /\ stack # <<>> /\ f = stack[1] /\ f \in Frame /\ f.fn = fn /\ f.pc = pc /\ Tail(stack) \in Seq(Frame)
               /\ fn = "lookup" => f \in LookupFrame
               /\ fn = "parse" => f \in ParseFrame /\ Len(stack) > 1
               /\ fn = "viaOS" => f \in ViaOSFrame /\ Len(stack) > 1
               /\ fn = "rebuild" => f \in RebuildFrame /\ RebuildSound(f, xrefs) /\ Len(stack) > 1
               /\ Len(stack) > 1 => MadeBy(f, stack[2]) /\ Tail(stack) # <<>> /\ Tail(stack)[1] = stack[2]
               /\ Received(f, xrefs, ret) /\ asked.n \in Nums
               /\ pc # "rebuilt" \/ fn # "lookup" => CacheCurrent(ObjCache, xrefs)
  <1>1. stack # <<>> /\ Head(stack).fn = fn /\ Head(stack).pc = pc  BY DEF Running
  <1>2. CallsSound(stack, xrefs, asked.n)  BY DEF Before, SoundAt
  <1>3. stack \in Seq(Frame)  BY Zenon DEF Before
  <1>4. Head(stack) = stack[1]  BY Zenon, <1>1, <1>2, <1>3, Runner
  <1>5. Received(stack[1], xrefs, ret)  BY <1>1 DEF Before, SoundAt, Expected
  <1>6. asked.n \in Nums  BY <1>1 DEF Before, SoundAt
  <1>7. Tail(stack) \in Seq(Frame)  BY Zenon, <1>1, <1>3, Popped
  <1>8. pc # "rebuilt" \/ fn # "lookup" => CacheCurrent(ObjCache, xrefs)
    BY Zenon, <1>1, <1>4, Kinds DEF Before, SoundAt, JustRebuilt
  <1> QED  BY Zenon, <1>1, <1>2, <1>3, <1>4, <1>5, <1>6, <1>7, <1>8, Runner

\* The innermost lookup returns; the cache may have changed.
LEMMA AfterLookup ==
    ASSUME Before, stack # <<>>, stack[1] \in LookupFrame, NEW r, Return(r), Returned(xrefs, stack[1].n, r),
           CacheSound(ObjCache'), CacheCurrent(ObjCache', xrefs),
           xrefs' = xrefs, objstms' = objstms, asked' = asked
    PROVE  After
  <1>1. /\ xrefs \in Table /\ Keeps(xrefs) /\ CallsSound(stack, xrefs, asked.n) /\ StreamsSound(objstms)
        /\ asked.n \in Nums /\ stack \in Seq(Frame)
    BY DEF Before, SoundAt
  <1>2. SoundAt(xrefs, ObjCache', objstms, Tail(stack), r, asked.n)
    <2> DEFINE c == ObjCache'
    <2>1. CacheSound(c) /\ CacheCurrent(c, xrefs)  OBVIOUS
    <2> HIDE DEF c
    <2>2. SoundAt(xrefs, c, objstms, Tail(stack), r, asked.n)  BY Zenon, <1>1, <2>1, LookupEnds
    <2> QED  BY <2>2 DEF c
  <1>3. stack' = Tail(stack) /\ ret' = r  BY DEF Return
  <1>4. Tail(stack) \in Seq(Frame)  BY Zenon, <1>1, Popped
  <1> QED  BY Zenon, <1>2, <1>3, <1>4 DEF After

\* The innermost call goes on as g and calls f.
LEMMA AfterCall ==
    ASSUME Before, stack # <<>>, NEW f \in Frame, NEW g \in Frame,
           stack' = <<f, g>> \o Tail(stack), ret' = Nothing,
           CallSound(f, xrefs), CallSound(g, xrefs), MadeBy(f, g), f \in RebuildFrame => f.snapshot = xrefs,
           \/ stack[1] \in LookupFrame /\ g \in LookupFrame /\ stack[1].n = g.n
           \/ stack[1] \in ViaOSFrame /\ g \in ViaOSFrame /\ stack[1].n = g.n /\ stack[1].s = g.s
           \/ stack[1] \in RebuildFrame /\ g \in RebuildFrame /\ g.snapshot = stack[1].snapshot,
           \/ f \in LookupFrame /\ f.pc = "start"
           \/ f \in ViaOSFrame /\ f.pc = "start"
           \/ f \in RebuildFrame /\ f.pc = "next"
           \/ f \in ParseFrame /\ g.n \in DOMAIN xrefs /\ xrefs[g.n].XType = "table" /\ f.off = xrefs[g.n].at,
           CacheCurrent(ObjCache, xrefs),
           xrefs' = xrefs, ObjCache' = ObjCache, objstms' = objstms, asked' = asked
    PROVE  After
  <1>1. /\ xrefs \in Table /\ Keeps(xrefs) /\ CallsSound(stack, xrefs, asked.n) /\ StreamsSound(objstms)
        /\ CacheSound(ObjCache) /\ asked.n \in Nums /\ stack \in Seq(Frame)
    BY DEF Before, SoundAt
  <1>2. CallsSound(<<g>> \o Tail(stack), xrefs, asked.n)  BY <1>1, CallGoesOn
  <1> DEFINE t == <<f, g>> \o Tail(stack)
  <1>3. t \in Seq(Frame) /\ t # <<>> /\ t[1] = f /\ t[2] = g /\ CallsSound(t, xrefs, asked.n)
    BY <1>1, <1>2, CallMade
  <1>4. stack' = t  BY Zenon
  <1> HIDE DEF t
  <1>5. Expected(t, xrefs, asked.n, Nothing)
    <2>1. CASE f \in ParseFrame
      <3>1. Received(t[1], xrefs, Nothing)  BY Zenon, <1>3, <2>1, Kinds DEF Received
      <3>2. g.n \in DOMAIN xrefs /\ xrefs[g.n].XType = "table" /\ f.off = xrefs[g.n].at  BY Zenon, <2>1, Kinds
      <3> QED  BY Zenon, <1>3, <3>1, <3>2 DEF Expected
    <2>2. CASE f \notin ParseFrame  BY Zenon, <1>3, <2>2, NothingExpected
    <2> QED  BY Zenon, <2>1, <2>2
  <1>6. SoundAt(xrefs, ObjCache, objstms, t, Nothing, asked.n)  BY Zenon, <1>1, <1>3, <1>5 DEF SoundAt
  <1> QED  BY Zenon, <1>3, <1>4, <1>6 DEF After

\* The innermost call is replaced by g, which has just been made or goes on.
LEMMA AfterBecome ==
    ASSUME Before, stack # <<>>, NEW g \in Frame, Become(g), CallSound(g, xrefs),
           \/ stack[1] \in LookupFrame /\ g \in LookupFrame /\ stack[1].n = g.n /\ g.pc = "start"
           \/ stack[1] \in RebuildFrame /\ g \in RebuildFrame /\ g.snapshot = stack[1].snapshot /\ g.pc = "next",
           CacheSound(ObjCache'), CacheCurrent(ObjCache', xrefs),
           xrefs' = xrefs, objstms' = objstms, asked' = asked
    PROVE  After
  <1>1. /\ xrefs \in Table /\ Keeps(xrefs) /\ CallsSound(stack, xrefs, asked.n) /\ StreamsSound(objstms)
        /\ asked.n \in Nums /\ stack \in Seq(Frame)
    BY Zenon DEF Before, SoundAt
  <1>2. CallsSound(<<g>> \o Tail(stack), xrefs, asked.n)  BY Zenon, <1>1, CallGoesOn
  <1> DEFINE t == <<g>> \o Tail(stack)
  <1>3. t \in Seq(Frame) /\ Len(t) = Len(stack) /\ Len(stack) \in Nat \ {0} /\ t[1] = g  BY <1>1, Replaced
  <1>4. stack' = t /\ ret' = Nothing /\ CallsSound(t, xrefs, asked.n)  BY <1>2 DEF Become
  <1> HIDE DEF t
  <1>5. t # <<>>  BY Zenon, <1>3
  <1>6. Expected(t, xrefs, asked.n, Nothing)  BY Zenon, <1>3, <1>5, NothingExpected
  <1>7. SoundAt(xrefs, ObjCache', objstms, t, Nothing, asked.n)  BY Zenon, <1>1, <1>4, <1>6 DEF SoundAt
  <1> QED  BY Zenon, <1>3, <1>4, <1>7 DEF After

-----------------------------------------------------------------------------
\* lookupByNumber up to its first call.
LEMMA CompressedLookupStart ==
    ASSUME Before, LookupStart
    PROVE  After
  <1> DEFINE l == Head(stack)
             n == l.n
  <1>1. /\ stack # <<>> /\ l = stack[1] /\ l \in Frame /\ Tail(stack) \in Seq(Frame) /\ l \in LookupFrame
        /\ asked.n \in Nums /\ CacheCurrent(ObjCache, xrefs)
    BY Runs DEF LookupStart
  <1>2. n \in Nums  BY Zenon, <1>1 DEF LookupFrame
  <1>3. UNCHANGED <<doc, xrefs, ObjCache, objstms, asked>>  BY DEF LookupStart
  <1>4. doc \in Document /\ xrefs \in Table /\ Keeps(xrefs) /\ CacheSound(ObjCache)  BY DEF Before, SoundAt
  <1>5. \A p \in {"parsed", "os"} :
          LET g == [l EXCEPT !.pc = p] IN g \in LookupFrame /\ g \in Frame /\ g.n = n /\ g.pc = p
    BY Zenon, <1>1 DEF LookupFrame, Frame
  <1>6. \/ n \in DOMAIN ObjCache /\ Return(Value(ObjCache[n]))
        \/ n \notin DOMAIN ObjCache \cup DOMAIN xrefs /\ Return(Value(Null))
        \/ n \in DOMAIN xrefs /\ xrefs[n].XType = "table" /\ Call(Parse(xrefs[n].at), "parsed")
        \/ /\ n \in DOMAIN xrefs /\ xrefs[n].XType = "objstm" /\ Return(Failure)
           /\ xrefs[n].at = n \/ xrefs[n].at \notin DOMAIN xrefs
        \/ n \in DOMAIN xrefs /\ xrefs[n].XType = "objstm" /\ Call(ViaOS(xrefs[n].at, n), "os")
    BY DEF LookupStart
  <1>7. ASSUME NEW r, Return(r), Returned(xrefs, n, r) PROVE After
    <2>1. CacheSound(ObjCache') /\ CacheCurrent(ObjCache', xrefs)  BY Zenon, <1>1, <1>3, <1>4
    <2> QED  BY Zenon, <1>1, <1>3, <1>7, <2>1, AfterLookup
  <1>8. CASE n \in DOMAIN ObjCache /\ Return(Value(ObjCache[n]))
    <2> DEFINE v == ObjCache[n]
    <2>1. Value(v).obj = v  BY Zenon DEF Value
    <2>2. Proper(v) /\ (Firm(n) => v = Due(n)) /\ Gives(xrefs, n, v)  BY Zenon, <1>1, <1>4, <1>8 DEF CacheSound, CacheCurrent
    <2> HIDE DEF v
    <2>3. Returned(xrefs, n, Value(v))  BY Zenon, <2>1, <2>2 DEF Returned
    <2> QED  BY Zenon, <1>7, <1>8, <2>3 DEF v
  <1>9. CASE n \notin DOMAIN ObjCache \cup DOMAIN xrefs /\ Return(Value(Null))
    <2>1. ~Firm(n)  BY Zenon, <1>2, <1>4, <1>9 DEF Keeps
    <2>2. Value(Null).obj = Null /\ Proper(Null) /\ Gives(xrefs, n, Null)
      BY Zenon DEF Value, Null, Proper, Object, Gives
    <2>3. Returned(xrefs, n, Value(Null))  BY Zenon, <2>1, <2>2 DEF Returned
    <2> QED  BY Zenon, <1>7, <1>9, <2>3
  <1>10. CASE n \in DOMAIN xrefs /\ xrefs[n].XType = "table" /\ Call(Parse(xrefs[n].at), "parsed")
    <2> DEFINE f == Parse(xrefs[n].at)
               g == [l EXCEPT !.pc = "parsed"]
    <2>1. xrefs[n].at \in Offs  BY Zenon, <1>4, <1>10, ParseReturns
    <2>2. f \in ParseFrame /\ f \in Frame /\ f.off = xrefs[n].at  BY <2>1 DEF Parse, ParseFrame, Frame
    <2>3. g \in LookupFrame /\ g \in Frame /\ g.n = n /\ g.pc = "parsed"  BY <1>5
    <2>4. stack' = <<f, g>> \o Tail(stack) /\ ret' = Nothing  BY Zenon, <1>10 DEF Call
    <2> HIDE DEF f, g, l, n
    <2>5. MadeBy(f, g) /\ CallSound(f, xrefs) /\ CallSound(g, xrefs)  BY Zenon, <2>2, <2>3 DEF MadeBy, CallSound
    <2>6. f \notin RebuildFrame  BY Zenon, <2>2, Kinds
    <2>7. stack[1] \in LookupFrame /\ stack[1].n = g.n  BY Zenon, <1>1, <2>3 DEF n
    <2> QED  BY Zenon, <1>1, <1>3, <1>10, <2>2, <2>3, <2>4, <2>5, <2>6, <2>7, AfterCall
  <1>11. CASE /\ n \in DOMAIN xrefs /\ xrefs[n].XType = "objstm" /\ Return(Failure)
              /\ xrefs[n].at = n \/ xrefs[n].at \notin DOMAIN xrefs
    <2>1. ~Firm(n)
      <3> SUFFICES ASSUME Firm(n) PROVE FALSE  OBVIOUS
      <3>1. xrefs[n] = doc.xrefs[n]  BY Zenon, <1>2, <1>4 DEF Keeps
      <3>2. StreamOf(n) \in Nums /\ Healthy(StreamOf(n)) /\ StreamOf(n) # n  BY Zenon, <1>2, <1>4, <1>11, <3>1, DueFacts
      <3>3. xrefs[n].at = StreamOf(n)  BY Zenon, <3>1 DEF StreamOf
      <3>4. StreamOf(n) \in DOMAIN xrefs  BY Zenon, <1>4, <3>2 DEF Keeps, Firm
      <3> QED  BY Zenon, <1>11, <3>2, <3>3, <3>4
    <2>2. Returned(xrefs, n, Failure)  BY Zenon, <2>1 DEF Returned
    <2> QED  BY Zenon, <1>7, <1>11, <2>2
  <1>12. CASE n \in DOMAIN xrefs /\ xrefs[n].XType = "objstm" /\ Call(ViaOS(xrefs[n].at, n), "os")
    <2> DEFINE f == ViaOS(xrefs[n].at, n)
               g == [l EXCEPT !.pc = "os"]
    <2>1. xrefs[n].at \in Nums  BY ZenonT(30), <1>4, <1>12 DEF Table, XrefEntry
    <2>2. f \in ViaOSFrame /\ f \in Frame /\ f.s = xrefs[n].at /\ f.n = n /\ f.pc = "start"
      BY <1>2, <2>1 DEF ViaOS, ViaOSFrame, Frame
    <2>3. g \in LookupFrame /\ g \in Frame /\ g.n = n /\ g.pc = "os"  BY Zenon, <1>5
    <2>4. stack' = <<f, g>> \o Tail(stack) /\ ret' = Nothing  BY Zenon, <1>12 DEF Call
    <2>5. Firm(n) => xrefs[n] = doc.xrefs[n]  BY Zenon, <1>2, <1>4 DEF Keeps
    <2>6. ~Healthy(n) /\ (Compressed(n) => xrefs[n].at = StreamOf(n))
      BY Zenon, <1>12, <2>5 DEF Firm, Healthy, StreamOf
    <2> HIDE DEF f, g, l, n
    <2>7. MadeBy(f, g)  BY Zenon, <2>2, <2>3, <2>6 DEF MadeBy
    <2>8. CallSound(f, xrefs) /\ CallSound(g, xrefs)  BY Zenon, <2>2, <2>3 DEF CallSound
    <2>9. f \notin RebuildFrame  BY Zenon, <2>2, Kinds
    <2>10. stack[1] \in LookupFrame /\ stack[1].n = g.n  BY Zenon, <1>1, <2>3 DEF n
    <2> QED  BY Zenon, <1>1, <1>3, <2>2, <2>3, <2>4, <2>7, <2>8, <2>9, <2>10, AfterCall
  <1> QED  BY Zenon, <1>6, <1>8, <1>9, <1>10, <1>11, <1>12

\* The lookup of an object whose entry leads to no readable object fails; it is not one
\* of those that are found.
LEMMA CompressedParseFailed ==
    ASSUME Before, ~repairsAttempted', LookupParseFailed
    PROVE  After
  <1> DEFINE l == Head(stack)
             n == l.n
  <1>1. /\ stack # <<>> /\ l = stack[1] /\ l \in LookupFrame /\ l.pc = "parsed"
        /\ Received(l, xrefs, ret) /\ CacheCurrent(ObjCache, xrefs)
    BY Runs DEF LookupParseFailed
  <1>2. UNCHANGED <<xrefs, ObjCache, objstms, asked>> /\ Return(Failure) /\ ret.st = "error"
    BY Zenon DEF LookupParseFailed, TopDownRepair
  <1>3. doc \in Document /\ xrefs \in Table /\ Keeps(xrefs) /\ CacheSound(ObjCache)  BY DEF Before, SoundAt
  <1>4. n \in DOMAIN xrefs /\ xrefs[n].XType = "table" /\ ret = Read(xrefs[n].at)  BY <1>1 DEF Received
  <1>5. Returned(xrefs, n, ret)  BY <1>3, <1>4, ParseReturns
  <1>6. ret = Failure  BY <1>2, <1>5 DEF Value, Returned
  <1>7. CacheSound(ObjCache') /\ CacheCurrent(ObjCache', xrefs)  BY <1>1, <1>2, <1>3
  <1> QED  BY Zenon, <1>1, <1>2, <1>5, <1>6, <1>7, AfterLookup

\* The object that was parsed is returned and cached.
LEMMA CompressedParsed ==
    ASSUME Before, LookupParsed
    PROVE  After
  <1> DEFINE l == Head(stack)
             n == l.n
  <1>1. /\ stack # <<>> /\ l = stack[1] /\ l \in LookupFrame /\ l.pc = "parsed"
        /\ Received(l, xrefs, ret) /\ CacheCurrent(ObjCache, xrefs)
    BY Zenon, Runs DEF LookupParsed
  <1>2. /\ UNCHANGED <<xrefs, objstms, asked>> /\ Return(ret) /\ ret.st = "ok"
        /\ ObjCache' = Put(ObjCache, n, ret.obj)
    BY Zenon DEF LookupParsed
  <1>3. doc \in Document /\ xrefs \in Table /\ Keeps(xrefs) /\ CacheSound(ObjCache)  BY DEF Before, SoundAt
  <1>4. n \in DOMAIN xrefs /\ xrefs[n].XType = "table" /\ ret = Read(xrefs[n].at)  BY Zenon, <1>1 DEF Received
  <1>5. Returned(xrefs, n, ret)  BY Zenon, <1>3, <1>4, ParseReturns
  <1>6. ret = Value(ret.obj)  BY <1>2, <1>5 DEF Returned, Failure
  <1>7. n \in Nums  BY Zenon, <1>1 DEF LookupFrame
  <1>8. CacheSound(ObjCache') /\ CacheCurrent(ObjCache', xrefs)  BY Zenon, <1>1, <1>2, <1>3, <1>5, <1>6, <1>7, CachePut
  <1> QED  BY <1>1, <1>2, <1>5, <1>8, AfterLookup

\* A rebuild starts from the table as it is, for an object that need not be found.
LEMMA CompressedWrongNumber ==
    ASSUME Before, LookupWrongNumber
    PROVE  After
  <1> DEFINE l == Head(stack)
             n == l.n
             empty == [m \in {} |-> Null]
             f == [fn |-> "rebuild", k |-> n, pc |-> "next", todo |-> DOMAIN xrefs,
                   snapshot |-> xrefs, newXrefs |-> empty]
             g == [l EXCEPT !.pc = "rebuilt"]
  <1>1. /\ stack # <<>> /\ l = stack[1] /\ l \in LookupFrame /\ l.pc = "parsed"
        /\ Received(l, xrefs, ret) /\ CacheCurrent(ObjCache, xrefs)
    BY Zenon, Runs DEF LookupWrongNumber
  <1>2. /\ UNCHANGED <<xrefs, ObjCache, objstms, asked>> /\ ret.obj.num # n
        /\ stack' = <<f, g>> \o Tail(stack) /\ ret' = Nothing
    BY DEF LookupWrongNumber, WrongNumber, Call
  <1>3. doc \in Document /\ xrefs \in Table /\ Keeps(xrefs)  BY Zenon DEF Before, SoundAt
  <1>4. n \in DOMAIN xrefs /\ xrefs[n].XType = "table" /\ ret = Read(xrefs[n].at)  BY <1>1 DEF Received
  <1>5. ~Firm(n)  BY Zenon, <1>2, <1>3, <1>4, ParseReturns
  <1>6. n \in Nums /\ g \in LookupFrame /\ g \in Frame /\ g.n = n /\ g.pc = "rebuilt"  BY Zenon, <1>1 DEF LookupFrame, Frame
  <1>7. empty \in Table /\ DOMAIN empty = {}
    <2>1. empty \in [{} -> XrefEntry] /\ {} \in SUBSET Nums  OBVIOUS
    <2> QED  BY <2>1 DEF Table
  <1>8. DOMAIN xrefs \subseteq Nums  BY <1>3 DEF Table
  <1> HIDE DEF empty
  <1>9. /\ f \in RebuildFrame /\ f \in Frame /\ f.pc = "next" /\ f.todo = DOMAIN xrefs
        /\ f.snapshot = xrefs /\ f.newXrefs = empty
    BY Zenon, <1>3, <1>6, <1>7, <1>8 DEF RebuildFrame, Frame
  <1> HIDE DEF f, g, l, n
  <1>10. Follows(xrefs, xrefs) /\ Follows(empty, xrefs)  BY Zenon, <1>7 DEF Follows
  <1>11. RebuildSound(f, xrefs)  BY Zenon, <1>3, <1>7, <1>9, <1>10 DEF RebuildSound, Keeps
  <1>12. CallSound(f, xrefs) /\ CallSound(g, xrefs) /\ MadeBy(f, g)  BY Zenon, <1>5, <1>6, <1>9, <1>11 DEF CallSound, MadeBy
  <1>13. stack[1] \in LookupFrame /\ stack[1].n = g.n  BY Zenon, <1>1, <1>6 DEF n
  <1> QED  BY Zenon, <1>1, <1>2, <1>6, <1>9, <1>12, <1>13, AfterCall


\* After the rebuild the cache is emptied and the lookup made again.
LEMMA CompressedRebuilt ==
    ASSUME Before, LookupRebuilt
    PROVE  After
  <1> DEFINE l == Head(stack)
             n == l.n
  <1>1. stack # <<>> /\ l = stack[1] /\ l \in LookupFrame /\ l.pc = "rebuilt" /\ Received(l, xrefs, ret)
    BY Runs DEF LookupRebuilt
  <1>2. UNCHANGED <<xrefs, objstms, asked>>  BY DEF LookupRebuilt
  <1>3. ~Firm(n)  BY <1>1 DEF Received
  <1>4. CASE ret.st = "error" /\ Return(Failure) /\ UNCHANGED ObjCache
    <2>1. ~JustRebuilt(stack, ret)  BY <1>4 DEF JustRebuilt
    <2>2. CacheSound(ObjCache') /\ CacheCurrent(ObjCache', xrefs)  BY <1>4, <2>1 DEF Before, SoundAt
    <2>3. Returned(xrefs, n, Failure)  BY <1>3 DEF Returned
    <2> QED  BY <1>1, <1>2, <1>4, <2>2, <2>3, AfterLookup
  <1>5. CASE Become(Lookup(n, FALSE)) /\ ObjCache' = [m \in {} |-> Null]
    <2> DEFINE g == Lookup(n, FALSE)
    <2>1. g \in LookupFrame /\ g \in Frame /\ g.n = n /\ g.pc = "start"  BY Zenon, <1>1 DEF Lookup, LookupFrame, Frame
    <2>2. CacheSound(ObjCache') /\ CacheCurrent(ObjCache', xrefs)  BY Zenon, <1>5 DEF CacheSound, CacheCurrent
    <2>3. Become(g)  BY Zenon, <1>5
    <2> HIDE DEF g
    <2>4. CallSound(g, xrefs)  BY <2>1 DEF CallSound
    <2> QED  BY Zenon, <1>1, <1>2, <2>1, <2>2, <2>3, <2>4, AfterBecome
  <1> QED  BY ZenonT(30), <1>4, <1>5 DEF LookupRebuilt

\* The member of an object stream is returned and cached.
LEMMA CompressedFromStream ==
    ASSUME Before, LookupFromStream
    PROVE  After
  <1> DEFINE l == Head(stack)
             n == l.n
  <1>1. /\ stack # <<>> /\ l = stack[1] /\ l \in LookupFrame /\ l.pc = "os"
        /\ Received(l, xrefs, ret) /\ CacheCurrent(ObjCache, xrefs)
    BY Runs DEF LookupFromStream
  <1>2. UNCHANGED <<xrefs, objstms, asked>> /\ Return(ret)  BY DEF LookupFromStream
  <1>3. CacheSound(ObjCache)  BY DEF Before, SoundAt
  <1>4. /\ ret = Failure \/ (ret = Value(ret.obj) /\ Proper(ret.obj) /\ ret.obj.num = n)
        /\ ~Healthy(n) /\ (Compressed(n) => ret = Value(Due(n)))
    BY <1>1 DEF Received
  <1>5. Returned(xrefs, n, ret)  BY <1>4 DEF Returned, Firm, Gives
  <1>6. n \in Nums  BY Zenon, <1>1 DEF LookupFrame
  <1>7. CacheSound(ObjCache') /\ CacheCurrent(ObjCache', xrefs)
    <2>1. CASE ObjCache' = ObjCache  BY Zenon, <1>1, <1>3, <2>1
    <2>2. CASE ret.st = "ok" /\ ObjCache' = Put(ObjCache, n, ret.obj)
      <3>1. ret = Value(ret.obj)  BY <1>4, <2>2 DEF Failure
      <3> QED  BY Zenon, <1>1, <1>3, <1>5, <1>6, <2>2, <3>1, CachePut
    <2> QED  BY Zenon, <2>1, <2>2 DEF LookupFromStream
  <1> QED  BY <1>1, <1>2, <1>5, <1>7, AfterLookup

\* A return to a lookup that waits for a parse, a member or a rebuild.
LEMMA AfterReturn ==
    ASSUME Before, stack # <<>>, Len(stack) > 1, NEW r, Return(r), stack[2] \in LookupFrame, Received(stack[2], xrefs, r),
           CacheCurrent(ObjCache, xrefs), StreamsSound(objstms'),
           xrefs' = xrefs, ObjCache' = ObjCache, asked' = asked
    PROVE  After
  <1>1. /\ xrefs \in Table /\ Keeps(xrefs) /\ CallsSound(stack, xrefs, asked.n) /\ CacheSound(ObjCache)
        /\ asked.n \in Nums /\ stack \in Seq(Frame)
    BY Zenon DEF Before, SoundAt
  <1>2. Tail(stack) # <<>> /\ Tail(stack)[1] = stack[2]  BY Zenon, <1>1, Runner
  <1>3. CallsSound(Tail(stack), xrefs, asked.n)  BY Zenon, <1>1, CallsLeft
  <1>4. stack[2] \notin ParseFrame  BY Zenon, Kinds
  <1>5. Expected(Tail(stack), xrefs, asked.n, r)  BY Zenon, <1>2, <1>4 DEF Expected
  <1>6. SoundAt(xrefs, ObjCache, objstms', Tail(stack), r, asked.n)  BY Zenon, <1>1, <1>3, <1>5 DEF SoundAt
  <1>7. stack' = Tail(stack) /\ ret' = r  BY DEF Return
  <1>8. Tail(stack) \in Seq(Frame)  BY Zenon, <1>1, Popped
  <1> QED  BY Zenon, <1>6, <1>7, <1>8 DEF After

\* ParseIndirectObject returns what stands at the offset; no length is looked up.
LEMMA CompressedParse ==
    ASSUME DirectLengths, doc \in Documents, Before, ParseStart
    PROVE  After
  <1> DEFINE p == Head(stack)
             o == p.off
  <1>1. /\ stack # <<>> /\ p = stack[1] /\ p \in ParseFrame /\ Len(stack) > 1
        /\ MadeBy(p, stack[2]) /\ CacheCurrent(ObjCache, xrefs)
    BY Zenon, Runs DEF ParseStart
  <1>2. UNCHANGED <<xrefs, ObjCache, objstms, asked>>  BY Zenon DEF ParseStart
  <1>3. stack[2] \in LookupFrame /\ stack[2].pc = "parsed"  BY Zenon, <1>1, Kinds DEF MadeBy
  <1>4. /\ stack[2].n \in DOMAIN xrefs /\ xrefs[stack[2].n].XType = "table"
        /\ o = xrefs[stack[2].n].at
    BY <1>1 DEF Before, SoundAt, Expected
  <1>5. o \in Offs  BY Zenon, <1>1 DEF ParseFrame
  <1>6. ~HasLengthReference(doc.body[o])  BY Zenon, <1>5 DEF DirectLengths
  <1>7. Return(Read(o))  BY ZenonT(30), <1>6 DEF ParseStart, Read
  <1>8. Received(stack[2], xrefs, Read(o))  BY <1>3, <1>4, Kinds DEF Received
  <1>9. StreamsSound(objstms')  BY <1>2 DEF Before, SoundAt
  <1> QED  BY Zenon, <1>1, <1>2, <1>3, <1>7, <1>8, <1>9, AfterReturn

\* No parse waits for a length.
LEMMA CompressedNoLength ==
    ASSUME Before, ParseLength
    PROVE  FALSE
  <1>1. Head(stack) \in ParseFrame /\ Head(stack).pc = "length"  BY Zenon, Runs DEF ParseLength
  <1> QED  BY <1>1 DEF ParseFrame

\* A member of a decoded stream.
LEMMA MemberReturned ==
    ASSUME doc \in Document, NEW members \in MemberTable, NEW l \in LookupFrame, l.pc = "os", NEW x, ~Healthy(l.n),
           Compressed(l.n) => members = doc.body[StreamAt(l.n)].members
    PROVE  Received(l, x, MemberOf(members, l.n))
  <1> DEFINE n == l.n
             v == [num |-> n, at |-> 0, kind |-> IF n \in DOMAIN members THEN members[n] ELSE "int"]
             r == MemberOf(members, n)
  <1>1. n \in Nums  BY Zenon DEF LookupFrame
  <1>2. \A m \in DOMAIN members : members[m] \in Member  BY Zenon DEF MemberTable
  <1>3. v \in Object /\ v.kind # "objstm" /\ v.num = n  BY Zenon, <1>1, <1>2 DEF Object, Member
  <1>4. r = Failure \/ r = Value(v)  BY Zenon DEF MemberOf
  <1>5. Compressed(n) => r = Value(Due(n))
    <2> HAVE Compressed(n)
    <2>1. n \in DOMAIN members  BY Zenon DEF Compressed
    <2>2. members # <<>>  BY <2>1
    <2>3. doc.xrefs[n].XType # "table"  BY Zenon DEF Compressed
    <2>4. Due(n) = [num |-> n, at |-> 0, kind |-> members[n]]  BY Zenon, <2>3 DEF Due
    <2> QED  BY Zenon, <2>1, <2>2, <2>4 DEF MemberOf
  <1> HIDE DEF v, r, n
  <1>6. r = Failure \/ (r = Value(r.obj) /\ Proper(r.obj) /\ r.obj.num = n)
    <2>1. Value(v).obj = v  BY Zenon DEF Value
    <2> QED  BY <1>3, <1>4, <2>1 DEF Proper
  <1>7. Received(l, x, r)
    <2>1. l \notin ViaOSFrame /\ l \notin RebuildFrame  BY Zenon, Kinds
    <2> QED  BY Zenon, <1>5, <1>6, <2>1 DEF Received, n
  <1> QED  BY <1>7 DEF r, n

\* lookupObjectViaOS, up to the lookup of the stream.
LEMMA CompressedViaOS ==
    ASSUME Before, ViaOSStart
    PROVE  After
  <1> DEFINE v == Head(stack)
             s == v.s
             n == v.n
  <1>1. /\ stack # <<>> /\ v = stack[1] /\ v \in ViaOSFrame /\ Len(stack) > 1
        /\ MadeBy(v, stack[2]) /\ CacheCurrent(ObjCache, xrefs)
    BY Runs DEF ViaOSStart
  <1>2. UNCHANGED <<xrefs, ObjCache, objstms, asked>>  BY DEF ViaOSStart
  <1>3. /\ stack[2] \in LookupFrame /\ stack[2].pc = "os" /\ n = stack[2].n
        /\ ~Healthy(n) /\ (Compressed(n) => s = StreamOf(n))
    BY <1>1, Kinds DEF MadeBy
  <1>4. doc \in Document /\ StreamsSound(objstms)  BY DEF Before, SoundAt
  <1>5. s \in Nums /\ n \in Nums  BY <1>1 DEF ViaOSFrame
  <1>6. CASE s \in DOMAIN objstms /\ Return(MemberOf(objstms[s], n))
    <2>1. objstms[s] \in MemberTable  BY Zenon, <1>4, <1>6 DEF StreamsSound
    <2>2. Compressed(n) => objstms[s] = doc.body[StreamAt(n)].members  BY Zenon, <1>3, <1>4, <1>5, <1>6 DEF StreamsSound
    <2>3. Received(stack[2], xrefs, MemberOf(objstms[s], n))  BY Zenon, <1>3, <1>4, <2>1, <2>2, MemberReturned
    <2>4. StreamsSound(objstms')  BY Zenon, <1>2, <1>4
    <2> QED  BY Zenon, <1>1, <1>2, <1>3, <1>6, <2>3, <2>4, AfterReturn
  <1>7. CASE Call(Lookup(s, TRUE), "so")
    <2> DEFINE f == Lookup(s, TRUE)
               g == [v EXCEPT !.pc = "so"]
    <2>1. f \in LookupFrame /\ f \in Frame /\ f.n = s /\ f.pc = "start"  BY <1>5 DEF Lookup, LookupFrame, Frame
    <2>2. g \in ViaOSFrame /\ g \in Frame /\ g.n = n /\ g.s = s /\ g.pc = "so"  BY <1>1 DEF ViaOSFrame, Frame
    <2>3. stack' = <<f, g>> \o Tail(stack) /\ ret' = Nothing  BY <1>7 DEF Call
    <2>4. stack[1] \in ViaOSFrame /\ stack[1].n = g.n /\ stack[1].s = g.s  BY Zenon, <1>1, <2>2
    <2> HIDE DEF f, g, v, s, n
    <2>5. MadeBy(f, g) /\ CallSound(f, xrefs) /\ CallSound(g, xrefs)  BY Zenon, <2>1, <2>2 DEF MadeBy, CallSound
    <2>6. f \notin RebuildFrame  BY <2>1, Kinds
    <2> QED  BY Zenon, <1>1, <1>2, <2>1, <2>2, <2>3, <2>4, <2>5, <2>6, AfterCall
  <1> QED  BY ZenonT(30), <1>6, <1>7 DEF ViaOSStart

\* The stream has been looked up and is decoded.
LEMMA CompressedLoaded ==
    ASSUME Before, ViaOSLoaded
    PROVE  After
  <1> DEFINE v == Head(stack)
             s == v.s
             n == v.n
             members == doc.body[ret.obj.at].members
  <1>1. /\ stack # <<>> /\ v = stack[1] /\ v \in ViaOSFrame /\ v.pc = "so" /\ Len(stack) > 1
        /\ MadeBy(v, stack[2]) /\ CacheCurrent(ObjCache, xrefs) /\ Received(v, xrefs, ret)
    BY Zenon, Runs DEF ViaOSLoaded
  <1>2. UNCHANGED <<xrefs, ObjCache, asked>>  BY Zenon DEF ViaOSLoaded
  <1>3. /\ stack[2] \in LookupFrame /\ stack[2].pc = "os" /\ n = stack[2].n
        /\ ~Healthy(n) /\ (Compressed(n) => s = StreamOf(n))
    BY Zenon, <1>1, Kinds DEF MadeBy
  <1>4. doc \in Document /\ StreamsSound(objstms)  BY DEF Before, SoundAt
  <1>5. s \in Nums /\ n \in Nums  BY Zenon, <1>1 DEF ViaOSFrame
  <1>6. Returned(xrefs, s, ret)  BY Zenon, <1>1, Kinds DEF Received
  <1>7. ASSUME NEW m \in Nums, Compressed(m), StreamOf(m) = s
        PROVE  ret.st = "ok" /\ ret.obj.kind = "objstm" /\ ret.obj.at = StreamAt(m)
    <2>1. Healthy(s)  BY Zenon, <1>7 DEF Compressed
    <2>2. ret = Value(Due(s))  BY Zenon, <1>6, <2>1 DEF Returned, Firm
    <2>3. doc.xrefs[s].XType = "table"  BY Zenon, <2>1 DEF Healthy
    <2>4. Due(s) = ObjectAt(StreamAt(m))  BY Zenon, <1>7, <2>3 DEF Due, StreamAt
    <2>5. doc.body[StreamAt(m)].kind = "objstm"  BY Zenon, <1>7 DEF Compressed
    <2> QED  BY <2>2, <2>4, <2>5 DEF Value, ObjectAt
  <1>8. CASE ret.st = "ok" /\ ret.obj.kind = "objstm"
    <2>1. objstms' = Put(objstms, s, members) /\ Return(MemberOf(members, n))  BY Zenon, <1>8 DEF ViaOSLoaded
    <2>2. ret.obj.at \in Offs  BY <1>6, <1>8 DEF Returned, Failure, Proper
    <2>3. members \in MemberTable  BY Zenon, <1>4, <2>2 DEF Document, Body, MemberTable
    <2>4. \A m \in Nums : Compressed(m) /\ StreamOf(m) = s => members = doc.body[StreamAt(m)].members  BY Zenon, <1>7
    <2> HIDE DEF members, s, n, v
    <2>5. Received(stack[2], xrefs, MemberOf(members, n))  BY Zenon, <1>3, <1>4, <1>5, <2>3, <2>4, MemberReturned
    <2>6. DOMAIN Put(objstms, s, members) = DOMAIN objstms \cup {s}
          /\ \A k \in DOMAIN Put(objstms, s, members) :
               Put(objstms, s, members)[k] = IF k = s THEN members ELSE objstms[k]
      BY Zenon DEF Put
    <2>7. StreamsSound(objstms')
      <3>1. \A k \in DOMAIN objstms' : objstms'[k] \in MemberTable  BY Zenon, <1>4, <2>1, <2>3, <2>6 DEF StreamsSound
      <3>2. ASSUME NEW m \in Nums, Compressed(m), StreamOf(m) \in DOMAIN objstms'
            PROVE  objstms'[StreamOf(m)] = doc.body[StreamAt(m)].members
        BY Zenon, <1>4, <2>1, <2>4, <2>6, <3>2 DEF StreamsSound
      <3> QED  BY Zenon, <3>1, <3>2 DEF StreamsSound
    <2> QED  BY Zenon, <1>1, <1>2, <1>3, <2>1, <2>5, <2>7, AfterReturn
  <1>9. CASE ~(ret.st = "ok" /\ ret.obj.kind = "objstm")
    <2>1. Return(Failure) /\ objstms' = objstms  BY Zenon, <1>9 DEF ViaOSLoaded
    <2>2. ~Compressed(n)  BY Zenon, <1>3, <1>5, <1>7, <1>9
    <2>3. Received(stack[2], xrefs, Failure)  BY Zenon, <1>3, <2>2, Kinds DEF Received
    <2>4. StreamsSound(objstms')  BY Zenon, <1>4, <2>1
    <2> QED  BY Zenon, <1>1, <1>2, <1>3, <2>1, <2>3, <2>4, AfterReturn
  <1> QED  BY Zenon, <1>8, <1>9


\* The calls that are left once a rebuild has replaced the table by the one it has made.
LEMMA TableReplaced ==
    ASSUME NEW s \in Seq(Frame), s # <<>>, NEW x, NEW a, CallsSound(s, x, a), s[1] \in RebuildFrame,
           NEW y, Follows(y, s[1].snapshot)
    PROVE  CallsSound(Tail(s), y, a)
  <1> DEFINE t == Tail(s)
  <1>1. CallsSound(t, x, a)  BY Zenon, CallsLeft
  <1>2. \A i \in DOMAIN t : i \in Nat \ {0} /\ i + 1 \in DOMAIN s /\ t[i] = s[i + 1]  BY ZenonT(30), Popped
  <1>3. 1 \in DOMAIN s  BY Zenon, Popped
  <1> HIDE DEF t
  <1>4. ASSUME NEW i \in DOMAIN t PROVE CallSound(t[i], y)
    <2>1. CallSound(t[i], x)  BY Zenon, <1>1 DEF CallsSound
    <2>2. CASE ~RebuildSound(t[i], x)  BY Zenon, <2>1, <2>2 DEF CallSound
    <2>3. CASE RebuildSound(t[i], x)
      <3>1. t[i] \in RebuildFrame  BY Zenon, <2>3 DEF RebuildSound
      <3>2. i + 1 \in DOMAIN s /\ t[i] = s[i + 1] /\ 1 < i + 1  BY <1>2
      <3>3. Follows(s[1].snapshot, t[i].snapshot)  BY <1>3, <3>1, <3>2, Zenon DEF CallsSound
      <3>4. Follows(y, t[i].snapshot)  BY <3>3, FollowsOn
      <3>5. RebuildSound(t[i], y)  BY <2>3, <3>4, Zenon DEF RebuildSound
      <3> QED  BY Zenon, <3>5 DEF CallSound
    <2> QED  BY Zenon, <2>2, <2>3
  <1>5. CallsSound(t, y, a)  BY <1>1, <1>4, Zenon DEF CallsSound
  <1> QED  BY Zenon, <1>5 DEF t

\* rebuildXrefTable looks its next entry up, or ends and replaces the table.
LEMMA CompressedRebuildNext ==
    ASSUME Before, RebuildNext
    PROVE  After
  <1> DEFINE f == Head(stack)
  <1>1. /\ stack # <<>> /\ f = stack[1] /\ f \in RebuildFrame /\ f.pc = "next" /\ Len(stack) > 1
        /\ RebuildSound(f, xrefs) /\ MadeBy(f, stack[2]) /\ CacheCurrent(ObjCache, xrefs) /\ asked.n \in Nums
        /\ Tail(stack) # <<>> /\ Tail(stack)[1] = stack[2] /\ Tail(stack) \in Seq(Frame)
    BY ZenonT(30), Runs DEF RebuildNext
  <1>2. UNCHANGED <<ObjCache, objstms, asked>>  BY Zenon DEF RebuildNext
  <1>3. /\ f.k \in Nums /\ f.todo \subseteq Nums /\ f.snapshot \in Table /\ f.newXrefs \in Table
    BY Zenon, <1>1 DEF RebuildFrame
  <1>4. /\ f.todo \subseteq DOMAIN f.snapshot
        /\ Keeps(f.snapshot) /\ Follows(xrefs, f.snapshot) /\ Follows(f.newXrefs, f.snapshot)
        /\ \A m \in Nums : Firm(m) =>
             /\ m \in DOMAIN f.newXrefs => f.newXrefs[m] = doc.xrefs[m]
             /\ m \in DOMAIN f.newXrefs \cup f.todo
    BY ZenonT(30), <1>1 DEF RebuildSound
  <1>5. ASSUME NEW k \in f.todo,
               stack' = <<Lookup(k, FALSE), [f EXCEPT !.k = k, !.todo = Rest(f, k), !.pc = "looked"]>> \o Tail(stack),
               ret' = Nothing, xrefs' = xrefs
        PROVE  After
    <2> DEFINE c == Lookup(k, FALSE)
               g == [f EXCEPT !.k = k, !.todo = Rest(f, k), !.pc = "looked"]
    <2>1. k \in Nums  BY <1>3
    <2>2. c \in LookupFrame /\ c \in Frame /\ c.n = k /\ c.pc = "start"  BY <2>1 DEF Lookup, LookupFrame, Frame
    <2>3. Rest(f, k) \subseteq Nums /\ Rest(f, k) = f.todo \ {k}  BY <1>3 DEF Rest
    <2>4. /\ g \in RebuildFrame /\ g \in Frame /\ g.k = k /\ g.todo = f.todo \ {k} /\ g.pc = "looked"
          /\ g.snapshot = f.snapshot /\ g.newXrefs = f.newXrefs
      BY Zenon, <1>1, <2>1, <2>3 DEF RebuildFrame, Frame
    <2>5. stack' = <<c, g>> \o Tail(stack)  BY <1>5
    <2> HIDE DEF c, g
    <2>6. RebuildSound(g, xrefs)
      <3>1. g.todo \subseteq DOMAIN g.snapshot /\ g.k \in DOMAIN g.snapshot  BY <1>4, <2>4
      <3>2. Keeps(g.snapshot) /\ Follows(xrefs, g.snapshot) /\ Follows(g.newXrefs, g.snapshot)  BY Zenon, <1>4, <2>4
      <3>3. \A m \in Nums : Firm(m) =>
              /\ m \in DOMAIN g.newXrefs => g.newXrefs[m] = doc.xrefs[m]
              /\ m \in DOMAIN g.newXrefs \cup g.todo \/ (g.pc = "looked" /\ g.k = m)
        BY Zenon, <1>4, <2>4
      <3> QED  BY <2>4, <3>1, <3>2, <3>3 DEF RebuildSound
    <2>7. CallSound(c, xrefs) /\ CallSound(g, xrefs) /\ MadeBy(c, g)  BY Zenon, <2>2, <2>4, <2>6 DEF CallSound, MadeBy
    <2>8. c \notin RebuildFrame  BY Zenon, <2>2, Kinds
    <2>9. stack[1] \in RebuildFrame /\ g.snapshot = stack[1].snapshot  BY Zenon, <1>1, <2>4
    <2> HIDE DEF f
    <2> QED  BY Zenon, <1>1, <1>2, <1>5, <2>2, <2>4, <2>5, <2>7, <2>8, <2>9, AfterCall
  <1>6. ASSUME f.todo = {}, xrefs' = f.newXrefs, Return(Value(Null))
        PROVE  After
    <2> DEFINE y == f.newXrefs
               t == Tail(stack)
    <2>1. CallsSound(stack, xrefs, asked.n) /\ CacheSound(ObjCache) /\ StreamsSound(objstms) /\ stack \in Seq(Frame)
      BY Zenon DEF Before, SoundAt
    <2>2. CallsSound(t, y, asked.n)  BY Zenon, <1>1, <1>4, <2>1, TableReplaced
    <2>3. y \in Table /\ Keeps(y)  BY Zenon, <1>3, <1>4, <1>6 DEF Keeps
    <2>4. stack[2] \in LookupFrame /\ stack[2].pc = "rebuilt" /\ ~Firm(stack[2].n)  BY Zenon, <1>1, Kinds DEF MadeBy
    <2>5. stack[2] \notin ParseFrame /\ stack[2] \notin ViaOSFrame /\ stack[2] \notin RebuildFrame  BY Zenon, <2>4, Kinds
    <2>6. Received(stack[2], y, Value(Null))  BY Zenon, <2>4, <2>5 DEF Received
    <2>7. Expected(t, y, asked.n, Value(Null))  BY Zenon, <1>1, <2>5, <2>6 DEF Expected
    <2>8. JustRebuilt(t, Value(Null))  BY Zenon, <1>1, <2>4 DEF JustRebuilt, Value
    <2>9. stack' = t /\ ret' = Value(Null) /\ xrefs' = y  BY Zenon, <1>6 DEF Return
    <2> HIDE DEF y, t
    <2>10. SoundAt(y, ObjCache, objstms, t, Value(Null), asked.n)
      BY Zenon, <1>1, <2>1, <2>2, <2>3, <2>7, <2>8 DEF SoundAt
    <2> QED  BY Zenon, <1>1, <1>2, <2>9, <2>10 DEF After, t
  <1> QED  BY ZenonT(30), <1>5, <1>6 DEF RebuildNext

\* The entry that was looked up is filed under the number of its object; an object of
\* number 0 ends the rebuild.
LEMMA CompressedRebuildLooked ==
    ASSUME Before, RebuildLooked
    PROVE  After
  <1> DEFINE f == Head(stack)
             k == f.k
             num == ret.obj.num
             e == f.snapshot[k]
             g == [f EXCEPT !.newXrefs = Renumber(f, ret.obj), !.pc = "next"]
             y == Put(f.newXrefs, num, e)
  <1>1. /\ stack # <<>> /\ f = stack[1] /\ f \in RebuildFrame /\ f.pc = "looked" /\ Len(stack) > 1
        /\ RebuildSound(f, xrefs) /\ MadeBy(f, stack[2]) /\ CacheCurrent(ObjCache, xrefs)
        /\ Received(f, xrefs, ret)
    BY Runs DEF RebuildLooked
  <1>2. UNCHANGED <<xrefs, ObjCache, objstms, asked>> /\ ret.st = "ok"  BY Zenon DEF RebuildLooked
  <1>3. doc \in Document /\ StreamsSound(objstms) /\ CacheSound(ObjCache)  BY Zenon DEF Before, SoundAt
  <1>4. CASE num = 0
    <2>1. Return(Failure)  BY Zenon, <1>4 DEF RebuildLooked
    <2>2. stack[2] \in LookupFrame /\ stack[2].pc = "rebuilt" /\ ~Firm(stack[2].n)  BY Zenon, <1>1, Kinds DEF MadeBy
    <2>3. Received(stack[2], xrefs, Failure)  BY Zenon, <2>2, Kinds DEF Received
    <2>4. StreamsSound(objstms')  BY Zenon, <1>2, <1>3
    <2> QED  BY Zenon, <1>1, <1>2, <2>1, <2>2, <2>3, <2>4, AfterReturn
  <1>5. CASE num # 0
    <2>1. Returned(xrefs, k, ret)  BY Zenon, <1>1, Kinds DEF Received
    <2>2. ret = Value(ret.obj) /\ Proper(ret.obj) /\ Gives(xrefs, k, ret.obj)  BY <1>2, <2>1 DEF Returned, Failure
    <2>3. num \in Nums  BY Zenon, <1>5, <2>2 DEF Proper, Object
    <2>4. f.todo \subseteq Nums /\ f.snapshot \in Table /\ f.newXrefs \in Table /\ k \in Nums  BY Zenon, <1>1 DEF RebuildFrame
    <2>5. k \in DOMAIN f.snapshot /\ f.todo \subseteq DOMAIN f.snapshot  BY Zenon, <1>1 DEF RebuildSound
    <2>6. e \in XrefEntry  BY Zenon, <2>4, <2>5 DEF Table
    <2>7. DOMAIN y = DOMAIN f.newXrefs \cup {num}
          /\ \A m \in DOMAIN y : y[m] = IF m = num THEN e ELSE f.newXrefs[m]
      BY Zenon DEF Put
    <2>8. y \in Table
      <3>1. DOMAIN f.newXrefs \subseteq Nums /\ \A m \in DOMAIN f.newXrefs : f.newXrefs[m] \in XrefEntry
        BY Zenon, <2>4 DEF Table
      <3>2. DOMAIN f.newXrefs \cup {num} \in SUBSET Nums  BY Zenon, <2>3, <3>1
      <3>3. y \in [DOMAIN f.newXrefs \cup {num} -> XrefEntry]  BY Zenon, <2>6, <3>1 DEF Put
      <3> QED  BY Zenon, <3>2, <3>3 DEF Table
    <2>9. num = k \/ Filed(num, e)
      <3> SUFFICES ASSUME num # k PROVE Filed(num, e)  BY Zenon
      <3>1. k \in DOMAIN xrefs /\ Filed(num, xrefs[k])  BY Zenon, <1>5, <2>2 DEF Gives
      <3>2. ~Filed(k, xrefs[k])  BY Zenon, <3>1 DEF Filed
      <3>3. xrefs[k] = e  BY Zenon, <1>1, <3>1, <3>2 DEF RebuildSound, Follows
      <3> QED  BY Zenon, <3>1, <3>3
    <2>10. Keeps(f.snapshot) /\ Follows(xrefs, f.snapshot) /\ Follows(f.newXrefs, f.snapshot)
      BY Zenon, <1>1 DEF RebuildSound
    <2>11. Renumber(f, ret.obj) = y  BY DEF Renumber
    <2> HIDE DEF y
    <2>12. /\ g \in RebuildFrame /\ g \in Frame /\ g.pc = "next" /\ g.todo = f.todo
           /\ g.snapshot = f.snapshot /\ g.newXrefs = y
      BY Zenon, <1>1, <2>8, <2>11 DEF RebuildFrame, Frame
    <2>13. Become(g)  BY <1>5 DEF RebuildLooked
    <2> HIDE DEF g
    <2>14. Follows(y, f.snapshot)
      <3> SUFFICES ASSUME NEW m \in DOMAIN y
                   PROVE  Filed(m, y[m]) \/ (m \in DOMAIN f.snapshot /\ y[m] = f.snapshot[m])
        BY DEF Follows
      <3>1. CASE m = num  BY <2>5, <2>7, <2>9, <3>1
      <3>2. CASE m # num  BY <2>7, <2>10, <3>2 DEF Follows
      <3> QED  BY <3>1, <3>2
    <2>15. ASSUME NEW m \in Nums, Firm(m)
           PROVE  /\ m \in DOMAIN y => y[m] = doc.xrefs[m]
                  /\ m \in DOMAIN y \cup f.todo
      <3>1. /\ m \in DOMAIN f.newXrefs => f.newXrefs[m] = doc.xrefs[m]
            /\ m \in DOMAIN f.newXrefs \cup f.todo \/ m = k
        BY Zenon, <1>1, <2>15 DEF RebuildSound
      <3>2. m = num => e = doc.xrefs[m]
        <4>1. CASE num = k  BY Zenon, <2>10, <2>15, <4>1 DEF Keeps
        <4>2. CASE num # k
          <5> HAVE m = num
          <5>1. Filed(m, e)  BY Zenon, <2>9, <4>2
          <5> HIDE DEF e, num, k
          <5> QED  BY Zenon, <1>3, <2>6, <2>15, <5>1, FiledRight
        <4> QED  BY Zenon, <4>1, <4>2
      <3>3. m = k => m = num
        <4> HAVE m = k
        <4>1. ret = Value(Due(m))  BY Zenon, <2>1, <2>15 DEF Returned
        <4>2. Due(m).num = m  BY Zenon, <1>3, <2>15, DueFacts
        <4> QED  BY Zenon, <4>1, <4>2 DEF Value
      <3> QED  BY Zenon, <2>7, <3>1, <3>2, <3>3
    <2>16. RebuildSound(g, xrefs)
      <3>1. g.pc # "looked"  BY <2>12
      <3> QED  BY Zenon, <2>5, <2>10, <2>12, <2>14, <2>15, <3>1 DEF RebuildSound
    <2>17. CallSound(g, xrefs)  BY Zenon, <2>16 DEF CallSound
    <2>18. CacheSound(ObjCache') /\ CacheCurrent(ObjCache', xrefs)  BY Zenon, <1>1, <1>2, <1>3
    <2>19. stack[1] \in RebuildFrame /\ g.snapshot = stack[1].snapshot  BY Zenon, <1>1, <2>12
    <2> QED  BY Zenon, <1>1, <1>2, <2>12, <2>13, <2>17, <2>18, <2>19, AfterBecome
  <1> QED  BY Zenon, <1>4, <1>5

\* The client asks.
LEMMA CompressedRequest ==
    ASSUME Before, Request
    PROVE  After
  <1>1. PICK n \in Nums, b \in BOOLEAN :
          asked' = [n |-> n, viaReference |-> b] /\ stack' = <<Lookup(n, TRUE)>>
    BY Zenon, ClientsAssumption DEF Request
  <1> DEFINE f == Lookup(n, TRUE)
             t == <<f>>
  <1>2. stack = <<>> /\ ret = Nothing /\ UNCHANGED <<xrefs, ObjCache, objstms, ret>>  BY DEF Request
  <1>3. f \in LookupFrame /\ f \in Frame /\ f.n = n /\ f.pc = "start"  BY DEF Lookup, LookupFrame, Frame
  <1>4. asked'.n = n /\ stack' = t  BY <1>1
  <1> HIDE DEF f
  <1>5. t \in Seq(Frame) /\ t # <<>> /\ Len(t) = 1 /\ DOMAIN t = {1} /\ t[1] = f  BY <1>3
  <1> HIDE DEF t
  <1>6. CallSound(f, xrefs)  BY <1>3 DEF CallSound
  <1>7. CallsSound(t, xrefs, n)
    <2>1. \A i \in DOMAIN t : i = 1 /\ i + 1 \notin DOMAIN t  BY <1>5
    <2>2. \A i, j \in DOMAIN t : ~(i < j)  BY <1>5
    <2> QED  BY <1>3, <1>5, <1>6, <2>1, <2>2 DEF CallsSound
  <1>8. Expected(t, xrefs, n, Nothing)  BY Zenon, <1>3, <1>5, NothingExpected
  <1>9. /\ xrefs \in Table /\ Keeps(xrefs) /\ CacheSound(ObjCache) /\ StreamsSound(objstms)
        /\ CacheCurrent(ObjCache, xrefs)
    BY Zenon, <1>2 DEF Before, SoundAt, JustRebuilt
  <1>10. SoundAt(xrefs, ObjCache, objstms, t, Nothing, n)  BY Zenon, <1>7, <1>8, <1>9 DEF SoundAt
  <1> QED  BY Zenon, <1>2, <1>4, <1>5, <1>10 DEF After

\* The client is answered, and the answer to a reference is cached.
LEMMA CompressedAnswer ==
    ASSUME Before, Answer
    PROVE  /\ After /\ asked.n \in Nums /\ ret \in [st : {"ok", "error"}, obj : Object]
           /\ Compressed(asked.n) => ret = Value(Due(asked.n))
  <1>1. /\ stack = <<>> /\ ret # Nothing /\ ret' = Nothing /\ UNCHANGED <<xrefs, objstms, stack, asked>>
        /\ \/ ObjCache' = ObjCache
           \/ ret.st = "ok" /\ ObjCache' = Put(ObjCache, asked.n, ret.obj)
    BY Zenon DEF Answer
  <1>2. /\ xrefs \in Table /\ Keeps(xrefs) /\ CacheSound(ObjCache) /\ StreamsSound(objstms)
        /\ CacheCurrent(ObjCache, xrefs) /\ CallsSound(stack, xrefs, asked.n) /\ asked.n \in Nums
        /\ Returned(xrefs, asked.n, ret) /\ stack \in Seq(Frame)
    BY Zenon, <1>1 DEF Before, SoundAt, JustRebuilt, Expected
  <1>3. CacheSound(ObjCache') /\ CacheCurrent(ObjCache', xrefs)
    <2>1. CASE ObjCache' = ObjCache  BY Zenon, <1>2, <2>1
    <2>2. CASE ret.st = "ok" /\ ObjCache' = Put(ObjCache, asked.n, ret.obj)
      <3>1. ret = Value(ret.obj)  BY <1>2, <2>2 DEF Returned, Failure
      <3> QED  BY Zenon, <1>2, <2>2, <3>1, CachePut
    <2> QED  BY Zenon, <1>1, <2>1, <2>2
  <1>4. Expected(<<>>, xrefs, asked.n, Nothing)  BY Zenon DEF Expected
  <1>5. SoundAt(xrefs, ObjCache', objstms, <<>>, Nothing, asked.n)  BY Zenon, <1>1, <1>2, <1>3, <1>4 DEF SoundAt
  <1>6. ret \in [st : {"ok", "error"}, obj : Object]
    BY <1>2 DEF Returned, Failure, Value, Null, Object, Proper
  <1>7. Compressed(asked.n) => ret = Value(Due(asked.n))  BY Zenon, <1>2 DEF Returned, Firm
  <1> QED  BY Zenon, <1>1, <1>2, <1>5, <1>6, <1>7 DEF After

-----------------------------------------------------------------------------
\* The initial states satisfy the invariant.
LEMMA CompressedInit ==
    Init => SInv
  <1> SUFFICES ASSUME Init PROVE SInv  OBVIOUS
  <1>1. /\ doc \in Documents /\ doc \in Document /\ xrefs = doc.xrefs /\ stack = <<>> /\ ret = Nothing
        /\ DOMAIN ObjCache = {} /\ DOMAIN objstms = {} /\ answers = <<>> /\ repairsAttempted = FALSE
    BY DocumentsAssumption DEF Init
  <1>2. xrefs \in Table  BY <1>1 DEF Document
  <1>3. Keeps(xrefs)  BY ZenonT(30), <1>1 DEF Keeps, Firm, Compressed, Healthy
  <1>4. CacheSound(ObjCache) /\ StreamsSound(objstms) /\ CacheCurrent(ObjCache, xrefs)
    BY Zenon, <1>1 DEF CacheSound, StreamsSound, CacheCurrent
  <1>5. CallsSound(stack, xrefs, asked.n)  BY <1>1 DEF CallsSound
  <1>6. Expected(stack, xrefs, asked.n, ret)  BY Zenon, <1>1 DEF Expected
  <1>7. Sound  BY Zenon, <1>1, <1>2, <1>3, <1>4, <1>5, <1>6 DEF Sound, SoundAt
  <1>8. AnswersSound(answers) /\ answers \in Seq([n : Nums, ret : [st : {"ok", "error"}, obj : Object]])
    BY <1>1 DEF AnswersSound
  <1>9. stack \in Seq(Frame)  BY <1>1
  <1> QED  BY Zenon, <1>1, <1>7, <1>8, <1>9 DEF SInv

\* Every step keeps the invariant.
LEMMA CompressedStep ==
    ASSUME DirectLengths, SInv, [Next]_vars
    PROVE  SInv'
  <1>1. doc' = doc /\ (~repairsAttempted' => ~repairsAttempted) /\ repairsAttempted' \in BOOLEAN
    BY Zenon DEF SInv, Next, Step, vars, Request, Answer, LookupStart, LookupParseFailed, LookupParsed, LookupWrongNumber,
       LookupRebuilt, LookupFromStream, ParseStart, ParseLength, ViaOSStart, ViaOSLoaded, RebuildNext, RebuildLooked,
       RebuildFailed, TopDownRepair
  <1>2. SUFFICES ASSUME ~repairsAttempted'
                 PROVE  /\ After /\ AnswersSound(answers')
                        /\ answers' \in Seq([n : Nums, ret : [st : {"ok", "error"}, obj : Object]])
    <2> DEFINE A == Seq([n : Nums, ret : [st : {"ok", "error"}, obj : Object]])
    <2>1. PICK x, c, os, st, r, a, as :
            /\ xrefs' = x /\ ObjCache' = c /\ objstms' = os /\ stack' = st /\ ret' = r /\ asked'.n = a /\ answers' = as
      OBVIOUS
    <2>2. /\ SoundAt(x, c, os, st, r, a)' <=> SoundAt(x, c, os, st, r, a)
          /\ AnswersSound(as)' <=> AnswersSound(as)
      BY Zenon, <1>1, DocumentStays
    <2>3. After <=> st \in Seq(Frame) /\ SoundAt(x, c, os, st, r, a)  BY <2>1 DEF After
    <2>4. Sound' <=> SoundAt(x, c, os, st, r, a)'  BY <2>1 DEF Sound
    <2>5. AnswersSound(answers)' <=> AnswersSound(as)'  BY <2>1
    <2>6. doc' \in Documents  BY <1>1 DEF SInv
    <2> QED  BY Zenon, <1>1, <2>1, <2>2, <2>3, <2>4, <2>5, <2>6 DEF SInv
  <1>3. ~repairsAttempted  BY Zenon, <1>1, <1>2
  <1>4. /\ Before /\ doc \in Documents /\ AnswersSound(answers)
        /\ answers \in Seq([n : Nums, ret : [st : {"ok", "error"}, obj : Object]])
    BY Zenon, <1>3, DocumentsAssumption DEF SInv, Sound, Before
  <1>5. CASE Request  BY ZenonT(30), <1>4, <1>5, CompressedRequest DEF Request
  <1>6. CASE Answer
    <2> DEFINE b == [n |-> asked.n, ret |-> ret]
    <2>1. /\ After /\ asked.n \in Nums /\ ret \in [st : {"ok", "error"}, obj : Object]
          /\ Compressed(asked.n) => ret = Value(Due(asked.n))
      BY <1>4, <1>6, CompressedAnswer
    <2>2. answers' = Append(answers, b)  BY <1>6 DEF Answer
    <2>3. b \in [n : Nums, ret : [st : {"ok", "error"}, obj : Object]] /\ b.n = asked.n /\ b.ret = ret  BY <2>1
    <2> HIDE DEF b
    <2>4. answers' \in Seq([n : Nums, ret : [st : {"ok", "error"}, obj : Object]])
      BY <1>4, <2>2, <2>3, AppendProperties
    <2>5. \A i \in DOMAIN answers' : (i \in DOMAIN answers /\ answers'[i] = answers[i]) \/ answers'[i] = b
      BY <1>4, <2>2, <2>3, AppendProperties, LenProperties
    <2>6. AnswersSound(answers')
      <3> SUFFICES ASSUME NEW i \in DOMAIN answers', Compressed(answers'[i].n)
                   PROVE  answers'[i].ret = Value(Due(answers'[i].n))
        BY Zenon DEF AnswersSound
      <3>1. CASE answers'[i] = b  BY Zenon, <2>1, <2>3, <3>1
      <3>2. CASE i \in DOMAIN answers /\ answers'[i] = answers[i]  BY Zenon, <1>4, <3>2 DEF AnswersSound
      <3> QED  BY Zenon, <2>5, <3>1, <3>2
    <2> QED  BY <2>1, <2>4, <2>6
  <1>7. CASE LookupStart  BY Zenon, <1>4, <1>7, CompressedLookupStart DEF LookupStart
  <1>8. CASE LookupParseFailed  BY ZenonT(30), <1>2, <1>4, <1>8, CompressedParseFailed DEF LookupParseFailed
  <1>9. CASE LookupParsed  BY <1>4, <1>9, CompressedParsed DEF LookupParsed
  <1>10. CASE LookupWrongNumber  BY <1>4, <1>10, CompressedWrongNumber DEF LookupWrongNumber
  <1>11. CASE LookupRebuilt  BY Zenon, <1>4, <1>11, CompressedRebuilt DEF LookupRebuilt
  <1>12. CASE LookupFromStream  BY <1>4, <1>12, CompressedFromStream DEF LookupFromStream
  <1>13. CASE ParseStart  BY Zenon, <1>4, <1>13, CompressedParse DEF ParseStart
  <1>14. CASE ParseLength  BY Zenon, <1>4, <1>14, CompressedNoLength
  <1>15. CASE ViaOSStart  BY ZenonT(30), <1>4, <1>15, CompressedViaOS DEF ViaOSStart
  <1>16. CASE ViaOSLoaded  BY Zenon, <1>4, <1>16, CompressedLoaded DEF ViaOSLoaded
  <1>17. CASE RebuildNext  BY Zenon, <1>4, <1>17, CompressedRebuildNext DEF RebuildNext
  <1>18. CASE RebuildLooked  BY Zenon, <1>4, <1>18, CompressedRebuildLooked DEF RebuildLooked
  <1>19. CASE RebuildFailed  BY Zenon, <1>2, <1>3, <1>19 DEF RebuildFailed, TopDownRepair
  <1>20. CASE UNCHANGED vars
    <2>1. UNCHANGED <<xrefs, ObjCache, objstms, stack, ret, asked, answers>>  BY Zenon, <1>20 DEF vars
    <2>2. After  BY <1>4, <2>1 DEF Before, After
    <2> QED  BY Zenon, <1>4, <2>1, <2>2
  <1> QED
    BY Zenon, <1>5, <1>6, <1>7, <1>8, <1>9, <1>10, <1>11, <1>12, <1>13, <1>14, <1>15, <1>16, <1>17, <1>18, <1>19, <1>20
    DEF Next, Step

\* In documents whose streams have direct lengths, whatever the entries of the table are
\* and however often rebuildXrefTable replaces it and empties the cache, a member of a
\* healthy object stream that is nowhere else in the file is found by every lookup of
\* it, until repairRebuildXrefsTopDown gives the compressed objects up.
THEOREM CompressedFoundAlways ==
    ASSUME DirectLengths
    PROVE  Spec => []CompressedFound
  <1>1. SInv /\ [Next]_vars => SInv'  BY Zenon, CompressedStep
  <1>2. SInv => CompressedFound
    <2> SUFFICES ASSUME SInv, ~repairsAttempted, NEW i \in DOMAIN answers, Compressed(answers[i].n)
                 PROVE  LET n == answers[i].n
                        IN  answers[i].ret = Value([num |-> n, at |-> 0, kind |-> doc.body[StreamAt(n)].members[n]])
      BY Zenon DEF CompressedFound, Compressed, StreamOf, StreamAt
    <2>1. answers[i].ret = Value(Due(answers[i].n))  BY Zenon DEF SInv, AnswersSound
    <2>2. doc.xrefs[answers[i].n].XType # "table"  BY DEF Compressed
    <2> QED  BY Zenon, <2>1, <2>2 DEF Due
  <1> QED  BY <1>1, <1>2, CompressedInit, PTL DEF Spec
=============================================================================

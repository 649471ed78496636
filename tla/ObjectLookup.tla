---------------------------- MODULE ObjectLookup ----------------------------
(***************************************************************************)
(* Looking objects up by number, with the repairs that a wrong cross-      *)
(* reference table sets off: LookupByNumber, lookupByNumber,               *)
(* lookupObjectViaOS and Resolve of core/crossrefs.go, ParseIndirectObject,*)
(* traceStreamLength and resolveReference of core/parser.go, and           *)
(* rebuildXrefTable and repairRebuildXrefsTopDown of core/repairs.go.      *)
(*                                                                         *)
(* These functions call each other recursively and replace the table, the  *)
(* cache and the flags while callers further up the stack still iterate    *)
(* over what they read before.  The stack of running calls is therefore a  *)
(* variable, and one action is the piece of one function between two       *)
(* calls.  The document is not encrypted.                                  *)
(***************************************************************************)
EXTENDS Integers, Sequences, FiniteSets

CONSTANTS
    Nums,        \* object numbers
    Offs,        \* offsets at which an entry of the table may point
    Documents,   \* the documents that may be open
    Clients,     \* how the client asks: by resolveReference (TRUE), LookupByNumber (FALSE)
    Direct,      \* the length of a stream whose Length is a direct integer
    MaxCalls,    \* bound: how many lookups the client makes
    MaxDepth     \* bound: the deepest stack that is explored

ASSUME NumsAssumption == Nums \subseteq Nat \ {0} /\ Offs \subseteq Nat \ {0}
ASSUME DirectAssumption == Direct \notin Nums
ASSUME ClientsAssumption == Clients \subseteq BOOLEAN
ASSUME BoundsAssumption == MaxCalls \in Nat /\ MaxDepth \in Nat \ {0}

\* What stands at an offset: an indirect object (an integer, a reference, a
\* stream with its Length, an object stream with its members, anything else),
\* an object that cannot be read past its signature, or no object at all.
Member == {"int", "other"}
Body == [num : Nums, gen : Nat, kind : {"int", "ref", "other", "stream", "objstm", "broken", "junk"},
         len : Nums \cup {Direct},
         members : UNION {[S -> Member] : S \in SUBSET Nums}]

\* An entry of the table: the object is at an offset, or in an object stream.
XrefEntry == [XType : {"table"}, at : Offs] \cup [XType : {"objstm"}, at : Nums]

Table == UNION {[S -> XrefEntry] : S \in SUBSET Nums}

\* A document: its bodies and the table that loadXrefs has made for it.
Document == [body : [Offs -> Body], xrefs : Table]

ASSUME DocumentsAssumption == Documents \subseteq Document

\* A parsed object: its number as read, its kind and the offset it was read at.
\* A member of an object stream has the number it was asked for by.
Null == [num |-> 0, kind |-> "null", at |-> 0]
Object == [num : Nums \cup {0}, kind : {"int", "ref", "other", "stream", "objstm", "null"},
           at : Offs \cup {0}]

VARIABLES
    doc,               \* the open document; never written
    xrefs,             \* parser.xrefs.ObjectMap
    ObjCache,          \* parser.ObjCache
    objstms,           \* parser.objstms: the offset tables of decoded object streams
    inProgress,        \* the numbers marked in streamLengthReferenceLookupInProgress
    repairsAttempted,  \* parser.repairsAttempted
    stack,             \* the running calls, innermost first
    ret,               \* what the last call to return has returned
    asked,             \* the client's request
    answers            \* history: the requests and what they were answered

vars == <<doc, xrefs, ObjCache, objstms, inProgress, repairsAttempted, stack, ret, asked, answers>>

Nothing == [st |-> "none", obj |-> Null]
Failure == [st |-> "error", obj |-> Null]
Value(o) == [st |-> "ok", obj |-> o]

\* f with the value of k replaced or added.
Put(f, k, v) == [x \in DOMAIN f \cup {k} |-> IF x = k THEN v ELSE f[x]]

Frame == [fn : {"lookup"}, n : Nums, rep : BOOLEAN, pc : {"start", "parsed", "rebuilt", "os"}]
         \cup [fn : {"parse"}, off : Offs, pc : {"start", "length"}]
         \cup [fn : {"viaOS"}, s : Nums, n : Nums, pc : {"start", "so"}]
         \cup [fn : {"rebuild"}, k : Nums, pc : {"next", "looked"}, todo : SUBSET Nums,
               snapshot : Table, newXrefs : Table]

TypeOK ==
    /\ xrefs \in Table
    /\ DOMAIN ObjCache \subseteq Nums /\ \A n \in DOMAIN ObjCache : ObjCache[n] \in Object
    /\ DOMAIN objstms \subseteq Nums
    /\ \A s \in DOMAIN objstms : DOMAIN objstms[s] \subseteq Nums
    /\ inProgress \subseteq Nums
    /\ repairsAttempted \in BOOLEAN
    /\ \A i \in DOMAIN stack : stack[i] \in Frame
    /\ ret.st \in {"none", "ok", "error"} /\ ret.obj \in Object

-----------------------------------------------------------------------------
Init ==
    /\ doc \in Documents
    /\ xrefs = doc.xrefs
    /\ ObjCache = [n \in {} |-> Null] /\ objstms = [n \in {} |-> Null]
    /\ inProgress = {} /\ repairsAttempted = FALSE
    /\ stack = <<>> /\ ret = Nothing
    /\ asked = [n |-> 0, viaReference |-> FALSE] /\ answers = <<>>

Lookup(n, rep) == [fn |-> "lookup", n |-> n, rep |-> rep, pc |-> "start"]
Parse(o) == [fn |-> "parse", off |-> o, pc |-> "start"]
ViaOS(s, n) == [fn |-> "viaOS", s |-> s, n |-> n, pc |-> "start"]

Running(fn, pc) == stack # <<>> /\ Len(stack) < MaxDepth
                   /\ Head(stack).fn = fn /\ Head(stack).pc = pc

\* The running call returns r; it is replaced by f; it calls f and goes on at pc.
Return(r) == stack' = Tail(stack) /\ ret' = r
Become(f) == stack' = <<f>> \o Tail(stack) /\ ret' = Nothing
Call(f, pc) == stack' = <<f, [Head(stack) EXCEPT !.pc = pc]>> \o Tail(stack) /\ ret' = Nothing

\* LookupByNumber, or resolveReference, which puts the answer into the cache.
Request ==
    /\ stack = <<>> /\ ret = Nothing /\ Len(answers) < MaxCalls
    /\ \E n \in Nums, viaReference \in Clients :
         /\ asked' = [n |-> n, viaReference |-> viaReference]
         /\ stack' = <<Lookup(n, TRUE)>>
    /\ UNCHANGED <<doc, xrefs, ObjCache, objstms, inProgress, repairsAttempted, ret, answers>>

Answer ==
    /\ stack = <<>> /\ ret # Nothing
    /\ answers' = Append(answers, [n |-> asked.n, ret |-> ret])
    /\ ObjCache' = IF asked.viaReference /\ ret.st = "ok" THEN Put(ObjCache, asked.n, ret.obj)
                   ELSE ObjCache
    /\ ret' = Nothing
    /\ UNCHANGED <<doc, xrefs, objstms, inProgress, repairsAttempted, stack, asked>>

-----------------------------------------------------------------------------
\* repairRebuildXrefsTopDown: every object signature of the file, in file order;
\* a later one replaces an earlier one only if its generation is higher.  The
\* members of object streams are not found.
TopDownXrefs ==
    LET signed(n) == {o \in Offs : doc.body[o].kind # "junk" /\ doc.body[o].num = n}
        best(n) == CHOOSE o \in signed(n) : \A p \in signed(n) :
                      \/ doc.body[p].gen < doc.body[o].gen
                      \/ doc.body[p].gen = doc.body[o].gen /\ o <= p
    IN  [n \in {m \in Nums : signed(m) # {}} |-> [XType |-> "table", at |-> best(n)]]

\* The repair is tried once in the life of a parser.
TopDownRepair == ~repairsAttempted /\ repairsAttempted' = TRUE /\ xrefs' = TopDownXrefs

-----------------------------------------------------------------------------
\* lookupByNumber, up to its first call.
LookupStart ==
    /\ Running("lookup", "start")
    /\ LET n == Head(stack).n
       IN  \/ n \in DOMAIN ObjCache /\ Return(Value(ObjCache[n]))
           \/ n \notin DOMAIN ObjCache \cup DOMAIN xrefs /\ Return(Value(Null))
           \/ /\ n \in DOMAIN xrefs \ DOMAIN ObjCache
              /\ \/ xrefs[n].XType = "table" /\ Call(Parse(xrefs[n].at), "parsed")
                 \/ /\ xrefs[n].XType = "objstm"
                    /\ IF xrefs[n].at = n \/ xrefs[n].at \notin DOMAIN xrefs THEN Return(Failure)
                       ELSE Call(ViaOS(xrefs[n].at, n), "os")
    /\ UNCHANGED <<doc, xrefs, ObjCache, objstms, inProgress, repairsAttempted, asked, answers>>

\* The entry points at no readable object.
LookupParseFailed ==
    /\ Running("lookup", "parsed") /\ ret.st = "error"
    /\ \/ Head(stack).rep /\ TopDownRepair /\ Become(Lookup(Head(stack).n, FALSE))
       \/ /\ ~Head(stack).rep \/ repairsAttempted
          /\ Return(Failure) /\ UNCHANGED <<xrefs, repairsAttempted>>
    /\ UNCHANGED <<doc, ObjCache, objstms, inProgress, asked, answers>>

\* Variant: any object will do.
WrongNumber_Never(f, o) == FALSE

\* Does the object's number call for a rebuild of the table?
WrongNumber(f, o) == f.rep /\ o.num # f.n

LookupParsed ==
    /\ Running("lookup", "parsed") /\ ret.st = "ok"
    /\ ~WrongNumber(Head(stack), ret.obj)
    /\ ObjCache' = Put(ObjCache, Head(stack).n, ret.obj)
    /\ Return(ret)
    /\ UNCHANGED <<doc, xrefs, objstms, inProgress, repairsAttempted, asked, answers>>

LookupWrongNumber ==
    /\ Running("lookup", "parsed") /\ ret.st = "ok"
    /\ WrongNumber(Head(stack), ret.obj)
    /\ Call([fn |-> "rebuild", k |-> Head(stack).n, pc |-> "next", todo |-> DOMAIN xrefs,
             snapshot |-> xrefs, newXrefs |-> [n \in {} |-> Null]], "rebuilt")
    /\ UNCHANGED <<doc, xrefs, ObjCache, objstms, inProgress, repairsAttempted, asked, answers>>

\* The table has been rebuilt: empty the cache and look again, once.
LookupRebuilt ==
    /\ Running("lookup", "rebuilt")
    /\ \/ ret.st = "error" /\ Return(Failure) /\ UNCHANGED ObjCache
       \/ ret.st = "ok" /\ Become(Lookup(Head(stack).n, FALSE)) /\ ObjCache' = [n \in {} |-> Null]
    /\ UNCHANGED <<doc, xrefs, objstms, inProgress, repairsAttempted, asked, answers>>

LookupFromStream ==
    /\ Running("lookup", "os")
    /\ \/ ret.st = "error" /\ UNCHANGED ObjCache
       \/ ret.st = "ok" /\ ObjCache' = Put(ObjCache, Head(stack).n, ret.obj)
    /\ Return(ret)
    /\ UNCHANGED <<doc, xrefs, objstms, inProgress, repairsAttempted, asked, answers>>

-----------------------------------------------------------------------------
ObjectAt(o) == [num |-> doc.body[o].num, kind |-> doc.body[o].kind, at |-> o]

\* Variant: the marks are not looked at.
LengthBusy_Never(m) == FALSE

\* ParseIndirectObject returns an error.
Unreadable(b) == b.kind \in {"junk", "broken"}

HasLengthReference(b) == b.kind \in {"stream", "objstm"} /\ b.len # Direct

LengthBusy(m) == m \in inProgress

\* ParseIndirectObject, up to the length of a stream.
ParseStart ==
    /\ Running("parse", "start")
    /\ LET o == Head(stack).off
           b == doc.body[o]
       IN  \/ Unreadable(b) /\ Return(Failure) /\ UNCHANGED inProgress
           \/ /\ ~Unreadable(b) /\ ~HasLengthReference(b)
              /\ Return(Value(ObjectAt(o))) /\ UNCHANGED inProgress
           \/ HasLengthReference(b) /\ LengthBusy(b.len) /\ Return(Failure) /\ UNCHANGED inProgress
           \/ /\ HasLengthReference(b) /\ ~LengthBusy(b.len)
              /\ inProgress' = inProgress \cup {b.len} /\ Call(Lookup(b.len, TRUE), "length")
    /\ UNCHANGED <<doc, xrefs, ObjCache, objstms, repairsAttempted, asked, answers>>

\* traceStreamLength after Resolve: a failed lookup and an object that is itself
\* a reference are errors; otherwise the mark is removed, and the length must be
\* an integer.
ParseLength ==
    /\ Running("parse", "length")
    /\ LET o == Head(stack).off
       IN  IF ret.st = "error" \/ ret.obj.kind = "ref"
           THEN Return(Failure) /\ UNCHANGED inProgress
           ELSE /\ inProgress' = inProgress \ {doc.body[o].len}
                /\ Return(IF ret.obj.kind = "int" THEN Value(ObjectAt(o)) ELSE Failure)
    /\ UNCHANGED <<doc, xrefs, ObjCache, objstms, repairsAttempted, asked, answers>>

-----------------------------------------------------------------------------
\* Variant: First is not added to the offsets of the members.
MemberOf_Unshifted(members, n) ==
    IF members = <<>> THEN Failure ELSE Value([num |-> n, at |-> 0, kind |-> "int"])

\* The member n of a decoded stream with these members.  For one that it does
\* not have the offset is 0, where its own table of integers starts.
MemberOf(members, n) ==
    IF members = <<>> THEN Failure
    ELSE Value([num |-> n, at |-> 0, kind |-> IF n \in DOMAIN members THEN members[n] ELSE "int"])

\* lookupObjectViaOS, up to the lookup of the stream.
ViaOSStart ==
    /\ Running("viaOS", "start")
    /\ LET s == Head(stack).s
       IN  \/ s \in DOMAIN objstms /\ Return(MemberOf(objstms[s], Head(stack).n))
           \/ s \notin DOMAIN objstms /\ Call(Lookup(s, TRUE), "so")
    /\ UNCHANGED <<doc, xrefs, ObjCache, objstms, inProgress, repairsAttempted, asked, answers>>

ViaOSLoaded ==
    /\ Running("viaOS", "so")
    /\ IF ret.st = "ok" /\ ret.obj.kind = "objstm"
       THEN LET members == doc.body[ret.obj.at].members
            IN  /\ objstms' = Put(objstms, Head(stack).s, members)
                /\ Return(MemberOf(members, Head(stack).n))
       ELSE Return(Failure) /\ UNCHANGED objstms
    /\ UNCHANGED <<doc, xrefs, ObjCache, inProgress, repairsAttempted, asked, answers>>

-----------------------------------------------------------------------------
\* Variant: only entries with a wrong number are filed.
Renumber_OnlyWrong(f, o) ==
    IF o.num = f.k THEN f.newXrefs ELSE Put(f.newXrefs, o.num, f.snapshot[f.k])

\* The entry looked up is filed under the number that its object really has.
Renumber(f, o) == Put(f.newXrefs, o.num, f.snapshot[f.k])

Rest(f, k) == f.todo \ {k}

\* rebuildXrefTable ranges over the map that the table had when it started, in
\* any order; its end replaces whatever the table has become since.
RebuildNext ==
    /\ Running("rebuild", "next")
    /\ LET f == Head(stack)
       IN  \/ \E k \in f.todo :
                /\ stack' = <<Lookup(k, FALSE),
                              [f EXCEPT !.k = k, !.todo = Rest(f, k), !.pc = "looked"]>>
                            \o Tail(stack)
                /\ ret' = Nothing /\ UNCHANGED xrefs
           \/ f.todo = {} /\ xrefs' = f.newXrefs /\ Return(Value(Null))
    /\ UNCHANGED <<doc, ObjCache, objstms, inProgress, repairsAttempted, asked, answers>>

RebuildLooked ==
    /\ Running("rebuild", "looked") /\ ret.st = "ok"
    /\ LET f == Head(stack)
       IN  IF ret.obj.num = 0 THEN Return(Failure)
           ELSE Become([f EXCEPT !.newXrefs = Renumber(f, ret.obj), !.pc = "next"])
    /\ UNCHANGED <<doc, xrefs, ObjCache, objstms, inProgress, repairsAttempted, asked, answers>>

\* One entry cannot be looked up: the table is repaired top down instead.
RebuildFailed ==
    /\ Running("rebuild", "looked") /\ ret.st = "error"
    /\ \/ TopDownRepair /\ Return(Value(Null))
       \/ repairsAttempted /\ Return(Failure) /\ UNCHANGED <<xrefs, repairsAttempted>>
    /\ UNCHANGED <<doc, ObjCache, objstms, inProgress, asked, answers>>

Step == \/ LookupStart \/ LookupParseFailed \/ LookupParsed \/ LookupWrongNumber
        \/ LookupRebuilt \/ LookupFromStream \/ ParseStart \/ ParseLength
        \/ ViaOSStart \/ ViaOSLoaded \/ RebuildNext \/ RebuildLooked \/ RebuildFailed
        \/ Answer

Next == Request \/ Step

Spec == Init /\ [][Next]_vars /\ WF_vars(Step)

-----------------------------------------------------------------------------
Uncompressed == \A n \in DOMAIN doc.xrefs : doc.xrefs[n].XType = "table"

\* Without compressed objects the bound on the stack cuts nothing off: no lookup
\* recurses without end.
DepthBounded == Uncompressed => Len(stack) < MaxDepth

\* The check of the object number (lookupByNumber) and the renumbering of the
\* table (rebuildXrefTable) do their work: a lookup that finds an object finds
\* one with the number asked for.
NumberMatches ==
    \A i \in DOMAIN answers :
        (answers[i].ret.st = "ok" /\ answers[i].ret.obj # Null) =>
            answers[i].ret.obj.num = answers[i].n

\* An object that its entry points at, that is readable, and whose number no
\* other object has.
Healthy(n) ==
    /\ n \in DOMAIN doc.xrefs /\ doc.xrefs[n].XType = "table"
    /\ LET o == doc.xrefs[n].at
       IN  /\ doc.body[o].num = n /\ doc.body[o].len = Direct
           /\ doc.body[o].kind \notin {"junk", "broken"}
           /\ \A p \in Offs \ {o} : doc.body[p].num = n => doc.body[p].kind = "junk"

\* Whatever else is damaged, and whatever repairs and earlier lookups have done
\* to table and cache, a healthy object is found by every lookup of it.
HealthyFound ==
    \A i \in DOMAIN answers :
        Healthy(answers[i].n) =>
            answers[i].ret = Value(ObjectAt(doc.xrefs[answers[i].n].at))

\* The same for a member of a healthy object stream that is nowhere else in the
\* file, as long as no top-down repair has given up the compressed objects.
CompressedFound ==
    \A i \in DOMAIN answers :
        LET n == answers[i].n
            s == doc.xrefs[n].at
            b == doc.body[doc.xrefs[s].at]
        IN  (/\ ~repairsAttempted
             /\ n \in DOMAIN doc.xrefs /\ doc.xrefs[n].XType = "objstm"
             /\ Healthy(s) /\ b.kind = "objstm" /\ n \in DOMAIN b.members
             /\ \A o \in Offs : doc.body[o].num = n => doc.body[o].kind = "junk")
            => answers[i].ret = Value([num |-> n, at |-> 0, kind |-> b.members[n]])

\* Every lookup in a document without compressed objects returns.
LookupReturns == (stack # <<>> /\ Uncompressed) ~> (stack = <<>>)
=============================================================================

----------------------------- MODULE PaintDicts -----------------------------
(***************************************************************************)
(* Functions, shadings and patterns as models of dictionaries              *)
(* (model/functions.go, model/shading.go, model/pattern.go): a loader reads *)
(* the entries of a dictionary into fields, and ToPdfObject writes the      *)
(* fields, in place into the dictionary of a shading or a pattern and into  *)
(* a new dictionary for a function.                                         *)
(*                                                                         *)
(* Objects are numbered.  One is an indirect object [o |-> "ind", v] or a   *)
(* stream [o |-> "stream", d, data].  A value is [t |-> "ref", id],         *)
(* [t |-> "arr", e], [t |-> "dict", d], or a number, name or Boolean        *)
(* [t, x].  The data of a stream are what they decode to and the filter     *)
(* entries they were encoded under.                                         *)
(***************************************************************************)
EXTENDS Naturals, Sequences, FiniteSets, SequencesExt

CONSTANTS
    Docs,       \* files: functions from object numbers to objects
    MaxLoads,   \* models made of one file
    MaxWrites,  \* calls of ToPdfObject and SetContentStream
    Contents,   \* content streams a caller sets
    Encoders,   \* encoders a caller sets them with: filter entries
    NotYet      \* no file is open

VARIABLES
    doc,     \* the file as it was opened
    store,   \* its objects as they are
    models,  \* the models loaded: records [class, at, f]
    edited,  \* fields the caller has changed: records [model, field, v]
    written, \* the models written since the last change
    set,     \* contents that SetContentStream was given, per object
    writes   \* calls made

vars == <<doc, store, models, edited, written, set, writes>>

-----------------------------------------------------------------------------
(* Values.                                                                  *)

Absent == [t |-> "absent"]

Empty == [k \in {} |-> Absent]

Get(d, k) == IF k \in DOMAIN d THEN d[k] ELSE Absent

Put(d, k, v) == [j \in DOMAIN d \cup {k} |-> IF j = k THEN v ELSE d[j]]

\* The dictionary d with the entries of e set.
Merge(d, e) == [k \in DOMAIN d \cup DOMAIN e |-> IF k \in DOMAIN e THEN e[k] ELSE d[k]]

Integer(i) == [t |-> "int", x |-> i]

Floats(v) == [v EXCEPT !.e = [i \in DOMAIN v.e |-> [t |-> "num", x |-> v.e[i].x]]]

\* TraceToDirectObject.
Trace(s, v) ==
    IF v.t = "ref" THEN IF s[v.id].o = "ind" THEN s[v.id].v ELSE [t |-> "stream", id |-> v.id]
    ELSE v

\* The dictionary of a container: the dictionary itself, or that of the object
\* it refers to.
DictOf(s, at) ==
    CASE at.t = "dict" -> at.d
      [] at.t = "ref" /\ s[at.id].o = "stream" -> s[at.id].d
      [] OTHER -> s[at.id].v.d

HasDict(s, at) ==
    \/ at.t = "dict"
    \/ at.t = "ref" /\ s[at.id].o = "stream"
    \/ at.t = "ref" /\ s[at.id].o = "ind" /\ s[at.id].v.t = "dict"

WithDict(s, at, d) ==
    IF at.t # "ref" THEN s
    ELSE [s EXCEPT ![at.id] = IF @.o = "stream" THEN [@ EXCEPT !.d = d]
                              ELSE [@ EXCEPT !.v = [t |-> "dict", d |-> d]]]

-----------------------------------------------------------------------------
(* An entry a loader reads: the key, the field it goes to ("" when a later  *)
(* entry overwrites the field), the types it may have, whether it must be   *)
(* there, whether a wrong type is an error, whether references are followed, *)
(* and the lengths an array may have ({}: any).                             *)

Entry(key, field, types, need, strict, trace, lengths) ==
    [key |-> key, field |-> field, types |-> types, need |-> need, strict |-> strict,
     trace |-> trace, lengths |-> lengths]

\* A required entry that must be direct, and an optional one that need not be.
Direct(key, t) == Entry(key, key, {t}, TRUE, TRUE, FALSE, {})

Optional(key, t) == Entry(key, key, {t}, FALSE, TRUE, TRUE, {})

Value(s, d, e) == IF e.trace THEN Trace(s, Get(d, e.key)) ELSE Get(d, e.key)

Fits(v, e) == v.t \in e.types /\ (e.lengths # {} => Len(v.e) \in e.lengths)

Takes(v, e) == v.t \in e.types \/ e.strict \/ e.need => Fits(v, e)

Accepted(s, d, e) == IF Get(d, e.key) = Absent THEN ~e.need ELSE Takes(Value(s, d, e), e)

Acceptable(s, d, E) == \A e \in E : Accepted(s, d, e)

Fields(s, d, E) ==
    LET kept == {e \in E : e.field # "" /\ Value(s, d, e).t \in e.types}
    IN  [f \in {e.field : e \in kept} |-> Value(s, d, CHOOSE e \in kept : e.field = f)]

-----------------------------------------------------------------------------
(* Functions.  A model is [class, at, f]: at is the container, an absent    *)
(* value when a function of type 2 or 3 has none.                           *)

Failed == [class |-> "failed", at |-> Absent, f |-> Empty]

Even == {0, 2, 4, 6, 8}

\* A numeric array, followed through a reference.
Numbers(key, need, lengths) == Entry(key, key, {"arr"}, need, need, TRUE, lengths)

AsFloats(f, keys) == [k \in DOMAIN f |-> IF k \in keys THEN Floats(f[k]) ELSE f[k]]

\* The data of a stream decode when its filter entries are those of its data.
FilterOf(d) == <<Get(d, "Filter"), Get(d, "DecodeParms")>>

DecodeStream(o) == IF FilterOf(o.d) = o.data.enc THEN o.data.c ELSE [undecoded |-> o.data.c]

Type0Entries ==
    {Numbers("Domain", TRUE, Even), Numbers("Range", TRUE, Even), Numbers("Size", TRUE, {}),
     Entry("BitsPerSample", "BitsPerSample", {"int"}, TRUE, TRUE, TRUE, {}),
     Entry("Order", "Order", {"int"}, FALSE, FALSE, TRUE, {}),
     Numbers("Encode", FALSE, {}), Numbers("Decode", FALSE, {})}

newPdfFunctionType0FromStream(at, ok, f, data) ==
    IF /\ ok
       /\ 2 * Len(f.Size.e) = Len(f.Domain.e)
       /\ f.BitsPerSample.x \in {1, 2, 4, 8, 12, 16, 24, 32}
       /\ "Order" \in DOMAIN f => f.Order.x \in {1, 3}
    THEN [class |-> "function0", at |-> at,
          f |-> Put(Put(AsFloats(f, {"Domain", "Range", "Encode", "Decode"}), "Order",
                        IF "Order" \in DOMAIN f THEN f.Order ELSE Integer(1)),
                    "rawData", [t |-> "data", x |-> data])]
    ELSE Failed

Type4Entries == {Numbers("Domain", TRUE, Even), Numbers("Range", FALSE, Even)}

newPdfFunctionType4FromStream(at, ok, f, data) ==
    IF ok
    THEN [class |-> "function4", at |-> at,
          f |-> Put(AsFloats(f, {"Domain", "Range"}), "decodedData", [t |-> "data", x |-> data])]
    ELSE Failed

\* C0 and C1 must be as long as each other, one that is missing having length 0.
Type2Entries ==
    {Numbers("Domain", TRUE, Even), Numbers("Range", FALSE, Even),
     Numbers("C0", FALSE, {}), Numbers("C1", FALSE, {}),
     Entry("N", "N", {"int", "num"}, TRUE, TRUE, TRUE, {})}

newPdfFunctionType2FromPdfObject(at, ok, f) ==
    LET Long(k) == IF k \in DOMAIN f THEN Len(f[k].e) ELSE 0
    IN  IF ok /\ Long("C0") = Long("C1")
        THEN [class |-> "function2", at |-> at,
              f |-> Put(AsFloats(f, {"Domain", "Range", "C0", "C1"}), "N", [t |-> "num", x |-> f.N.x])]
        ELSE Failed

FunctionType(d) == LET v == Get(d, "FunctionType") IN IF v.t = "int" THEN v.x ELSE 9

Type3Entries ==
    {Numbers("Domain", TRUE, {2}), Numbers("Range", FALSE, Even),
     Numbers("Functions", TRUE, {}), Numbers("Bounds", TRUE, {}), Numbers("Encode", TRUE, {})}

FunctionEntries(n) ==
    CASE n = 0 -> Type0Entries [] n = 2 -> Type2Entries [] n = 3 -> Type3Entries [] OTHER -> Type4Entries

\* The type of the function at v: 0 and 4 are streams, 2 and 3 are not, 9 is none.
TypeAt(s, v) ==
    IF v.t \notin {"ref", "dict"} \/ ~HasDict(s, v) THEN 9
    ELSE LET n == FunctionType(DictOf(s, v))
         IN  IF n \in (IF v.t = "ref" /\ s[v.id].o = "stream" THEN {0, 4} ELSE {2, 3}) THEN n ELSE 9

newPdfFunctionType3FromPdfObject(at, ok, f, subs) ==
    IF /\ ok
       /\ \A i \in DOMAIN subs : subs[i] # Failed
       /\ Len(f.Bounds.e) = Len(subs) - 1
       /\ Len(f.Encode.e) = 2 * Len(subs)
    THEN [class |-> "function3", at |-> at,
          f |-> Put(AsFloats(f, {"Domain", "Range", "Bounds", "Encode"}), "Functions",
                    [t |-> "models", m |-> subs])]
    ELSE Failed

\* A function of type n made of what was read, one of type 3 on the functions subs.
FunctionOf(n, at, ok, f, data, subs) ==
    CASE n = 0 -> newPdfFunctionType0FromStream(at, ok, f, data)
      [] n = 4 -> newPdfFunctionType4FromStream(at, ok, f, data)
      [] n = 2 -> newPdfFunctionType2FromPdfObject(at, ok, f)
      [] n = 3 -> newPdfFunctionType3FromPdfObject(at, ok, f, subs)
      [] OTHER -> Failed

\* The function at v, of type n, with the dictionary d.
FunctionAt(s, v, n, d, subs) ==
    FunctionOf(n, IF v.t = "ref" THEN v ELSE Absent, Acceptable(s, d, FunctionEntries(n)), Fields(s, d, FunctionEntries(n)),
               IF n \in {0, 4} THEN DecodeStream(s[v.id]) ELSE Absent, subs)

\* The functions of a type 3 function are of the other types here.
SimpleFunction(s, v, n) ==
    IF n \in {3, 9} THEN Failed ELSE FunctionAt(s, v, n, DictOf(s, v), <<>>)

Subs(s, d) ==
    LET v == Trace(s, Get(d, "Functions"))
    IN  IF v.t = "arr" THEN [i \in DOMAIN v.e |-> SimpleFunction(s, v.e[i], TypeAt(s, v.e[i]))] ELSE <<>>

newPdfFunctionFromPdfObject(s, v) ==
    IF TypeAt(s, v) = 3 THEN FunctionAt(s, v, 3, DictOf(s, v), Subs(s, DictOf(s, v)))
    ELSE SimpleFunction(s, v, TypeAt(s, v))

Pick(f, keys) == [k \in DOMAIN f \cap keys |-> f[k]]

\* Encode, Decode and a filter are not written: the data are the decoded ones.
WriteType0_NoOrder(m) ==
    Merge(Pick(m.f, {"Domain", "Range", "Size", "BitsPerSample"}),
          [FunctionType |-> Integer(0), Length |-> [t |-> "length", x |-> m.f.rawData.x]])

WriteType0(m) ==
    Merge(Pick(m.f, {"Domain", "Range", "Size", "BitsPerSample"}
                    \cup (IF m.f.Order.x # 1 THEN {"Order"} ELSE {})),
          [FunctionType |-> Integer(0), Length |-> [t |-> "length", x |-> m.f.rawData.x]])

WriteType2(m) == Put(Pick(m.f, {"Domain", "Range", "C0", "C1", "N"}), "FunctionType", Integer(2))

\* Range is written even when there is none.
WriteType4(m) ==
    Merge([Domain |-> m.f.Domain,
           Range |-> IF "Range" \in DOMAIN m.f THEN m.f.Range ELSE [t |-> "arr", e |-> <<>>]],
          [FunctionType |-> Integer(4), Length |-> [t |-> "length", x |-> m.f.decodedData.x]])

\* What a written function is in the dictionary that holds it.
SimpleValue(m) ==
    IF m.at.t = "ref" THEN m.at ELSE [t |-> "dict", d |-> WriteType2(m)]

WriteType3(m) ==
    Merge(Pick(m.f, {"Domain", "Range", "Bounds", "Encode"}),
          [FunctionType |-> Integer(3),
           Functions |-> [t |-> "arr", e |-> [i \in DOMAIN m.f.Functions.m |-> SimpleValue(m.f.Functions.m[i])]]])

FunctionValue(m) ==
    IF m.class = "function3" /\ m.at.t # "ref" THEN [t |-> "dict", d |-> WriteType3(m)]
    ELSE SimpleValue(m)

Raw == <<Absent, Absent>>

\* The object a function with a container becomes.
FunctionObject(m) ==
    CASE m.class = "function0" ->
           [o |-> "stream", d |-> WriteType0(m), data |-> [enc |-> Raw, c |-> m.f.rawData.x]]
      [] m.class = "function4" ->
           [o |-> "stream", d |-> WriteType4(m), data |-> [enc |-> Raw, c |-> m.f.decodedData.x]]
      [] m.class = "function3" -> [o |-> "ind", v |-> [t |-> "dict", d |-> WriteType3(m)]]
      [] OTHER -> [o |-> "ind", v |-> [t |-> "dict", d |-> WriteType2(m)]]

Subfunctions(m) ==
    IF m.class = "function3" THEN {m.f.Functions.m[i] : i \in DOMAIN m.f.Functions.m} ELSE {}

\* ToPdfObject of a set of functions changes their containers.
WriteFunctions(s, M) ==
    LET all == M \cup UNION {Subfunctions(m) : m \in M}
    IN  [id \in DOMAIN s |->
            IF \E m \in all : m.at = [t |-> "ref", id |-> id]
            THEN FunctionObject(CHOOSE m \in all : m.at = [t |-> "ref", id |-> id])
            ELSE s[id]]

-----------------------------------------------------------------------------
(* Shadings.                                                                *)

\* Function: a direct array of functions, or one function.
FunctionModels(s, d) ==
    LET v == Get(d, "Function")
        e == IF v.t = "arr" THEN v.e ELSE <<v>>
    IN  [i \in DOMAIN e |-> newPdfFunctionFromPdfObject(s, e[i])]

newPdfShadingType1FromDictionary == {Optional("Domain", "arr"), Optional("Matrix", "arr")}

newPdfShadingType2FromDictionary ==
    {Entry("Coords", "Coords", {"arr"}, TRUE, TRUE, FALSE, {4}), Optional("Domain", "arr"),
     Entry("Extend", "Extend", {"arr"}, FALSE, TRUE, TRUE, {2})}

newPdfShadingType3FromDictionary ==
    {Entry("Coords", "Coords", {"arr"}, TRUE, TRUE, FALSE, {6}), Optional("Domain", "arr"),
     Entry("Extend", "Extend", {"arr"}, FALSE, TRUE, TRUE, {2})}

\* The loader stores the value of BitsPerFlag over that of BitsPerComponent.
FlagOverComponent ==
    {Entry("BitsPerComponent", "", {"int"}, TRUE, TRUE, FALSE, {}),
     Entry("BitsPerFlag", "BitsPerComponent", {"int"}, TRUE, TRUE, FALSE, {})}

newPdfShadingType4FromDictionary ==
    {Direct("BitsPerCoordinate", "int"), Direct("Decode", "arr")} \cup FlagOverComponent

newPdfShadingType5FromDictionary ==
    {Direct("BitsPerCoordinate", "int"), Direct("BitsPerComponent", "int"),
     Direct("VerticesPerRow", "int"), Direct("Decode", "arr")}

newPdfShadingType6FromDictionary ==
    {Direct("BitsPerCoordinate", "int"), Direct("Decode", "arr")} \cup FlagOverComponent

newPdfShadingType7FromDictionary ==
    {Direct("BitsPerCoordinate", "int"), Direct("Decode", "arr")} \cup FlagOverComponent

ShadingEntries(n) ==
    <<newPdfShadingType1FromDictionary, newPdfShadingType2FromDictionary,
      newPdfShadingType3FromDictionary, newPdfShadingType4FromDictionary,
      newPdfShadingType5FromDictionary, newPdfShadingType6FromDictionary,
      newPdfShadingType7FromDictionary>>[n]

CommonEntries ==
    {Entry("ShadingType", "ShadingType", {"int"}, TRUE, TRUE, TRUE, {}),
     Entry("ColorSpace", "ColorSpace", {"name", "arr"}, TRUE, TRUE, TRUE, {}),
     Optional("Background", "arr"), Entry("BBox", "BBox", {"arr"}, FALSE, TRUE, TRUE, {4}),
     Optional("AntiAlias", "bool")}

\* A shading of type n made of what was read.
ShadingOf(v, n, hasFunction, ok, f, fs) ==
    IF ~ok \/ ~(IF hasFunction THEN \A i \in DOMAIN fs : fs[i] # Failed ELSE n > 4) THEN Failed
    ELSE [class |-> "shading", at |-> v,
          f |-> IF hasFunction THEN Put(f, "Function", [t |-> "models", m |-> fs]) ELSE f]

ShadingAt(s, v, d, n) ==
    IF n.t # "int" \/ n.x \notin 1..7 THEN Failed
    ELSE LET E == CommonEntries \cup ShadingEntries(n.x)
         IN  ShadingOf(v, n.x, Get(d, "Function") # Absent, Acceptable(s, d, E),
                       AsFloats(Fields(s, d, E), {"BBox"}), FunctionModels(s, d))

newPdfShadingFromPdfObject(s, v) ==
    IF ~HasDict(s, v) THEN Failed
    ELSE ShadingAt(s, v, DictOf(s, v), Trace(s, Get(DictOf(s, v), "ShadingType")))

\* The keys each type of shading writes, in place, from the fields that are set.
ShadingType1ToPdfObject == {"Domain", "Matrix", "Function"}

ShadingType2ToPdfObject == {"Coords", "Domain", "Function", "Extend"}

ShadingType3ToPdfObject == {"Coords", "Domain", "Function", "Extend"}

ShadingType4ToPdfObject == {"BitsPerCoordinate", "BitsPerComponent", "BitsPerFlag", "Decode", "Function"}

ShadingType5ToPdfObject == {"BitsPerCoordinate", "BitsPerComponent", "VerticesPerRow", "Decode", "Function"}

ShadingType6ToPdfObject == {"BitsPerCoordinate", "BitsPerComponent", "BitsPerFlag", "Decode", "Function"}

ShadingType7ToPdfObject == {"BitsPerCoordinate", "BitsPerComponent", "BitsPerFlag", "Decode", "Function"}

ShadingKeys(n) ==
    <<ShadingType1ToPdfObject, ShadingType2ToPdfObject, ShadingType3ToPdfObject,
      ShadingType4ToPdfObject, ShadingType5ToPdfObject, ShadingType6ToPdfObject,
      ShadingType7ToPdfObject>>[n]

ShadingToPdfObject == {"ShadingType", "ColorSpace", "Background", "BBox", "AntiAlias"}

\* One function is written by itself and several as an array.
Written(v) ==
    IF v.t # "models" THEN v
    ELSE IF Len(v.m) = 1 THEN FunctionValue(v.m[1])
    ELSE [t |-> "arr", e |-> [i \in DOMAIN v.m |-> FunctionValue(v.m[i])]]

Entries(f, keys) == [k \in DOMAIN f \cap keys |-> Written(f[k])]

FunctionsIn(f) == IF "Function" \in DOMAIN f THEN {f.Function.m[i] : i \in DOMAIN f.Function.m} ELSE {}

-----------------------------------------------------------------------------
(* Patterns.                                                                *)

\* Matrix is looked for in the dictionary of the Resources, which the variable
\* that held the pattern's dictionary holds by then.
newPdfTilingPatternFromDictionary ==
    {Direct("PaintType", "int"), Direct("TilingType", "int"),
     Entry("BBox", "BBox", {"arr"}, TRUE, TRUE, TRUE, {4}),
     Entry("XStep", "XStep", {"int", "num"}, TRUE, TRUE, FALSE, {}),
     Entry("YStep", "YStep", {"int", "num"}, TRUE, TRUE, FALSE, {}),
     Entry("Resources", "Resources", {"dict"}, TRUE, TRUE, TRUE, {})}

newPdfShadingPatternFromDictionary ==
    {Entry("Matrix", "Matrix", {"arr"}, FALSE, TRUE, FALSE, {}),
     Entry("ExtGState", "ExtGState", {"dict", "ref"}, FALSE, TRUE, FALSE, {})}

ResourceKeys == {"ExtGState", "ColorSpace", "Pattern", "Shading", "XObject", "Font", "ProcSet", "Properties"}

TilingFields(s, d) ==
    LET r == Trace(s, d.Resources).d
        f == Fields(s, d, newPdfTilingPatternFromDictionary)
        g == [f EXCEPT !.BBox = Floats(@), !.XStep.t = "num", !.YStep.t = "num", !.Resources.d = Pick(@, ResourceKeys)]
    IN  IF "Matrix" \in DOMAIN r THEN Put(g, "Matrix", r.Matrix) ELSE g

TilingOK(s, d) ==
    /\ Acceptable(s, d, newPdfTilingPatternFromDictionary)
    /\ Get(Trace(s, d.Resources).d, "Matrix").t \in {"absent", "arr"}

\* A pattern with the dictionary d, of the type n; sh is the shading its Shading
\* entry loads as.
PatternOf(s, v, d, n, sh) ==
    CASE n = Integer(1) /\ TilingOK(s, d) ->
            [class |-> "tiling", at |-> v, f |-> TilingFields(s, d)]
      [] n = Integer(2) /\ Acceptable(s, d, newPdfShadingPatternFromDictionary) /\ sh # Failed ->
            [class |-> "shadingPattern", at |-> v,
             f |-> Put(Fields(s, d, newPdfShadingPatternFromDictionary), "Shading", [t |-> "models", m |-> <<sh>>])]
      [] OTHER -> Failed

newPdfPatternFromPdfObject(s, v, sh) ==
    IF v.t # "ref" \/ ~HasDict(s, v) THEN Failed
    ELSE PatternOf(s, v, DictOf(s, v), Get(DictOf(s, v), "PatternType"), sh)

PatternToPdfObject(n) == [Type |-> [t |-> "name", x |-> "Pattern"], PatternType |-> Integer(n)]

TilingKeys == {"PaintType", "TilingType", "BBox", "XStep", "YStep", "Resources", "Matrix"}

ShadingPatternKeys == {"Matrix", "ExtGState"}

-----------------------------------------------------------------------------
(* ToPdfObject of a model: the objects it changes.                          *)

\* A shading's own entries and, unless it is written as part of a pattern, those
\* of its type.
ShadingWritten(s, m, alone) ==
    LET keys == ShadingToPdfObject \cup (IF alone THEN ShadingKeys(m.f.ShadingType.x) ELSE {})
        t == IF alone THEN WriteFunctions(s, FunctionsIn(m.f)) ELSE s
    IN  WithDict(t, m.at, Merge(DictOf(t, m.at), Entries(m.f, keys)))

\* What the pattern's Shading entry becomes.
ShadingEntry(s, m) ==
    IF m.at.t = "ref" THEN m.at
    ELSE [t |-> "dict", d |-> Merge(m.at.d, Entries(m.f, ShadingToPdfObject))]

ToPdfObject(s, m) ==
    CASE m.class = "shading" -> ShadingWritten(s, m, TRUE)
      [] m.class = "tiling" ->
            WithDict(s, m.at, Merge(Merge(DictOf(s, m.at), PatternToPdfObject(1)), Entries(m.f, TilingKeys)))
      [] m.class = "shadingPattern" ->
            LET sh == m.f.Shading.m[1]
                t == ShadingWritten(s, sh, FALSE)
            IN  WithDict(t, m.at, Merge(Merge(Merge(DictOf(t, m.at), PatternToPdfObject(2)),
                                              [Shading |-> ShadingEntry(s, sh)]),
                                        Entries(m.f, ShadingPatternKeys)))
      [] OTHER -> WriteFunctions(s, {m})

LoadPaint(s, v, pattern, sh) == IF pattern THEN newPdfPatternFromPdfObject(s, v, sh) ELSE sh

\* A pattern loads the shading it names, and anything else itself.
Load(s, v) ==
    IF ~HasDict(s, v) THEN Failed
    ELSE LET d == DictOf(s, v)
             pattern == "PatternType" \in DOMAIN d
         IN  IF ~pattern /\ "ShadingType" \notin DOMAIN d THEN newPdfFunctionFromPdfObject(s, v)
             ELSE LoadPaint(s, v, pattern, newPdfShadingFromPdfObject(s, IF pattern THEN Get(d, "Shading") ELSE v))

-----------------------------------------------------------------------------

Init ==
    /\ doc = NotYet
    /\ store = NotYet
    /\ models = <<>>
    /\ edited = {}
    /\ written = {}
    /\ set = {}
    /\ writes = 0

Open(x) ==
    /\ doc = NotYet
    /\ doc' = x
    /\ store' = x
    /\ UNCHANGED <<models, edited, written, set, writes>>

\* A pattern, shading or function is loaded from an object; nothing is kept of one
\* that does not load.
LoadModel(id) ==
    /\ doc # NotYet
    /\ Len(models) < MaxLoads
    /\ LET m == Load(store, [t |-> "ref", id |-> id])
       IN  m # Failed /\ models' = Append(models, m)
    /\ UNCHANGED <<doc, store, edited, written, set, writes>>

\* The objects ToPdfObject may change.
Functions(m) == IF m.class = "shading" THEN FunctionsIn(m.f) ELSE {}

Touched(m) ==
    LET parts == {m} \cup (IF m.class = "shadingPattern" THEN {m.f.Shading.m[1]} ELSE {}) \cup Functions(m)
        all == parts \cup UNION {Subfunctions(p) : p \in parts}
    IN  {p.at.id : p \in {q \in all : q.at.t = "ref"}}

WriteModel(i) ==
    /\ i \in DOMAIN models
    /\ writes < MaxWrites
    /\ store' = ToPdfObject(store, models[i])
    /\ written' = {j \in written : Touched(models[j]) \cap Touched(models[i]) = {}} \cup {i}
    /\ writes' = writes + 1
    /\ UNCHANGED <<doc, models, edited, set>>

\* The fields of a model a caller can set: those it writes.
Settable(m) ==
    CASE m.class = "shading" ->
            (ShadingToPdfObject \cup ShadingKeys(m.f.ShadingType.x)) \ {"Function", "ShadingType", "ColorSpace"}
      [] m.class = "tiling" -> TilingKeys \ {"Resources", "PaintType"}
      [] m.class = "shadingPattern" -> {"Matrix"}
      [] OTHER -> {"Domain"}

\* A value the caller sets, unlike any of the file.
NewValue == [t |-> "arr", e |-> <<[t |-> "num", x |-> 98], [t |-> "num", x |-> 99]>>]

Edit(i, field) ==
    /\ i \in DOMAIN models
    /\ edited = {}
    /\ models' = [models EXCEPT ![i].f = Put(@, field, NewValue)]
    /\ edited' = {[model |-> i, field |-> field]}
    /\ written' = {}
    /\ UNCHANGED <<doc, store, set, writes>>

FilterKeys(enc) == {k \in {"Filter", "DecodeParms"} : enc[IF k = "Filter" THEN 1 ELSE 2] # Absent}

MakeStreamDict(enc) == [k \in FilterKeys(enc) |-> enc[IF k = "Filter" THEN 1 ELSE 2]]

\* PdfTilingPattern.SetContentStream: the filter entries are merged into the
\* dictionary, so that an entry the encoder does not have stays, before the
\* content is encoded, which may fail.
SetContentStream(i, c, enc, fails) ==
    /\ i \in DOMAIN models
    /\ models[i].class = "tiling"
    /\ store[models[i].at.id].o = "stream"
    /\ writes < MaxWrites
    /\ LET id == models[i].at.id
           o == store[id]
           d == Merge(o.d, MakeStreamDict(enc))
           clean == DOMAIN o.d \cap {"Filter", "DecodeParms"} \subseteq FilterKeys(enc)
       IN  IF fails
           THEN /\ store' = [store EXCEPT ![id].d = d]
                /\ set' = {r \in set : r.id # id} \cup {[id |-> id, c |-> c, clean |-> FALSE]}
           ELSE /\ store' = [store EXCEPT ![id].d = Put(d, "Length", [t |-> "length", x |-> c]),
                                          ![id].data = [enc |-> enc, c |-> c]]
                /\ set' = {r \in set : r.id # id} \cup {[id |-> id, c |-> c, clean |-> clean]}
    /\ writes' = writes + 1
    /\ UNCHANGED <<doc, models, edited, written>>

\* The caller has done all it does.
Rest ==
    /\ doc # NotYet
    /\ UNCHANGED vars

Next ==
    \/ \E x \in Docs : Open(x)
    \/ doc # NotYet /\ \E id \in DOMAIN doc : LoadModel(id)
    \/ \E i \in DOMAIN models : WriteModel(i)
    \/ \E i \in DOMAIN models : \E f \in Settable(models[i]) : Edit(i, f)
    \/ \E i \in DOMAIN models, c \in Contents, e \in Encoders, b \in BOOLEAN : SetContentStream(i, c, e, b)
    \/ Rest

Spec == Init /\ [][Next]_vars

-----------------------------------------------------------------------------
(* Properties.                                                              *)

TypeOK ==
    /\ doc # NotYet => DOMAIN store = DOMAIN doc
    /\ \A i \in DOMAIN models : models[i].at.t = "ref" /\ models[i] # Failed
    /\ \A e \in edited : e.model \in DOMAIN models

AsNumber(v) == IF v.t \in {"int", "num"} THEN [t |-> "num", x |-> v.x] ELSE v

\* A value with its references followed and its numbers alike.
Alike(s, v) ==
    LET w == Trace(s, v)
    IN  IF w.t = "arr" THEN [t |-> "arr", e |-> [i \in DOMAIN w.e |-> AsNumber(w.e[i])]] ELSE AsNumber(w)

\* The entries of an object that writing keeps: those of a function's type, and
\* all of a shading or a pattern but the width that the width of the flags
\* overwrites and a matrix that one in the resources overwrites.
KeptKeys(d) ==
    CASE "FunctionType" \in DOMAIN d ->
            DOMAIN d \cap ({"FunctionType", "Domain", "Range", "Size", "BitsPerSample", "C0", "C1", "N", "Bounds"}
                           \cup (IF FunctionType(d) = 3 THEN {"Encode"} ELSE {})
                           \cup (IF Get(d, "Order") = Integer(1) THEN {} ELSE {"Order"}))
      [] "ShadingType" \in DOMAIN d ->
            DOMAIN d \ ({"Function"} \cup (IF d.ShadingType.x \in {4, 6, 7} THEN {"BitsPerComponent"} ELSE {}))
      [] OTHER -> DOMAIN d \ {"Filter", "DecodeParms", "Length", "Shading", "Resources"}

\* After any loads and writes of models the caller has not changed, the
\* dictionaries say what they said: their entries have the same values, the same
\* functions in the same order, the same resources.
EntriesKept ==
    doc # NotYet /\ edited = {} =>
        \A id \in DOMAIN doc :
            LET at == [t |-> "ref", id |-> id]
            IN  HasDict(doc, at) =>
                LET d == DictOf(doc, at)
                    e == DictOf(store, at)
                IN  /\ \A k \in KeptKeys(d) : Alike(store, Get(e, k)) = Alike(doc, d[k])
                    /\ Get(d, "Function").t = "arr" /\ Len(d.Function.e) > 1 =>
                           \A i \in DOMAIN d.Function.e :
                               d.Function.e[i].t = "ref" => e.Function.e[i] = d.Function.e[i]
                    /\ Get(d, "Function").t = "ref" => e.Function = d.Function
                    /\ Get(d, "Shading").t = "ref" => e.Shading = d.Shading
                    /\ Get(d, "Resources") # Absent =>
                           Pick(Trace(store, e.Resources).d, ResourceKeys)
                               = Pick(Trace(doc, d.Resources).d, ResourceKeys)

\* The data of a stream decode to what they did, under the filter entries written
\* with them.
DataKept ==
    doc # NotYet =>
        \A id \in DOMAIN doc :
            doc[id].o = "stream" /\ id \notin {r.id : r \in set} =>
                DecodeStream(store[id]) = DecodeStream(doc[id])

\* What writing a function loses: Encode and Decode of type 0; and a range it adds
\* to type 4.
Essence(m) ==
    IF m.class = "function0" THEN [m EXCEPT !.f = Pick(@, DOMAIN @ \ {"Encode", "Decode"})]
    ELSE IF m.class = "function4" /\ m.f.Range = [t |-> "arr", e |-> <<>>]
         THEN [m EXCEPT !.f = Pick(@, DOMAIN @ \ {"Range"})]
    ELSE m

\* An object loaded after it was written gives the model it gave before.
SameAgain ==
    edited = {} =>
        \A i, j \in DOMAIN models :
            models[i].at = models[j].at /\ models[i].class \in {"function0", "function2", "tiling"} =>
                Essence(models[i]) = Essence(models[j])

\* A field the caller sets is the entry of that name once the model is written.
EditsWritten ==
    \A e \in edited :
        e.model \in written =>
            Get(DictOf(store, models[e.model].at), e.field) = NewValue

\* The content a caller sets is what the pattern's stream decodes to, when the
\* encoder has every filter entry that was there.
ContentBack == \A r \in set : r.clean => DecodeStream(store[r.id]) = r.c

=============================================================================

--------------------------- MODULE PageResources ---------------------------
(***************************************************************************)
(* What is added to pages: named resources (model/resources.go), contents  *)
(* and watermarks (model/page.go).  Pages that inherit their resources or  *)
(* refer to the same objects share dictionaries, arrays and colour spaces. *)
(*                                                                         *)
(* A value refers to an object of the heap: directly, through an indirect  *)
(* object, or through a reference that is not resolved yet.                *)
(***************************************************************************)
EXTENDS Naturals, Sequences, FiniteSets, SequencesExt, FiniteSetsExt

CONSTANTS
    Docs,       \* files: [heap, pages], pages being [media, contents, has, res]
    Marks,      \* images put as watermarks
    Texts,      \* contents that are added
    Names,      \* names a caller chooses
    Values,     \* values a caller puts under a name
    MaxCalls,   \* calls made
    NotOpen     \* no file is open

VARIABLES
    file,    \* the file as it was opened
    heap,    \* objects: [t |-> "dict" or "array", e |-> entries], [t |-> "stream", e |-> operations]
    pages,   \* pages: [media, contents, has, res]
    colours, \* by page: the colour spaces loaded, [loaded, box, cs]
    calls,   \* calls made
    texts,   \* by page: the operations its contents should have
    puts,    \* entries put under names found free: [p, cat, name, v]
    boxed,   \* by object: the page that wrote its colour spaces there last, and those set on it
    last     \* by page: the colour spaces set since they were loaded

vars == <<file, heap, pages, colours, calls, texts, puts, boxed, last>>

Nil == [k |-> "nil", id |-> 0]
Direct(id) == [k |-> "direct", id |-> id]
Entry(sub, v) == [sub |-> sub, v |-> v]
Empty == [n \in {} |-> 0]
Put(f, n, v) == [m \in DOMAIN f \cup {n} |-> IF m = n THEN v ELSE f[m]]

Cats == {"XObject", "ExtGState", "Font", "Pattern", "Shading", "ColorSpace"}

IsDict(h, v) == v.k # "nil" /\ h[v.id].t = "dict"
IsArray(h, v) == v.k # "nil" /\ h[v.id].t = "array"

-----------------------------------------------------------------------------
(* PdfPageResources.                                                        *)

\* NewPdfPageResourcesFromDict: only the reference to the fonts is resolved.
NewPdfPageResourcesFromDict(r) ==
    [c \in Cats |-> IF c = "Font" /\ r[c].k = "ref" THEN [r[c] EXCEPT !.k = "ind"] ELSE r[c]]

NewPdfPageResources == [c \in Cats |-> Nil]

\* The entries of a category, seen through indirect objects and references.
Entries(h, v) == IF IsDict(h, v) THEN h[v.id].e ELSE Empty

GetExtGState(h, r, n) == n \in DOMAIN Entries(h, r["ExtGState"])

GetFontByName(h, r, n) == n \in DOMAIN Entries(h, r["Font"])

\* PdfPageResources.HasExtGState asks for a font.
HasExtGState(h, r, n) == GetFontByName(h, r, n)

\* GetXObjectByName and HasXObjectByName: what is no stream of a known subtype is not there.
HasXObjectByName(h, r, n) ==
    LET e == Entries(h, r["XObject"]) IN n \in DOMAIN e /\ e[n].sub \in {"Image", "Form", "PS"}

\* GenerateXObjectName and the loops of AddWatermarkImage: the first name not there.
Free(h, r, cat, prefix, from) ==
    LET has(n) == IF cat = "XObject" THEN HasXObjectByName(h, r, <<prefix, n>>) ELSE GetExtGState(h, r, <<prefix, n>>)
    IN  <<prefix, Min({n \in from .. from + Cardinality(DOMAIN Entries(h, r[cat])) : ~has(n)})>>

GenerateXObjectName(h, r) == Free(h, r, "XObject", "XObj", 1)

\* An entry is set in a dictionary, which is made if there is none; some take it only
\* where it stands.  [ok, h, v]
SetByName(h, v, direct, n, x) ==
    IF v.k = "nil" THEN [ok |-> TRUE, h |-> Append(h, [t |-> "dict", e |-> Put(Empty, n, x)]), v |-> Direct(Len(h) + 1)]
    ELSE IF h[v.id].t # "dict" \/ (direct /\ v.k # "direct") THEN [ok |-> FALSE, h |-> h, v |-> v]
    ELSE [ok |-> TRUE, h |-> [h EXCEPT ![v.id].e = Put(@, n, x)], v |-> v]

AddExtGState(h, v, n, x) == SetByName(h, v, FALSE, n, x)

SetFontByName(h, v, n, x) == SetByName(h, v, FALSE, n, x)

SetXObjectByName(h, v, n, x) == SetByName(h, v, FALSE, n, x)

AddImageResource(h, v, n, x) == SetByName(h, v, TRUE, n, x)

SetShadingByName(h, v, n, x) == SetByName(h, v, TRUE, n, x)

SetPatternByName(h, v, n, x) == SetByName(h, v, TRUE, n, x)

\* newPdfPageResourcesColorspacesFromPdfObject: an indirect object is kept as the box.
ColorspacesFromPdfObject(h, v) ==
    [loaded |-> TRUE, box |-> IF v.k = "ind" THEN v.id ELSE 0, cs |-> Entries(h, v)]

NotLoaded == [loaded |-> FALSE, box |-> 0, cs |-> Empty]

\* GetColorspaces: loaded once; the indirect object they were in is kept.
GetColorspaces(h, r, c) ==
    IF c.loaded \/ r["ColorSpace"].k = "nil" THEN [ok |-> TRUE, c |-> c]
    ELSE IF ~IsDict(h, r["ColorSpace"]) THEN [ok |-> FALSE, c |-> c]
    ELSE [ok |-> TRUE, c |-> ColorspacesFromPdfObject(h, r["ColorSpace"])]

\* PdfPageResourcesColorspaces.ToPdfObject: to the box, or a new dictionary.
ColorspacesToPdfObject(h, c) ==
    IF c.box = 0 THEN [h |-> Append(h, [t |-> "dict", e |-> c.cs]), v |-> Direct(Len(h) + 1)]
    ELSE [h |-> [h EXCEPT ![c.box] = [t |-> "dict", e |-> c.cs]], v |-> [k |-> "ind", id |-> c.box]]

\* PdfPageResources.ToPdfObject puts loaded colour spaces back.
ResourcesToPdfObject(h, r, c) ==
    IF ~c.loaded THEN [h |-> h, v |-> r["ColorSpace"]] ELSE ColorspacesToPdfObject(h, c)

-----------------------------------------------------------------------------
(* Contents.                                                                *)

\* getContentStreamAsString.
getContentStreamAsString(h, id) ==
    IF h[id].t = "stream" THEN [ok |-> TRUE, s |-> h[id].e] ELSE [ok |-> FALSE, s |-> <<>>]

\* GetContentStreams.
GetContentStreams(h, v) ==
    LET ids == IF v.k = "nil" THEN <<>> ELSE IF IsArray(h, v) THEN h[v.id].e ELSE <<v.id>>
        got == [i \in DOMAIN ids |-> getContentStreamAsString(h, ids[i])]
    IN  [ok |-> \A i \in DOMAIN got : got[i].ok, ss |-> [i \in DOMAIN got |-> got[i].s]]

\* GetAllContentStreams.
GetAllContentStreams(h, v) == FlattenSeq(GetContentStreams(h, v).ss)

Stream(ops) == [t |-> "stream", e |-> ops]

\* AddContentStreamByString: an array is added to where it is.
AddContentStreamByString(h, v, ops) ==
    IF v.k = "nil" THEN [h |-> Append(h, Stream(ops)), v |-> Direct(Len(h) + 1)]
    ELSE IF IsArray(h, v) THEN [h |-> Append([h EXCEPT ![v.id].e = Append(@, Len(h) + 1)], Stream(ops)), v |-> v]
    ELSE [h |-> h \o <<Stream(ops), [t |-> "array", e |-> <<v.id, Len(h) + 1>>]>>, v |-> Direct(Len(h) + 2)]

\* SetContentStreams: one stream is put directly, several into an array.
SetContentStreams(h, ss) ==
    IF ss = <<>> THEN [h |-> h, v |-> Nil]
    ELSE IF Len(ss) = 1 THEN [h |-> Append(h, Stream(ss[1])), v |-> Direct(Len(h) + 1)]
    ELSE [h |-> (h \o [i \in DOMAIN ss |-> Stream(ss[i])])
                \o <<[t |-> "array", e |-> [i \in DOMAIN ss |-> Len(h) + i]]>>,
          v |-> Direct(Len(h) + Len(ss) + 1)]

\* AppendContentStream: to the last stream, all of them being made anew.
AppendContentStream(h, v, ops) ==
    LET got == GetContentStreams(h, v)
    IN  IF ~got.ok THEN [h |-> h, v |-> v]
        ELSE IF got.ss = <<>> THEN SetContentStreams(h, <<ops>>)
        ELSE SetContentStreams(h, [got.ss EXCEPT ![Len(got.ss)] = @ \o ops])

-----------------------------------------------------------------------------

Init ==
    /\ file = NotOpen
    /\ heap = <<>>
    /\ pages = <<>>
    /\ colours = <<>>
    /\ calls = 0
    /\ texts = <<>>
    /\ puts = {}
    /\ boxed = Empty
    /\ last = <<>>

Open(x) ==
    /\ file = NotOpen
    /\ file' = x
    /\ heap' = x.heap
    /\ pages' = [p \in DOMAIN x.pages |-> [x.pages[p] EXCEPT !.res = NewPdfPageResourcesFromDict(@)]]
    /\ colours' = [p \in DOMAIN x.pages |-> NotLoaded]
    /\ texts' = [p \in DOMAIN x.pages |-> GetAllContentStreams(x.heap, x.pages[p].contents)]
    /\ last' = [p \in DOMAIN x.pages |-> Empty]
    /\ UNCHANGED <<calls, puts, boxed>>

Call == file # NotOpen /\ calls < MaxCalls /\ calls' = calls + 1

\* AddWatermarkImage, once the page has a media box: an image, a graphics state and the
\* contents that use both; without a dictionary that takes the graphics state the image
\* stays.
Watermark(p, img, r, im, x, gs, g) ==
    IF ~x.ok THEN pages' = [pages EXCEPT ![p].has = TRUE] /\ UNCHANGED <<heap, texts, puts>>
    ELSE IF ~g.ok THEN
        /\ pages' = [pages EXCEPT ![p].has = TRUE, ![p].res = [r EXCEPT !["XObject"] = x.v]]
        /\ heap' = x.h
        /\ puts' = puts \cup {[p |-> p, cat |-> "XObject", name |-> im, v |-> img]}
        /\ UNCHANGED texts
    ELSE
        LET op == <<"wm", calls, gs, im>>
            c == AddContentStreamByString(g.h, pages[p].contents, <<op>>)
        IN  /\ heap' = c.h
            /\ pages' = [pages EXCEPT ![p] = [@ EXCEPT !.has = TRUE, !.contents = c.v,
                                                       !.res = [r EXCEPT !["XObject"] = x.v, !["ExtGState"] = g.v]]]
            /\ texts' = [texts EXCEPT ![p] = Append(@, op)]
            /\ puts' = puts \cup {[p |-> p, cat |-> "XObject", name |-> im, v |-> img],
                                  [p |-> p, cat |-> "ExtGState", name |-> gs, v |-> <<"gs", calls>>]}

WithGState(p, img, r, im, x, gs) ==
    Watermark(p, img, r, im, x, gs, AddExtGState(x.h, r["ExtGState"], gs, Entry("dict", <<"gs", calls>>)))

WithImage(p, img, r, im) ==
    WithGState(p, img, r, im, AddImageResource(heap, r["XObject"], im, Entry("Image", img)),
               Free(heap, r, "ExtGState", "GS", 0))

AddWatermarkImage(p, img) ==
    /\ Call
    /\ IF pages[p].media
       THEN LET r == IF pages[p].has THEN pages[p].res ELSE NewPdfPageResources
            IN  WithImage(p, img, r, Free(heap, r, "XObject", "Imw", 0))
       ELSE UNCHANGED <<heap, pages, texts, puts>>
    /\ UNCHANGED <<file, colours, boxed, last>>

\* SetXObjectFormByName under a name of GenerateXObjectName.
SetXObjectFormByName(p, v) ==
    /\ Call /\ pages[p].has
    /\ LET name == GenerateXObjectName(heap, pages[p].res)
           x == SetXObjectByName(heap, pages[p].res["XObject"], name, Entry("Form", v))
       IN  /\ heap' = x.h
           /\ pages' = [pages EXCEPT ![p].res["XObject"] = x.v]
           /\ puts' = IF x.ok THEN puts \cup {[p |-> p, cat |-> "XObject", name |-> name, v |-> v]} ELSE puts
    /\ UNCHANGED <<file, colours, texts, boxed, last>>

\* AddFont (which makes the resources), SetPatternByName, SetShadingByName.
AddNamed(p, cat, n, v) ==
    /\ Call /\ (pages[p].has \/ cat = "Font")
    /\ LET r == IF pages[p].has THEN pages[p].res ELSE NewPdfPageResources
           x == CASE cat = "Font" -> SetFontByName(heap, r[cat], n, Entry("dict", v))
                  [] cat = "Pattern" -> SetPatternByName(heap, r[cat], n, Entry("dict", v))
                  [] cat = "Shading" -> SetShadingByName(heap, r[cat], n, Entry("dict", v))
       IN  /\ heap' = x.h
           /\ pages' = [pages EXCEPT ![p].has = TRUE, ![p].res = [r EXCEPT ![cat] = x.v]]
    /\ UNCHANGED <<file, colours, texts, puts, boxed, last>>

\* GetColorspaceByName and SetColorspaceByName.
GetColorspaceByName(p) ==
    /\ Call /\ pages[p].has
    /\ colours' = [colours EXCEPT ![p] = GetColorspaces(heap, pages[p].res, @).c]
    /\ UNCHANGED <<file, heap, pages, texts, puts, boxed, last>>

SetColorspaceByName(p, n, v) ==
    /\ Call /\ pages[p].has
    /\ LET got == GetColorspaces(heap, pages[p].res, colours[p])
       IN  IF ~got.ok THEN UNCHANGED <<heap, colours, last>>
           ELSE IF got.c.loaded
           THEN /\ colours' = [colours EXCEPT ![p] = [got.c EXCEPT !.cs = Put(@, n, Entry("cs", v))]]
                /\ last' = [last EXCEPT ![p] = Put(@, n, Entry("cs", v))]
                /\ UNCHANGED heap
           ELSE /\ heap' = Append(heap, [t |-> "dict", e |-> Empty])
                /\ colours' = [colours EXCEPT ![p] = [loaded |-> TRUE, box |-> Len(heap) + 1, cs |-> Put(Empty, n, Entry("cs", v))]]
                /\ last' = [last EXCEPT ![p] = Put(@, n, Entry("cs", v))]
    /\ UNCHANGED <<file, pages, texts, puts, boxed>>

\* A change of the contents, and what they should be then.
Changed(p, c, want) ==
    /\ heap' = c.h
    /\ pages' = [pages EXCEPT ![p].contents = c.v]
    /\ texts' = [texts EXCEPT ![p] = want]
    /\ UNCHANGED <<file, colours, puts, boxed, last>>

AddContents(p, t) ==
    Call /\ Changed(p, AddContentStreamByString(heap, pages[p].contents, <<<<"text", t>>>>), Append(texts[p], <<"text", t>>))

AppendContents(p, t) ==
    /\ Call
    /\ Changed(p, AppendContentStream(heap, pages[p].contents, <<<<"text", t>>>>),
               IF GetContentStreams(heap, pages[p].contents).ok THEN Append(texts[p], <<"text", t>>) ELSE texts[p])

\* The contents split into operations, or taken away.
SetContents(p, none) ==
    /\ Call
    /\ LET ss == IF none THEN <<>> ELSE GetContentStreams(heap, pages[p].contents).ss
       IN  Changed(p, SetContentStreams(heap, [i \in DOMAIN FlattenSeq(ss) |-> <<FlattenSeq(ss)[i]>>]), FlattenSeq(ss))

\* PdfPage.ToPdfObject.
ToPdfObject(p) ==
    /\ Call /\ pages[p].has
    /\ LET w == ResourcesToPdfObject(heap, pages[p].res, colours[p])
       IN  /\ heap' = w.h
           /\ pages' = [pages EXCEPT ![p].res["ColorSpace"] = w.v]
           /\ boxed' = IF colours[p].loaded THEN Put(boxed, IF colours[p].box = 0 THEN Len(w.h) ELSE colours[p].box, [p |-> p, set |-> last[p]])
                       ELSE boxed
    /\ UNCHANGED <<file, colours, texts, puts, last>>

Next ==
    \/ \E x \in Docs : Open(x)
    \/ \E p \in DOMAIN pages :
          \/ \E img \in Marks : AddWatermarkImage(p, img)
          \/ \E v \in Values : SetXObjectFormByName(p, v)
          \/ \E cat \in {"Font", "Pattern", "Shading"}, n \in Names, v \in Values : AddNamed(p, cat, n, v)
          \/ GetColorspaceByName(p)
          \/ \E n \in Names, v \in Values : SetColorspaceByName(p, n, v)
          \/ \E t \in Texts : AddContents(p, t) \/ AppendContents(p, t)
          \/ \E none \in BOOLEAN : SetContents(p, none)
          \/ ToPdfObject(p)

Spec == Init /\ [][Next]_vars

-----------------------------------------------------------------------------
(* Properties.                                                              *)

Shared(p) == \E q \in DOMAIN pages \ {p} : file.pages[q].contents = file.pages[p].contents /\ file.pages[q].contents.k # "nil"

\* Watermarks, and forms put under generated names, never take each other's names, nor
\* that of an object of the file, on pages that share dictionaries as well: what each
\* put into the resources of its page is still there.
NamesStayOwn ==
    /\ \A u \in puts :
          LET e == Entries(heap, pages[u.p].res[u.cat]) IN u.name \in DOMAIN e /\ e[u.name].v = u.v
    /\ file # NotOpen =>
          \A p \in DOMAIN pages :
              LET was == Entries(file.heap, file.pages[p].res["XObject"])
                  is == Entries(heap, pages[p].res["XObject"])
              IN  \A n \in DOMAIN was : was[n].sub \in {"Image", "Form", "PS"} => n \in DOMAIN is /\ is[n] = was[n]

\* The contents of a page are what was there, followed by what was added, in the order
\* of the calls and in every form they can have; a page that shares its array of
\* streams with another is the exception.
ContentsInOrder ==
    \A p \in DOMAIN pages : ~Shared(p) => GetAllContentStreams(heap, pages[p].contents) = texts[p]

\* Each watermark in the contents of the page it was put on uses a graphics state and
\* an image of that page's resources, those it came with.
WatermarksDrawTheirImage ==
    \A p \in DOMAIN pages : LET ops == GetAllContentStreams(heap, pages[p].contents) IN
        ~Shared(p) =>
            \A i \in DOMAIN ops : ops[i][1] = "wm" =>
                /\ ops[i][3] \in DOMAIN Entries(heap, pages[p].res["ExtGState"])
                /\ Entries(heap, pages[p].res["ExtGState"])[ops[i][3]].v = <<"gs", ops[i][2]>>
                /\ HasXObjectByName(heap, pages[p].res, ops[i][4])

\* Colour spaces set on a page are in its resources when it was written, with those
\* that were loaded, unless another page has written the same object since.
ColoursWritten ==
    \A id \in DOMAIN boxed :
        LET p == boxed[id].p IN
        pages[p].res["ColorSpace"].id = id =>
            /\ DOMAIN Entries(file.heap, file.pages[p].res["ColorSpace"]) \subseteq DOMAIN heap[id].e
            /\ \A n \in DOMAIN boxed[id].set : heap[id].e[n] = boxed[id].set[n]

=============================================================================

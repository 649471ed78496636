-------------------------- MODULE AnnotationDicts --------------------------
(***************************************************************************)
(* Annotations of pages, their popups, actions and file specifications as  *)
(* models over dictionaries (model/annotations.go, action.go, file.go and  *)
(* the annotations of page.go).  The reader registers a model for each     *)
(* dictionary before it is loaded and returns the registered one from then *)
(* on, also when the loading failed.  Writing a model clears its           *)
(* dictionary and fills in the entries that the model knows.               *)
(* An entry is a tuple: <<"val", key>>, <<"name", n>>, <<"ref", object>>   *)
(* or <<"null">>.  Dictionaries within an Annots array are objects as      *)
(* well, since the models are registered for the dictionaries.             *)
(***************************************************************************)
EXTENDS Integers, Sequences, SequencesExt

CONSTANTS Documents,   \* the documents to begin with: dicts, pages, lazy
          NewTypes,    \* the subtypes of annotations that are created
          MaxOps,      \* the number of operations
          Null

VARIABLES doc,       \* the document as it was
          dicts,     \* the dictionary of each object, Null if it holds something else
          cache,     \* the model of each dictionary that has been loaded
          annots,    \* the Annots entry of each page
          list,      \* the annotations of each page that have been loaded, Null before
          spoiled,   \* the objects that could not be loaded
          chosen,    \* the actions set for links
          fresh,     \* the pages that have been written since the last operation
          ops

vars == <<doc, dicts, cache, annots, list, spoiled, chosen, fresh, ops>>

-----------------------------------------------------------------------------
\* The entries that annotations.go, action.go and file.go know, for each type twice:
\* those its loader reads and those its ToPdfObject writes.  ToPdfObject clears the
\* dictionary first, so an entry that is missing here is lost.  Widgets are part of
\* FormFields.

\* The entries of all annotations; Subtype decides on the others.
AnnotationFromDict == {"Rect", "Contents", "P", "NM", "M", "F", "AP", "AS", "Border", "C", "StructParent", "OC"}
AnnotationToPdfObject == {"Type", "Rect", "Contents", "P", "NM", "M", "F", "AP", "AS", "Border", "C",
    "StructParent", "OC"}

\* The entries of markup annotations.
MarkupFromDict == {"T", "Popup", "CA", "RC", "CreationDate", "IRT", "Subj", "RT", "IT", "ExData"}

\* Variant: the popup is not written.
appendToPdfDictionary_NoPopup == {"T", "CA", "RC", "CreationDate", "IRT", "Subj", "RT", "IT", "ExData"}
appendToPdfDictionary == {"T", "Popup", "CA", "RC", "CreationDate", "IRT", "Subj", "RT", "IT", "ExData"}

\* The entries that the loader of each subtype reads ...
TextFromDict == MarkupFromDict \cup {"Open", "Name", "State", "StateModel"}
LinkFromDict == {"A", "Dest", "H", "PA", "QuadPoints", "BS"}
FreeTextFromDict == MarkupFromDict \cup {"DA", "Q", "RC", "DS", "CL", "IT", "BE", "RD", "BS", "LE"}
LineFromDict == MarkupFromDict \cup {"L", "BS", "LE", "IC", "LL", "LLE", "Cap", "IT", "LLO",
    "CP", "Measure", "CO"}
SquareFromDict == MarkupFromDict \cup {"BS", "IC", "BE", "RD"}
CircleFromDict == MarkupFromDict \cup {"BS", "IC", "BE", "RD"}
PolygonFromDict == MarkupFromDict \cup {"Vertices", "LE", "BS", "IC", "BE", "IT", "Measure"}
PolyLineFromDict == MarkupFromDict \cup {"Vertices", "LE", "BS", "IC", "BE", "IT", "Measure"}
HighlightFromDict == MarkupFromDict \cup {"QuadPoints"}
UnderlineFromDict == MarkupFromDict \cup {"QuadPoints"}
SquigglyFromDict == MarkupFromDict \cup {"QuadPoints"}
StrikeOutFromDict == MarkupFromDict \cup {"QuadPoints"}
CaretFromDict == MarkupFromDict \cup {"RD", "Sy"}
StampFromDict == MarkupFromDict \cup {"Name"}
InkFromDict == MarkupFromDict \cup {"InkList", "BS"}
PopupFromDict == {"Parent", "Open"}
FileAttachmentFromDict == MarkupFromDict \cup {"FS", "Name"}
SoundFromDict == MarkupFromDict \cup {"Name", "Sound"}
RichMediaFromDict == {"RichMediaSettings", "RichMediaContent"}
MovieFromDict == {"T", "Movie", "A"}
ScreenFromDict == {"T", "MK", "A", "AA"}
PrinterMarkFromDict == {"MN"}
TrapNetFromDict == {}
WatermarkFromDict == {"FixedPrint"}
ThreeDFromDict == {"3DD", "3DV", "3DA", "3DI", "3DB"}
ProjectionFromDict == MarkupFromDict
RedactFromDict == MarkupFromDict \cup {"QuadPoints", "IC", "RO", "OverlayText", "Repeat", "DA", "Q"}

\* ... and those that its ToPdfObject writes.
TextToPdfObject == appendToPdfDictionary \cup {"Subtype", "Open", "Name", "State", "StateModel"}
LinkToPdfObject == {"Subtype", "A", "Dest", "H", "PA", "QuadPoints", "BS"}
FreeTextToPdfObject == appendToPdfDictionary \cup {"Subtype", "DA", "Q", "RC", "DS", "CL", "IT",
    "BE", "RD", "BS", "LE"}
LineToPdfObject == appendToPdfDictionary \cup {"Subtype", "L", "BS", "LE", "IC", "LL", "LLE",
    "Cap", "IT", "LLO", "CP", "Measure", "CO"}
SquareToPdfObject == appendToPdfDictionary \cup {"Subtype", "BS", "IC", "BE", "RD"}
CircleToPdfObject == appendToPdfDictionary \cup {"Subtype", "BS", "IC", "BE", "RD"}
PolygonToPdfObject == appendToPdfDictionary \cup {"Subtype", "Vertices", "LE", "BS", "IC", "BE",
    "IT", "Measure"}
PolyLineToPdfObject == appendToPdfDictionary \cup {"Subtype", "Vertices", "LE", "BS", "IC",
    "BE", "IT", "Measure"}
HighlightToPdfObject == appendToPdfDictionary \cup {"Subtype", "QuadPoints"}
UnderlineToPdfObject == appendToPdfDictionary \cup {"Subtype", "QuadPoints"}
SquigglyToPdfObject == appendToPdfDictionary \cup {"Subtype", "QuadPoints"}
StrikeOutToPdfObject == appendToPdfDictionary \cup {"Subtype", "QuadPoints"}
CaretToPdfObject == appendToPdfDictionary \cup {"Subtype", "RD", "Sy"}
StampToPdfObject == appendToPdfDictionary \cup {"Subtype", "Name"}
InkToPdfObject == appendToPdfDictionary \cup {"Subtype", "InkList", "BS"}
PopupToPdfObject == {"Subtype", "Parent", "Open"}
FileAttachmentToPdfObject == appendToPdfDictionary \cup {"Subtype", "FS", "Name"}
SoundToPdfObject == appendToPdfDictionary \cup {"Subtype", "Sound", "Name"}
RichMediaToPdfObject == {"Subtype", "RichMediaSettings", "RichMediaContent"}
MovieToPdfObject == {"Subtype", "T", "Movie", "A"}
ScreenToPdfObject == {"Subtype", "T", "MK", "A", "AA"}
PrinterMarkToPdfObject == {"Subtype", "MN"}
TrapNetToPdfObject == {"Subtype"}
WatermarkToPdfObject == {"Subtype", "FixedPrint"}
ThreeDToPdfObject == {"Subtype", "3DD", "3DV", "3DA", "3DI", "3DB"}
ProjectionToPdfObject == appendToPdfDictionary
RedactToPdfObject == appendToPdfDictionary \cup {"Subtype", "QuadPoints", "IC", "RO",
    "OverlayText", "Repeat", "DA", "Q"}


\* The switches on the subtype.
Subtypes == {"Text", "Link", "FreeText", "Line", "Square", "Circle", "Polygon", "PolyLine",
    "Highlight", "Underline", "Squiggly", "StrikeOut", "Caret", "Stamp", "Ink", "Popup",
    "FileAttachment", "Sound", "RichMedia", "Movie", "Screen", "PrinterMark", "TrapNet",
    "Watermark", "3D", "Projection", "Redact"}

FromDict(t) ==
    CASE t = "Text" -> TextFromDict
      [] t = "Link" -> LinkFromDict
      [] t = "FreeText" -> FreeTextFromDict
      [] t = "Line" -> LineFromDict
      [] t = "Square" -> SquareFromDict
      [] t = "Circle" -> CircleFromDict
      [] t = "Polygon" -> PolygonFromDict
      [] t = "PolyLine" -> PolyLineFromDict
      [] t = "Highlight" -> HighlightFromDict
      [] t = "Underline" -> UnderlineFromDict
      [] t = "Squiggly" -> SquigglyFromDict
      [] t = "StrikeOut" -> StrikeOutFromDict
      [] t = "Caret" -> CaretFromDict
      [] t = "Stamp" -> StampFromDict
      [] t = "Ink" -> InkFromDict
      [] t = "Popup" -> PopupFromDict
      [] t = "FileAttachment" -> FileAttachmentFromDict
      [] t = "Sound" -> SoundFromDict
      [] t = "RichMedia" -> RichMediaFromDict
      [] t = "Movie" -> MovieFromDict
      [] t = "Screen" -> ScreenFromDict
      [] t = "PrinterMark" -> PrinterMarkFromDict
      [] t = "TrapNet" -> TrapNetFromDict
      [] t = "Watermark" -> WatermarkFromDict
      [] t = "3D" -> ThreeDFromDict
      [] t = "Projection" -> ProjectionFromDict
      [] t = "Redact" -> RedactFromDict

ToPdfObject(t) ==
    CASE t = "Text" -> TextToPdfObject
      [] t = "Link" -> LinkToPdfObject
      [] t = "FreeText" -> FreeTextToPdfObject
      [] t = "Line" -> LineToPdfObject
      [] t = "Square" -> SquareToPdfObject
      [] t = "Circle" -> CircleToPdfObject
      [] t = "Polygon" -> PolygonToPdfObject
      [] t = "PolyLine" -> PolyLineToPdfObject
      [] t = "Highlight" -> HighlightToPdfObject
      [] t = "Underline" -> UnderlineToPdfObject
      [] t = "Squiggly" -> SquigglyToPdfObject
      [] t = "StrikeOut" -> StrikeOutToPdfObject
      [] t = "Caret" -> CaretToPdfObject
      [] t = "Stamp" -> StampToPdfObject
      [] t = "Ink" -> InkToPdfObject
      [] t = "Popup" -> PopupToPdfObject
      [] t = "FileAttachment" -> FileAttachmentToPdfObject
      [] t = "Sound" -> SoundToPdfObject
      [] t = "RichMedia" -> RichMediaToPdfObject
      [] t = "Movie" -> MovieToPdfObject
      [] t = "Screen" -> ScreenToPdfObject
      [] t = "PrinterMark" -> PrinterMarkToPdfObject
      [] t = "TrapNet" -> TrapNetToPdfObject
      [] t = "Watermark" -> WatermarkToPdfObject
      [] t = "3D" -> ThreeDToPdfObject
      [] t = "Projection" -> ProjectionToPdfObject
      [] t = "Redact" -> RedactToPdfObject

-----------------------------------------------------------------------------
\* The same for the types of actions.
ActionBaseFromDict == {"Next", "S"}
ActionBaseToPdfObject == {"Type", "S", "Next"}
ActionGoToFromDict == {"D"}
ActionGoToRFromDict == {"F", "D", "NewWindow"}
ActionGoToEFromDict == {"F", "D", "NewWindow", "T"}
ActionLaunchFromDict == {"F", "Win", "Mac", "Unix", "NewWindow"}
ActionThreadFromDict == {"F", "D", "B"}
ActionURIFromDict == {"URI", "IsMap"}
ActionSoundFromDict == {"Sound", "Volume", "Synchronous", "Repeat", "Mix"}
ActionMovieFromDict == {"Annotation", "T", "Operation"}
ActionHideFromDict == {"T", "H"}
ActionNamedFromDict == {"N"}
ActionSubmitFormFromDict == {"F", "Fields", "Flags"}
ActionResetFormFromDict == {"Fields", "Flags"}
ActionImportDataFromDict == {"F"}
ActionSetOCGStateFromDict == {"State", "PreserveRB"}
ActionRenditionFromDict == {"R", "AN", "OP", "JS"}
ActionTransFromDict == {"Trans"}
ActionGoTo3DViewFromDict == {"TA", "V"}
ActionJavaScriptFromDict == {"JS"}

ActionGoToToPdfObject == {"S", "D"}
ActionGoToRToPdfObject == {"S", "F", "D", "NewWindow"}
ActionGoToEToPdfObject == {"S", "F", "D", "NewWindow", "T"}
ActionLaunchToPdfObject == {"S", "F", "Win", "Mac", "Unix", "NewWindow"}
ActionThreadToPdfObject == {"S", "F", "D", "B"}
ActionURIToPdfObject == {"S", "URI", "IsMap"}
ActionSoundToPdfObject == {"S", "Sound", "Volume", "Synchronous", "Repeat", "Mix"}
ActionMovieToPdfObject == {"S", "Annotation", "T", "Operation"}
ActionHideToPdfObject == {"S", "T", "H"}
ActionNamedToPdfObject == {"S", "N"}
ActionSubmitFormToPdfObject == {"S", "F", "Fields", "Flags"}
ActionResetFormToPdfObject == {"S", "Fields", "Flags"}
ActionImportDataToPdfObject == {"S", "F"}
ActionSetOCGStateToPdfObject == {"S", "State", "PreserveRB"}
ActionRenditionToPdfObject == {"S", "R", "AN", "OP", "JS"}
ActionTransToPdfObject == {"S", "Trans"}
ActionGoTo3DViewToPdfObject == {"S", "TA", "V"}
ActionJavaScriptToPdfObject == {"S", "JS"}

ActionTypes == {"GoTo", "GoToR", "GoToE", "Launch", "Thread", "URI", "Sound", "Movie", "Hide",
    "Named", "SubmitForm", "ResetForm", "ImportData", "SetOCGState", "Rendition", "Trans",
    "GoTo3DView", "JavaScript"}

ActionFromDict(t) ==
    CASE t = "GoTo" -> ActionGoToFromDict
      [] t = "GoToR" -> ActionGoToRFromDict
      [] t = "GoToE" -> ActionGoToEFromDict
      [] t = "Launch" -> ActionLaunchFromDict
      [] t = "Thread" -> ActionThreadFromDict
      [] t = "URI" -> ActionURIFromDict
      [] t = "Sound" -> ActionSoundFromDict
      [] t = "Movie" -> ActionMovieFromDict
      [] t = "Hide" -> ActionHideFromDict
      [] t = "Named" -> ActionNamedFromDict
      [] t = "SubmitForm" -> ActionSubmitFormFromDict
      [] t = "ResetForm" -> ActionResetFormFromDict
      [] t = "ImportData" -> ActionImportDataFromDict
      [] t = "SetOCGState" -> ActionSetOCGStateFromDict
      [] t = "Rendition" -> ActionRenditionFromDict
      [] t = "Trans" -> ActionTransFromDict
      [] t = "GoTo3DView" -> ActionGoTo3DViewFromDict
      [] t = "JavaScript" -> ActionJavaScriptFromDict

ActionToPdfObject(t) ==
    CASE t = "GoTo" -> ActionGoToToPdfObject
      [] t = "GoToR" -> ActionGoToRToPdfObject
      [] t = "GoToE" -> ActionGoToEToPdfObject
      [] t = "Launch" -> ActionLaunchToPdfObject
      [] t = "Thread" -> ActionThreadToPdfObject
      [] t = "URI" -> ActionURIToPdfObject
      [] t = "Sound" -> ActionSoundToPdfObject
      [] t = "Movie" -> ActionMovieToPdfObject
      [] t = "Hide" -> ActionHideToPdfObject
      [] t = "Named" -> ActionNamedToPdfObject
      [] t = "SubmitForm" -> ActionSubmitFormToPdfObject
      [] t = "ResetForm" -> ActionResetFormToPdfObject
      [] t = "ImportData" -> ActionImportDataToPdfObject
      [] t = "SetOCGState" -> ActionSetOCGStateToPdfObject
      [] t = "Rendition" -> ActionRenditionToPdfObject
      [] t = "Trans" -> ActionTransToPdfObject
      [] t = "GoTo3DView" -> ActionGoTo3DViewToPdfObject
      [] t = "JavaScript" -> ActionJavaScriptToPdfObject

-----------------------------------------------------------------------------
\* File specifications.
FilespecFromDict == {"FS", "F", "UF", "DOS", "Mac", "Unix", "ID", "V", "EF", "RF", "Desc", "CI"}
FilespecToPdfObject == {"Type", "FS", "F", "UF", "DOS", "Mac", "Unix", "ID", "V", "EF", "RF", "Desc", "CI"}

-----------------------------------------------------------------------------
Only(d, keys) == [k \in DOMAIN d \cap keys |-> d[k]]
Entry(d, k) == IF k \in DOMAIN d THEN d[k] ELSE <<"none">>
Empty == [k \in {} |-> Null]
Is(v, tag) == v[1] = tag

-----------------------------------------------------------------------------
\* Loading.  The state of the reader is [cache, spoiled]; res is the outcome.
Reader == [cache |-> cache, spoiled |-> spoiled, res |-> "ok"]
Done(r) == [r EXCEPT !.res = "ok"]
Failed(r, o) == [r EXCEPT !.res = "error", !.spoiled = @ \cup {o}]
Ignored(r, o) == [r EXCEPT !.res = "nil", !.spoiled = @ \cup {o}]
Register(r, o, m) == [r EXCEPT !.cache = [x \in DOMAIN @ \cup {o} |-> IF x = o THEN m ELSE @[x]]]
Model(kind, fields) ==
    [kind |-> kind, context |-> Null, fields |-> fields, popup |-> Null, action |-> Null, file |-> Null]
Found(r, o, kind) == IF r.cache[o].kind = kind THEN Done(r) ELSE [r EXCEPT !.res = "error"]

\* The context of an annotation, with its own entries.
WithContext(r, o, t, popup) ==
    Done([r EXCEPT !.cache[o].context = t, !.cache[o].popup = popup,
                   !.cache[o].fields = Only(dicts[o], AnnotationFromDict \cup (FromDict(t) \ {"Popup"}))])

\* The popup of a markup annotation, once it has been loaded.
PopupLoaded(r, o, t, p) ==
    IF r.res = "error" THEN Failed(r, o)
    ELSE IF r.res = "nil" THEN WithContext(r, o, t, Null)
    ELSE IF r.cache[p].context # "Popup" THEN Failed(r, o)
    ELSE WithContext(r, o, t, p)

RECURSIVE newPdfAnnotationFromIndirectObject(_, _)
\* A popup has to be there as an object: a reference that is not resolved, as the
\* lazy reader leaves it, is an error.
newPdfAnnotationMarkupFromDict(r, o, t, p) ==
    IF Is(p, "none") \/ Is(p, "null") THEN WithContext(r, o, t, Null)
    ELSE IF ~Is(p, "ref") \/ doc.lazy THEN Failed(r, o)
    ELSE PopupLoaded(newPdfAnnotationFromIndirectObject(r, p[2]), o, t, p[2])

LoadSubtype(r, o, t) ==
    IF Is(t, "none") THEN Done(r)
    ELSE IF ~Is(t, "name") THEN Failed(r, o)
    ELSE IF t[2] \notin Subtypes THEN Ignored(r, o)
    ELSE IF "Popup" \in FromDict(t[2])
         THEN newPdfAnnotationMarkupFromDict(r, o, t[2], Entry(dicts[o], "Popup"))
         ELSE WithContext(r, o, t[2], Null)

newPdfAnnotationFromIndirectObject(r, o) ==
    IF dicts[o] = Null THEN Failed(r, o)
    ELSE IF o \in DOMAIN r.cache THEN Found(r, o, "annotation")
    ELSE LoadSubtype(Register(r, o, Model("annotation", Only(dicts[o], AnnotationFromDict))),
                     o, Entry(dicts[o], "Subtype"))

\* All annotations of a page up to the first error; null entries and annotations of
\* unknown subtypes are left out.
loadAnnotations(elements) ==
    FoldLeft(LAMBDA a, o :
                 IF a.r.res = "error" \/ o = Null THEN a
                 ELSE LET r == newPdfAnnotationFromIndirectObject(a.r, o)
                      IN  [r |-> r, found |-> IF r.res = "ok" THEN Append(a.found, o) ELSE a.found],
             [r |-> Reader, found |-> <<>>], elements)

\* The file specification of an action.
Files == {t \in ActionTypes : "F" \in ActionFromDict(t)}
NewPdfFilespecFromObj(f) == [at |-> f, fields |-> Only(dicts[f], FilespecFromDict)]

LoadAction(r, o, t) ==
    [r EXCEPT !.cache[o].context = t,
              !.cache[o].fields = Only(dicts[o], ActionBaseFromDict \cup (ActionFromDict(t) \ {"F"}))]

LoadActionType(r, o, t, f) ==
    IF ~Is(t, "name") THEN Failed(r, o)
    ELSE IF t[2] \notin ActionTypes THEN Ignored(r, o)
    ELSE IF t[2] \notin Files \/ Is(f, "none") THEN Done(LoadAction(r, o, t[2]))
    ELSE IF ~Is(f, "ref") THEN Failed(r, o)
    ELSE IF dicts[f[2]] = Null THEN Failed(r, o)
    ELSE [Done(LoadAction(r, o, t[2])) EXCEPT !.cache[o].file = NewPdfFilespecFromObj(f[2])]

newPdfActionFromIndirectObject(r, o) ==
    IF dicts[o] = Null THEN Failed(r, o)
    ELSE IF o \in DOMAIN r.cache THEN Found(r, o, "action")
    ELSE LoadActionType(Register(r, o, Model("action", Only(dicts[o], ActionBaseFromDict))),
                        o, Entry(dicts[o], "S"), Entry(dicts[o], "F"))

-----------------------------------------------------------------------------
\* Writing.
Name(n) == <<"name", n>>
Ref(o) == <<"ref", o>>
With(c, k, v) == IF c THEN [x \in {k} |-> v] ELSE Empty

WriteFilespec(f) == Only(With(TRUE, "Type", Name("Filespec")) @@ f.fields, FilespecToPdfObject)

WriteAction(m) ==
    Only(With(TRUE, "Type", Name("Action")) @@ With(TRUE, "S", Name(m.context))
           @@ With(m.file # Null, "F", Ref(m.file.at)) @@ m.fields,
         ActionBaseToPdfObject \cup ActionToPdfObject(m.context))

\* The action of a link is written if it is of a known type.
HasAction(c, m) == m.action # Null /\ c[m.action].context # Null

WriteDict(c, m) ==
    IF m.context = Null
    THEN Only(With(TRUE, "Type", Name("Annot")) @@ m.fields, AnnotationToPdfObject)
    ELSE Only(With(TRUE, "Type", Name("Annot")) @@ With(TRUE, "Subtype", Name(m.context))
                @@ With(m.popup # Null, "Popup", Ref(m.popup))
                @@ With(HasAction(c, m), "A", Ref(m.action)) @@ m.fields,
              AnnotationToPdfObject \cup ToPdfObject(m.context))

\* The objects that are written with annotation m: its popup, its action and the
\* file specification of that.
WriteAnnotation(ds, c, o, m) ==
    [x \in DOMAIN ds |->
        IF x = o THEN WriteDict(c, m)
        ELSE IF x = m.popup THEN WriteDict(c, c[x])
        ELSE IF ~HasAction(c, m) THEN ds[x]
        ELSE IF x = m.action THEN WriteAction(c[x])
        ELSE IF c[m.action].file # Null /\ x = c[m.action].file.at THEN WriteFilespec(c[m.action].file)
        ELSE ds[x]]

\* The annotations of page p, if they have been loaded.  A nil slice of annotations is
\* the same as none loaded.
WritePage(ds, p) ==
    IF list[p] \in {Null, <<>>} THEN ds
    ELSE FoldLeft(LAMBDA d, o : WriteAnnotation(d, cache, o, cache[o]), ds, list[p])

-----------------------------------------------------------------------------
Init ==
    /\ doc \in Documents
    /\ dicts = doc.dicts
    /\ cache = Empty
    /\ annots = doc.pages
    /\ list = [p \in DOMAIN doc.pages |-> Null]
    /\ spoiled = {} /\ chosen = Empty /\ fresh = {} /\ ops = 0

Op == ops < MaxOps /\ ops' = ops + 1 /\ UNCHANGED doc

\* PdfPage.GetAnnotations: an error leaves the page as it was.
Loaded(p, a) ==
    /\ cache' = a.r.cache /\ spoiled' = a.r.spoiled
    /\ list' = IF a.r.res = "error" \/ a.found = <<>> THEN list ELSE [list EXCEPT ![p] = a.found]

GetAnnotations(p) ==
    /\ Op /\ list[p] = Null
    /\ Loaded(p, loadAnnotations(annots[p]))
    /\ fresh' = {}
    /\ UNCHANGED <<dicts, annots, chosen>>

\* A new annotation is added to a page.  Its list is loaded first, and an error of
\* that goes unnoticed.
Added(p, t, a) ==
    LET o == Len(dicts) + 1
        was == IF list[p] # Null THEN list[p] ELSE IF a.r.res = "error" THEN <<>> ELSE a.found
    IN  /\ cache' = Register(a.r, o, [Model("annotation", Empty) EXCEPT !.context = t]).cache
        /\ spoiled' = a.r.spoiled
        /\ list' = [list EXCEPT ![p] = Append(was, o)]

AddAnnotation(p, t) ==
    /\ Op
    /\ Added(p, t, IF list[p] = Null THEN loadAnnotations(annots[p]) ELSE [r |-> Reader, found |-> <<>>])
    /\ dicts' = Append(dicts, Empty)
    /\ fresh' = {}
    /\ UNCHANGED <<annots, chosen>>

\* The links that the caller can have.
Links == {o \in DOMAIN cache : cache[o].kind = "annotation" /\ cache[o].context = "Link"
                               /\ \E p \in DOMAIN list : list[p] # Null /\ Contains(list[p], o)}

\* PdfAnnotationLink.GetAction
GotAction(o, r) ==
    /\ cache' = IF r.res = "ok" THEN [r.cache EXCEPT ![o].action = r.at] ELSE r.cache
    /\ spoiled' = r.spoiled
loadAction(a) ==
    IF Is(a, "null") THEN [cache |-> cache, spoiled |-> spoiled, res |-> "nil", at |-> Null]
    ELSE IF ~Is(a, "ref") THEN [cache |-> cache, spoiled |-> spoiled, res |-> "error", at |-> Null]
    ELSE newPdfActionFromIndirectObject(Reader, a[2]) @@ [at |-> a[2]]
GetAction(o) ==
    /\ Op /\ o \in Links /\ cache[o].action = Null /\ "A" \in DOMAIN cache[o].fields
    /\ GotAction(o, loadAction(cache[o].fields["A"]))
    /\ fresh' = {}
    /\ UNCHANGED <<dicts, annots, list, chosen>>

\* PdfAnnotationLink.SetAction with an action that has been loaded, or nil.
Actions == {a \in DOMAIN cache : cache[a].kind = "action" /\ cache[a].context # Null /\ a \notin spoiled}
SetAction(o, a) ==
    /\ Op /\ o \in Links
    /\ cache' = [cache EXCEPT ![o].action = a,
                              ![o].fields = IF a = Null THEN Only(@, DOMAIN @ \ {"A"}) ELSE @]
    /\ chosen' = [x \in DOMAIN chosen \cup {o} |-> IF x = o THEN a ELSE chosen[x]]
    /\ fresh' = {}
    /\ UNCHANGED <<dicts, annots, list, spoiled>>

\* PdfPage.GetPageDict writes the annotations that have been loaded, or the Annots
\* entry as it is.
Annots(p) == IF list[p] \in {Null, <<>>} THEN annots[p] ELSE list[p]
GetPageDict(p) ==
    /\ Op
    /\ dicts' = WritePage(dicts, p)
    /\ annots' = [annots EXCEPT ![p] = Annots(p)]
    /\ fresh' = fresh \cup {p}
    /\ UNCHANGED <<cache, list, spoiled, chosen>>

\* The document is written, one page after the other, and read again.
Reopen ==
    /\ Op
    /\ dicts' = FoldLeft(WritePage, dicts, [p \in DOMAIN annots |-> p])
    /\ annots' = [p \in DOMAIN annots |-> Annots(p)]
    /\ cache' = Empty
    /\ list' = [p \in DOMAIN annots |-> Null]
    /\ fresh' = DOMAIN annots
    /\ UNCHANGED <<spoiled, chosen>>

Next ==
    \/ \E p \in DOMAIN annots : \/ GetAnnotations(p) \/ GetPageDict(p)
                                \/ \E t \in NewTypes : AddAnnotation(p, t)
    \/ \E o \in Links : GetAction(o) \/ (\E a \in Actions \cup {Null} : SetAction(o, a))
    \/ Reopen

Spec == Init /\ [][Next]_vars

-----------------------------------------------------------------------------
TypeOK ==
    /\ DOMAIN cache \subseteq DOMAIN dicts
    /\ \A p \in DOMAIN list : list[p] # Null => Range(list[p]) \subseteq DOMAIN cache
    /\ spoiled \subseteq DOMAIN dicts

\* What the loaders know of an object of the document, by what kind of dictionary it
\* is.  Projection annotations lose their subtype.
KnownOf(d) ==
    IF Entry(d, "Type") = Name("Filespec") THEN FilespecFromDict
    ELSE IF Is(Entry(d, "S"), "name") /\ d["S"][2] \in ActionTypes
         THEN ActionBaseFromDict \cup ActionFromDict(d["S"][2])
    ELSE IF Is(Entry(d, "Subtype"), "none") THEN AnnotationFromDict
    ELSE IF Is(d["Subtype"], "name") /\ d["Subtype"][2] \in Subtypes \ {"Projection"}
         THEN {"Subtype"} \cup AnnotationFromDict \cup FromDict(d["Subtype"][2])
    ELSE {}

\* A popup that is not one is left out without an error if its subtype is unknown.
LostPopup(d, k) == k = "Popup" /\ (~Is(d[k], "ref") \/ d[k][2] \in spoiled)

\* Whatever annotations, popups, actions and file specifications are loaded, written, changed
\* and read again, in any order and from several pages, each entry that the loaders know
\* (annotations.go, action.go, file.go) keeps its value, unless the object itself could not
\* be loaded or the action of a link was set.
EntriesKept ==
    \A o \in {o \in DOMAIN doc.dicts \ spoiled : doc.dicts[o] # Null} :
        \A k \in KnownOf(doc.dicts[o]) \cap DOMAIN doc.dicts[o] :
            \/ Entry(dicts[o], k) = doc.dicts[o][k]
            \/ LostPopup(doc.dicts[o], k)
            \/ k = "A" /\ o \in DOMAIN chosen

\* A page that has been written lists the annotations it had, in their order, unless one of
\* them could not be loaded (page.go GetAnnotations and AddAnnotation).
ListsKept ==
    \A p \in fresh :
        LET was == SelectSeq(doc.pages[p], LAMBDA o : o # Null)
        IN  Range(was) \cap spoiled = {}
              => SelectSeq(annots[p], LAMBDA o : o # Null /\ o \in DOMAIN doc.dicts) = was

\* A link that has been written has the action that was set last, as a whole, or none if it
\* was cleared (PdfAnnotationLink.SetAction).
ActionsAsSet ==
    \A p \in fresh : \A o \in DOMAIN chosen : Contains(annots[p], o) =>
        Entry(dicts[o], "A") = IF chosen[o] = Null THEN <<"none">> ELSE Ref(chosen[o])
=============================================================================

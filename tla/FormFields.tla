----------------------------- MODULE FormFields -----------------------------
(***************************************************************************)
(* The interactive form of a document that has been read: the PdfField and *)
(* PdfAnnotationWidget models that are made of its dictionaries, and the   *)
(* operations on them: GetAnnotations, Fill, RepairAcroForm,               *)
(* FlattenFields, and writing the models back into the dictionaries, by    *)
(* the page and by the form (model/fields.go, form.go, flatten.go,         *)
(* annotations.go, page.go, reader.go).  A field and its widget may share  *)
(* one dictionary ("merged"); writing the annotation clears it first.      *)
(* A dictionary is the groups of keys that it has: those of every          *)
(* annotation, of a widget, of every field, and of the type of the field.  *)
(***************************************************************************)
EXTENDS Integers, Sequences, SequencesExt, FiniteSets, TLC

CONSTANTS
    Null,       \* an absent parent
    Documents,  \* the documents
    MaxOps      \* bound: operations on one document

\* A document: its fields (and which of them are merged with their widget), the
\* widgets with a dictionary of their own, the Kids arrays, the button fields,
\* the Fields of the form and the Annots of the page.
IsDocument(d) ==
    /\ d.merged \subseteq d.fields /\ d.buttons \subseteq d.fields
    /\ d.fields \cap d.widgets = {}
    /\ DOMAIN d.kids = d.fields
    /\ ToSet(d.top) \subseteq d.fields /\ ToSet(d.annots) \subseteq d.merged \cup d.widgets

VARIABLES
    doc,       \* the document; never written
    dict,      \* the groups of keys that each dictionary has now
    value,     \* its V now; 0 when it has none
    inst,      \* the PdfField models made, in order
    annot,     \* the PdfAnnotationWidget models made, in order
    cache,     \* modelManager: the annotation model of a dictionary, 0 when none
    Fields,    \* r.AcroForm.Fields: indices of inst; Null when there is no form
    page,      \* page.annotations: indices of annot; Null when not loaded
    cleared,   \* history: the dictionaries that the writing of an annotation has cleared
    given,     \* history: the value last given to each dictionary by Fill
    last, ops  \* the last operation; how many there were

vars == <<doc, dict, value, inst, annot, cache, Fields, page, cleared, given, last, ops>>

\* The Parent entry of a dictionary.
ParentOf(o) == IF \E g \in doc.fields : Contains(doc.kids[g], o)
               THEN CHOOSE g \in doc.fields : Contains(doc.kids[g], o) ELSE Null

-----------------------------------------------------------------------------
\* Loading.  st is the record of all of the state but the history.

\* newPdfAnnotationFromIndirectObject for a widget: the cached model of the
\* dictionary, if there is one.
newPdfAnnotation(st, o) ==
    IF st.cache[o] # 0 THEN st
    ELSE [st EXCEPT !.annot = Append(@, [obj |-> o, field |-> 0, Parent |-> ParentOf(o)]),
                    !.cache[o] = Len(st.annot) + 1]

\* newPdfFieldFromIndirectObject.  No PdfField is ever registered with the model
\* manager, so each call makes a new one, of what the dictionary has by then.  A
\* kid with a Subtype and no FT is a widget, any other one a field.
RECURSIVE newPdfField(_, _, _), LoadKids(_, _, _)
newPdfField(st, o, parent) ==
    LET k == Len(st.inst) + 1
        keys == st.dict[o]
        new == [st EXCEPT !.inst = Append(@,
                  [obj |-> o, parent |-> parent, kids |-> <<>>, annots |-> <<>>,
                   FT |-> "field" \in keys, type |-> {"field", "type"} \subseteq keys, V |-> st.value[o]])]
        a == newPdfAnnotation(new, o)
    IN  IF "widget" \in keys
        THEN [a EXCEPT !.inst[k].annots = <<a.cache[o]>>,
                       !.annot[a.cache[o]].field = k, !.annot[a.cache[o]].Parent = o]
        ELSE LoadKids(new, k, doc.kids[o])
LoadKids(st, k, kids) ==
    IF kids = <<>> THEN st
    ELSE LET o == Head(kids)
             a == newPdfAnnotation(st, o)
         IN  LoadKids(IF "widget" \in st.dict[o] /\ "field" \notin st.dict[o]
                      THEN [a EXCEPT !.inst[k].annots = Append(@, a.cache[o]), !.annot[a.cache[o]].field = k]
                      ELSE LET sub == newPdfField(st, o, k)
                           IN  [sub EXCEPT !.inst[k].kids = Append(@, Len(st.inst) + 1)],
                      k, Tail(kids))

\* newPdfAcroFormFromDict: the Fields one after the other.
newPdfAcroForm(st) ==
    FoldLeft(LAMBDA s, o : [newPdfField(s, o, 0) EXCEPT !.Fields = Append(s.Fields, Len(s.inst) + 1)], st, doc.top)

\* flattenFields and AllFields.
RECURSIVE flattenFields(_, _)
flattenFields(st, k) ==
    <<k>> \o FlattenSeq([i \in 1 .. Len(st.inst[k].kids) |-> flattenFields(st, st.inst[k].kids[i])])
AllFields(st) ==
    IF st.Fields = Null THEN <<>>
    ELSE FlattenSeq([i \in 1 .. Len(st.Fields) |-> flattenFields(st, st.Fields[i])])

\* loadAnnotations: a widget whose Parent is the dictionary of a field of the form
\* is linked to the first such field.
LinkParent(st, a) ==
    LET hits == {i \in DOMAIN AllFields(st) : st.inst[AllFields(st)[i]].obj = st.annot[a].Parent}
    IN  IF hits = {} THEN st
        ELSE [st EXCEPT !.annot[a].field = AllFields(st)[CHOOSE i \in hits : \A j \in hits : i <= j]]
loadAnnotations(st) ==
    FoldLeft(LAMBDA s, o : LET t == newPdfAnnotation(s, o)
                           IN  [LinkParent(t, t.cache[o]) EXCEPT !.page = Append(s.page, t.cache[o])],
             [st EXCEPT !.page = <<>>], doc.annots)
GetAnnotations(st) == IF st.page # Null THEN st ELSE loadAnnotations(st)

State == [dict |-> dict, value |-> value, inst |-> inst, annot |-> annot, cache |-> cache,
          Fields |-> Fields, page |-> page, cleared |-> cleared]

Init ==
    /\ doc \in Documents /\ IsDocument(doc)
    /\ dict = [o \in doc.fields \cup doc.widgets |->
                 (IF o \in doc.fields THEN {"field", "type"} ELSE {})
                   \cup (IF o \in doc.merged \cup doc.widgets THEN {"annot", "widget"} ELSE {})]
    /\ value = [o \in DOMAIN dict |-> IF o \in doc.fields THEN 1 ELSE 0]
    /\ page = Null /\ cleared = {} /\ given = value /\ last = "load" /\ ops = 0
    /\ LET st == newPdfAcroForm([dict |-> dict, value |-> value, inst |-> <<>>, annot |-> <<>>,
                                 cache |-> [o \in DOMAIN dict |-> 0], Fields |-> <<>>])
       IN  inst = st.inst /\ annot = st.annot /\ cache = st.cache /\ Fields = st.Fields

-----------------------------------------------------------------------------
\* Writing.

\* PdfAnnotation.ToPdfObject: the dictionary is cleared.
AnnotToPdfObject(st, o) ==
    [st EXCEPT !.dict[o] = {"annot"}, !.value[o] = 0, !.cleared = @ \cup {o}]

RECURSIVE FieldToPdfObject(_, _), WidgetToPdfObject(_, _)
\* PdfField.ToPdfObject: the kids and the widgets apart from it, then the keys of
\* every field; V is set when there is one.
FieldToPdfObject(st, k) ==
    LET f == st.inst[k]
        kids == FoldLeft(FieldToPdfObject, st, f.kids)
        all == FoldLeft(WidgetToPdfObject, kids, SelectSeq(f.annots, LAMBDA a : st.annot[a].obj # f.obj))
    IN  [all EXCEPT !.dict[f.obj] = IF f.FT THEN @ \cup {"field"} ELSE @,
                    !.value[f.obj] = IF f.V = 0 THEN @ ELSE f.V]
\* PdfAnnotationWidget.ToPdfObject: a field in the same dictionary adds its part.
WidgetToPdfObject(st, a) ==
    LET o == st.annot[a].obj
        own == [AnnotToPdfObject(st, o) EXCEPT !.dict[o] = @ \cup {"widget"}]
        k == st.annot[a].field
    IN  IF k # 0 /\ st.inst[k].obj = o THEN FieldToPdfObject(own, k) ELSE own

\* Variant: every field of the form is written by PdfField.ToPdfObject.
ContextToPdfObject_Generic(st, k) == FieldToPdfObject(st, k)

\* ToPdfObject of PdfFieldText, PdfFieldButton, PdfFieldChoice and
\* PdfFieldSignature: the field, then the keys of its type; of a field without a
\* context, the field alone.
ContextToPdfObject(st, k) ==
    LET w == FieldToPdfObject(st, k)
    IN  IF st.inst[k].type THEN [w EXCEPT !.dict[st.inst[k].obj] = @ \cup {"type"}] ELSE w

Step(name, st) ==
    /\ ops < MaxOps /\ ops' = ops + 1 /\ last' = name /\ UNCHANGED doc
    /\ dict' = st.dict /\ value' = st.value /\ inst' = st.inst /\ annot' = st.annot
    /\ cache' = st.cache /\ Fields' = st.Fields /\ page' = st.page /\ cleared' = st.cleared

LoadAnnotations ==
    /\ page = Null
    /\ Step("annots", GetAnnotations(State)) /\ UNCHANGED given

\* GetPageDict: annotations that were loaded are written.
GetPageDict ==
    /\ Step("page", IF page = Null THEN State ELSE FoldLeft(WidgetToPdfObject, State, page))
    /\ UNCHANGED given

\* PdfAcroForm.ToPdfObject.
FormToPdfObject ==
    /\ Fields # Null
    /\ Step("form", FoldLeft(ContextToPdfObject, State, Fields)) /\ UNCHANGED given

\* fill, with a value for the field o: fillFieldValue sets V; setFieldAnnotAS writes
\* the widgets of a button, and the generator of appearances those of any field.
Fill(o, appGen) ==
    /\ Fields # Null
    /\ LET ks == SelectSeq(AllFields(State), LAMBDA k : inst[k].obj = o /\ inst[k].FT)
           fill(st, k) == LET set == [st EXCEPT !.inst[k].V = 2]
                          IN  IF o \in doc.buttons \/ appGen
                              THEN FoldLeft(WidgetToPdfObject, set, inst[k].annots) ELSE set
       IN  /\ ks # <<>> /\ given' = [given EXCEPT ![o] = 2]
           /\ Step("fill", FoldLeft(fill, State, ks))

\* The field of the widget a: the one that is known, or one made of its Parent or of
\* its own dictionary.
FieldOf(st, a) ==
    LET w == st.annot[a]
    IN  IF w.field # 0 THEN [st |-> st, k |-> w.field]
        ELSE [st |-> newPdfField(st, IF w.Parent # Null THEN w.Parent ELSE w.obj, 0), k |-> Len(st.inst) + 1]

\* Variant: a dictionary may be listed again.
RepairAcroForm_Twice ==
    /\ LET add(r, a) == LET f == FieldOf(r.st, a) IN [st |-> f.st, ks |-> Append(r.ks, f.k)]
           all == FoldLeft(add, [st |-> GetAnnotations(State), ks |-> <<>>], GetAnnotations(State).page)
       IN  Step("repair", IF all.ks = <<>> THEN all.st ELSE [all.st EXCEPT !.Fields = all.ks])
    /\ UNCHANGED given

\* RepairAcroForm: the fields of all widgets of the pages, each dictionary once.
RepairAcroForm ==
    /\ LET add(r, a) ==
               LET f == FieldOf(r.st, a)
               IN  [st |-> f.st,
                    ks |-> IF \E i \in DOMAIN r.ks : f.st.inst[r.ks[i]].obj = f.st.inst[f.k].obj
                           THEN r.ks ELSE Append(r.ks, f.k)]
           all == FoldLeft(add, [st |-> GetAnnotations(State), ks |-> <<>>], GetAnnotations(State).page)
       IN  Step("repair", IF all.ks = <<>> THEN all.st ELSE [all.st EXCEPT !.Fields = all.ks])
    /\ UNCHANGED given

\* AcroFormNeedsRepair, once the annotations are loaded.
AcroFormNeedsRepair ==
    \E i \in DOMAIN page : annot[page[i]].field = 0 \/ ~Contains(AllFields(State), annot[page[i]].field)

\* FlattenFields(FALSE, nil): the widgets of the form leave the page.
FlattenFields ==
    /\ LET load == GetAnnotations(State)
           ftargets == UNION {ToSet(inst[k].annots) : k \in ToSet(AllFields(State))}
       IN  Step("flatten", [load EXCEPT !.page = SelectSeq(@, LAMBDA a : a \notin ftargets), !.Fields = Null])
    /\ UNCHANGED given

Next ==
    \/ LoadAnnotations \/ GetPageDict \/ FormToPdfObject
    \/ RepairAcroForm \/ FlattenFields
    \/ \E o \in doc.fields, appGen \in BOOLEAN : Fill(o, appGen)

Spec == Init /\ [][Next]_vars

-----------------------------------------------------------------------------
TypeOK ==
    /\ \A o \in DOMAIN dict : dict[o] \subseteq {"annot", "widget", "field", "type"}
    /\ \A k \in DOMAIN inst : ToSet(inst[k].kids) \subseteq DOMAIN inst /\ ToSet(inst[k].annots) \subseteq DOMAIN annot
    /\ \A a \in DOMAIN annot : annot[a].field \in 0 .. Len(inst) /\ cache[annot[a].obj] = a
    /\ Fields # Null => ToSet(Fields) \subseteq DOMAIN inst
    /\ page # Null => ToSet(page) \subseteq DOMAIN annot

\* The fields that the form of the document reaches.
InForm == ToSet(doc.top) \cup UNION {ToSet(doc.kids[g]) \cap doc.fields : g \in ToSet(doc.top)}

\* None of the Fields has a Parent; otherwise RepairAcroForm makes a second model of
\* one of them, of what its dictionary has by then, and both are written.
Rooted == \A f \in ToSet(doc.top) : ParentOf(f) = Null

\* However pages and form are written in turn, a dictionary that a field of the form
\* shares with its widget keeps the keys of both, and a value:
\* PdfAnnotation.ToPdfObject clears it, and PdfAnnotationWidget.ToPdfObject asks
\* the field for its part again.  (The keys of a field that the form does not reach
\* are lost once its page is written with its annotations loaded.)
DictsWhole ==
    \A f \in InForm :
        /\ "field" \in dict[f] /\ value[f] # 0
        /\ f \in doc.merged => {"annot", "widget"} \subseteq dict[f]

\* The keys of the type of a field (DA, Opt, MaxLen, the signature dictionary) are
\* there as long as its dictionary was not cleared; they are back once the form is
\* written, for the Fields of the form (PdfAcroForm.ToPdfObject asks their
\* contexts).  A field below another one is written by PdfField.ToPdfObject, which
\* does not have them: those of a cleared kid stay lost.
TypeKeysBack ==
    /\ \A f \in doc.fields \ cleared : "type" \in dict[f]
    /\ last = "form" /\ Rooted => \A f \in ToSet(doc.top) :
         (\E i \in DOMAIN Fields : inst[Fields[i]].obj = f) => "type" \in dict[f]

\* A value that Fill has given to a field of the form, however deep, is in its
\* dictionary once the form has been written, and a value that was there before is
\* not lost, in whatever order the models were made and written.
FilledWritten ==
    last = "form" /\ Rooted =>
        \A k \in ToSet(AllFields(State)) : inst[k].obj \in InForm => value[inst[k].obj] = given[inst[k].obj]

\* What a field and the page have is the same annotation model, so that after
\* FlattenFields no widget of a field that the form reached is on the page.
FlattenedGone ==
    last = "flatten" /\ ops = 1 =>
        \A i \in DOMAIN page :
            LET o == annot[page[i]].obj IN o \notin InForm /\ ParentOf(o) \notin InForm

\* After RepairAcroForm the form needs no repair: AcroFormNeedsRepair says that "the
\* AcroForm can be repaired using the RepairAcroForm method of the reader"; and no
\* dictionary is listed twice among the Fields.
RepairSettles ==
    last = "repair" =>
        /\ ~AcroFormNeedsRepair
        /\ Fields # Null => \A i, j \in DOMAIN Fields : inst[Fields[i]].obj = inst[Fields[j]].obj => i = j
=============================================================================

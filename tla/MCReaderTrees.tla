---------------------------- MODULE MCReaderTrees ----------------------------
(***************************************************************************)
(* What the reader walks, each with the documents on which it is explored: *)
(* the end of the file (TailScan, with every file of up to 20 bytes and    *)
(* every placement of the marker), the pages (PageTree), the outlines      *)
(* (OutlineTree), the dictionaries of annotations and actions that it      *)
(* loads (AnnotationDicts), and colour spaces (ColorSpaces). A behaviour   *)
(* is one of one part; the variables of the others stay Idle.              *)
(***************************************************************************)
EXTENDS TailScan, Integers, Sequences, FiniteSets, TLC

CONSTANTS Null, Direct, Idle

VARIABLES
    part,
    \* variables of several parts
    doc, phase, stack, ops,
    \* PageTree
    type, parent, formDict, traversed, pageList, PageList, AcroForm, loads,
    \* OutlineTree
    visited, nodes, ret, outline, rounds,
    \* AnnotationDicts
    dicts, cache, annots, list, spoiled, chosen, fresh,
    \* ColorSpaces
    initial, store, loaded, written

tailvars == <<scan, fSize, markers, offset, buflen, pc, result>>
pagesvars == <<type, parent, formDict, traversed, pageList, PageList, AcroForm, loads>>
outlinesvars == <<visited, nodes, ret, outline, rounds>>
annotsvars == <<dicts, cache, annots, list, spoiled, chosen, fresh>>
coloursvars == <<initial, store, loaded, written>>
allVars == <<part, doc, phase, stack, ops, tailvars, pagesvars, outlinesvars, annotsvars,
    coloursvars>>

-----------------------------------------------------------------------------
\* Page trees of four nodes.
Nodes == {1, 2, 3, 4}
Plain == [box |-> {1}, resources |-> {3}, bad |-> {}, encrypted |-> TRUE, outlines |-> TRUE, form |-> TRUE]
Tree(t, k, p, x) == [type |-> t, kids |-> k, parent |-> p] @@ x
Lists(S, n) == UNION {[1 .. k -> S] : k \in 0 .. n}

\* A tree of two levels with any Parent entries.
ParentDocs == {Tree(<<"Pages", "Pages", "Page", "Page">>, <<k1, <<3>>, Null, Null>>, <<a, b, c, d>>, Plain) :
    k1 \in {<<2, 4>>, <<4, 2>>}, a \in {Null, 1, 2}, b, c \in Nodes \cup {Null}, d \in {Null, 1, 2}}
\* Any Kids, with Parent entries that are right or missing.
KidsDocs == {Tree(<<t, "Pages", u, "Page">>, <<k1, k2, k3, Null>>, <<Null, Null, 1, 2>>,
                  [Plain EXCEPT !.encrypted = (u = "Page"), !.bad = b]) :
    t \in {"Pages", "none"}, u \in {"Page", "none", "other"}, k1 \in Lists({1, 2, 3, 4}, 2),
    k2 \in Lists({1, 3, 4, Direct}, 2), k3 \in {Null, <<4>>, <<2>>}, b \in {{}, {4}}}

Pages == INSTANCE PageTree WITH Root <- 1, Documents <- ParentDocs \cup KidsDocs, MaxLoads <- 2

-----------------------------------------------------------------------------
\* Outlines of a root and two or three other dictionaries.
Dest(p, m, x) == [page |-> p, mode |-> m, params |-> x]
Item(t, f, n, d) == [title |-> t, good |-> TRUE, first |-> f, next |-> n, dest |-> d, action |-> Null]
Ptr == {Null, 1, 2, 3}
\* Any pointers.
AnyOutlines == {<<Item(FALSE, a, Null, Null), Item(t, b, c, Null), Item(u, d, e, Null)>> :
    a, b, c, d, e \in Ptr, t, u \in BOOLEAN}
Dests == {Null, Dest(<<"obj", 2>>, "XYZ", <<1, 2, 3>>), Dest(<<"int", 1>>, "XYZ", <<1>>),
          Dest(<<"int", 7>>, "FitBH", <<4>>), Dest(<<"obj", 9>>, "FitR", <<1, 2, 3, 4>>), Dest(<<"int", 0>>, "FitV", <<5>>)}
\* Well-formed outlines with destinations, one of them by an action, and a
\* dictionary that is not valid.
DestOutlines == {<<Item(FALSE, r, Null, Null), Item(TRUE, 3, 4, d), [Item(TRUE, Null, Null, Null) EXCEPT !.action = e],
                   [Item(TRUE, f, Null, Null) EXCEPT !.good = g]>> :
    r \in {2, 4}, d, e \in Dests, f \in {Null, 3}, g \in BOOLEAN}

Outlines == INSTANCE OutlineTree WITH
    NumPages <- 3, Documents <- AnyOutlines \cup DestOutlines, MaxStack <- 8, MaxRounds <- 2,
    NewItem <- [PageObj |-> 1, Page |-> 0, Mode |-> "Fit", X |-> 0, Y |-> 0, Zoom |-> 0]

-----------------------------------------------------------------------------
Keys == INSTANCE AnnotationDicts WITH Documents <- {}, NewTypes <- {}, MaxOps <- 0

\* Every subtype with all its entries, and a popup or an action and its file
\* specification with all theirs.
AllOf(keys) == [k \in keys |-> <<"val", k>>]
AnnotDict(t) == [Subtype |-> <<"name", t>>] @@ AllOf(Keys!AnnotationFromDict \cup Keys!FromDict(t))
PopupDict == AnnotDict("Popup")
ActionDict(t, f) == [S |-> <<"name", t>>] @@ [k \in {"F"} \cap Keys!ActionFromDict(t) |-> f] @@ AllOf({"Next"} \cup Keys!ActionFromDict(t))
FileDict == [Type |-> <<"name", "Filespec">>] @@ AllOf(Keys!FilespecFromDict)
LinkTo(a) == [A |-> a] @@ AnnotDict("Link")
MarkupWith(t, p) == IF "Popup" \in Keys!FromDict(t) THEN [Popup |-> p] @@ AnnotDict(t) ELSE AnnotDict(t)
TypeDocs == {[dicts |-> <<MarkupWith(t, <<"ref", 2>>), PopupDict>>, pages |-> <<<<1, 2>>, <<2>>>>, lazy |-> FALSE] : t \in Keys!Subtypes}
ActionDocs ==
    {[dicts |-> <<LinkTo(<<"ref", 2>>), ActionDict(t, <<"ref", 3>>), FileDict>>, pages |-> <<<<1>>>>, lazy |-> z] :
        t \in Keys!ActionTypes, z \in BOOLEAN}
\* Markups that share a popup, or name what is no popup; links that share an action;
\* dictionaries that cannot be loaded.
Popups == {<<"ref", 1>>, <<"ref", 3>>, <<"ref", 4>>, <<"null">>, <<"val", "Popup">>}
Others == {PopupDict, AnnotDict("Text"), AllOf(Keys!AnnotationFromDict), AllOf(Keys!AnnotationFromDict \cup {"Subtype"}),
           [Subtype |-> <<"name", "Unknown">>] @@ AllOf({"Rect"}), Null}
PopupDocs ==
    {[dicts |-> <<MarkupWith("Text", p), MarkupWith("Line", q), x, PopupDict>>, pages |-> <<<<1, 3>>, g>>, lazy |-> z] :
        p \in Popups, q \in {<<"ref", 3>>, <<"ref", 4>>}, x \in Others, g \in {<<2>>, <<4, Null, 2>>}, z \in BOOLEAN}
ActionLinkDocs ==
    {[dicts |-> <<LinkTo(a), LinkTo(<<"ref", 3>>), x, ActionDict("Launch", f), FileDict>>, pages |-> <<<<1>>, <<2>>>>, lazy |-> FALSE] :
        a \in {<<"ref", 3>>, <<"ref", 4>>, <<"ref", 2>>, <<"null">>, <<"val", "A">>}, f \in {<<"ref", 5>>, <<"val", "F">>, <<"none">>},
        x \in {ActionDict("GoToR", <<"ref", 5>>), ActionDict("URI", <<"ref", 5>>), [S |-> <<"name", "Unknown">>] @@ AllOf({"Next"}), AllOf({"S"}), Null}}
AnnotDocs == TypeDocs \cup ActionDocs \cup PopupDocs \cup ActionLinkDocs

Annots == INSTANCE AnnotationDicts WITH Documents <- AnnotDocs, NewTypes <- {"Link"}, MaxOps <- 4

-----------------------------------------------------------------------------
\* Colour spaces on up to three further ones, by name, directly and by reference, and
\* profiles that are shared.
CSName(f) == [k |-> "name", fam |-> f]
CSRef(n) == [k |-> "ref", to |-> n]
CSArr(f, len, base, keys, count, limit) ==
    [k |-> "arr", fam |-> f, len |-> len, base |-> base, par |-> [x \in keys |-> "good"], count |-> count, limit |-> limit]
CSNone == [k |-> "none"]
CSIcc(n, alt, keys) ==
    [k |-> "icc", count |-> n, alt |-> alt, par |-> [x \in keys |-> "good"], data |-> <<"encoded", <<"profile">>>>, filtered |-> TRUE]
CIESpaces ==
    {CSArr("CalGray", 2, CSNone, {"WhitePoint"}, 0, 0), CSArr("CalRGB", 2, CSNone, {"WhitePoint", "Gamma"}, 0, 0),
     CSArr("Lab", 2, CSNone, {"WhitePoint", "Range", "BlackPoint"}, 0, 0)}
Simple == {CSName("DeviceGray"), CSName("DeviceRGB"), CSName("DeviceCMYK"), CSArr("DeviceRGB", 1, CSNone, {}, 0, 0)} \cup CIESpaces
\* Spaces on the object at n, by reference or directly.
On(n, base) ==
    {CSArr("Indexed", 4, CSRef(n), {"Lookup"}, c, 1) : c \in {0, 3}}
    \cup {CSArr("Separation", 4, b, {"Name", "TintTransform"}, 1, o) : b \in {CSRef(n), base}, o \in {1, 3, 4}}
    \cup {CSArr("DeviceN", 4, CSRef(n), {"Names", "TintTransform"}, c, o) : c \in {1, 3}, o \in {1, 3}}
    \cup {CSArr("DeviceN", 5, CSRef(n), {"Names", "TintTransform", "Attributes", "Process", "Unknown"}, 4, 4), CSArr("Pattern", 2, CSRef(n), {}, 0, 0)}
\* Objects that are refused.
Refused == {CSName("Indexed"), CSArr("CalGray", 2, CSNone, {"Gamma"}, 0, 0), [CSArr("Lab", 2, CSNone, {"WhitePoint", "Range"}, 0, 0) EXCEPT !.par["Range"] = "bad"],
            CSArr("DeviceGray", 2, CSNone, {}, 0, 0), CSArr("Separation", 3, CSName("DeviceRGB"), {"Name", "TintTransform"}, 1, 3),
            CSArr("Indexed", 4, CSName("DeviceRGB"), {"Lookup"}, 3, 256), CSArr("Unknown", 1, CSNone, {}, 0, 0)}
SimpleStores == {<<s, t>> : s \in Simple \cup Refused \cup {CSName("Pattern"), CSArr("Pattern", 1, CSNone, {}, 0, 0)}, t \in {CSRef(1), CSName("DeviceRGB"), CSArr("Pattern", 2, CSRef(1), {}, 0, 0)}}
OneStores == UNION {{<<s, t>> : t \in On(1, s)} : s \in Simple}
Profiles == {CSIcc(n, a, k) : n \in {1, 2, 3, 4}, a \in {CSNone, CSRef(1)}, k \in {{"Range", "Metadata"}}}
ProfileStores == {<<s, p, CSArr("ICCBased", 2, CSRef(2), {}, 0, 0), t>> : s \in {CSName("DeviceRGB"), CSArr("CalGray", 2, CSNone, {"WhitePoint"}, 0, 0)},
                   p \in Profiles, t \in On(3, CSArr("ICCBased", 2, CSRef(2), {}, 0, 0))}
TwoStores == UNION {{<<s, t, u>> : u \in On(2, t)} : s \in {CSName("DeviceRGB")}, t \in On(1, CSName("DeviceGray"))}
ColourStores == SimpleStores \cup OneStores \cup ProfileStores \cup TwoStores

Colours == INSTANCE ColorSpaces WITH Stores <- ColourStores, Floats <- {-1, 0, 1, 50}, MaxOps <- 3

-----------------------------------------------------------------------------
\* The variables of a part, while another one runs.
NoTail ==
    /\ scan = Idle /\ fSize = Idle /\ markers = Idle /\ offset = Idle /\ buflen = Idle
    /\ pc = Idle /\ result = Idle
NoPages ==
    /\ type = Idle /\ parent = Idle /\ formDict = Idle /\ traversed = Idle
    /\ pageList = Idle /\ PageList = Idle /\ AcroForm = Idle /\ loads = Idle
NoOutlines ==
    /\ visited = Idle /\ nodes = Idle /\ ret = Idle /\ outline = Idle /\ rounds = Idle
NoAnnots ==
    /\ dicts = Idle /\ cache = Idle /\ annots = Idle /\ list = Idle /\ spoiled = Idle
    /\ chosen = Idle /\ fresh = Idle
NoColours ==
    /\ initial = Idle /\ store = Idle /\ loaded = Idle /\ written = Idle

AllInit ==
    \/ part = "tail" /\ ScanInit
         /\ doc = Idle /\ phase = Idle /\ stack = Idle /\ ops = Idle /\ NoPages
         /\ NoOutlines /\ NoAnnots /\ NoColours
    \/ part = "pages" /\ Pages!Init
         /\ ops = Idle /\ NoTail /\ NoOutlines /\ NoAnnots /\ NoColours
    \/ part = "outlines" /\ Outlines!Init
         /\ ops = Idle /\ NoTail /\ NoPages /\ NoAnnots /\ NoColours
    \/ part = "annots" /\ Annots!Init
         /\ phase = Idle /\ stack = Idle /\ NoTail /\ NoPages /\ NoOutlines /\ NoColours
    \/ part = "colours" /\ Colours!Init
         /\ doc = Idle /\ phase = Idle /\ stack = Idle /\ NoTail /\ NoPages
         /\ NoOutlines /\ NoAnnots

TailStep ==
    /\ part = "tail" /\ ScanNext
    /\ UNCHANGED <<part, doc, phase, stack, ops, pagesvars, outlinesvars, annotsvars, coloursvars>>
PagesStep ==
    /\ part = "pages" /\ Pages!Next
    /\ UNCHANGED <<part, ops, tailvars, outlinesvars, annotsvars, coloursvars>>
OutlinesStep ==
    /\ part = "outlines" /\ Outlines!Next
    /\ UNCHANGED <<part, ops, tailvars, pagesvars, annotsvars, coloursvars>>
AnnotsStep ==
    /\ part = "annots" /\ Annots!Next
    /\ UNCHANGED <<part, phase, stack, tailvars, pagesvars, outlinesvars, coloursvars>>
ColoursStep ==
    /\ part = "colours" /\ Colours!Next
    /\ UNCHANGED <<part, doc, phase, stack, tailvars, pagesvars, outlinesvars, annotsvars>>

AllNext == TailStep \/ PagesStep \/ OutlinesStep \/ AnnotsStep \/ ColoursStep

AllSpec ==
    /\ AllInit /\ [][AllNext]_allVars
    /\ WF_allVars(/\ part = "tail" /\ ScanNext
               /\ UNCHANGED <<part, doc, phase, stack, ops, pagesvars, outlinesvars, annotsvars, coloursvars>>)
    /\ WF_allVars(/\ part = "pages" /\ Pages!Walk
               /\ UNCHANGED <<part, ops, tailvars, outlinesvars, annotsvars, coloursvars>>)
    /\ WF_allVars(/\ part = "outlines" /\ Outlines!Build
               /\ UNCHANGED <<part, ops, tailvars, pagesvars, annotsvars, coloursvars>>)

-----------------------------------------------------------------------------
\* Whatever the Kids and Parent entries, and however often loadStructure is
\* called: every page is listed once and in the order of the tree, the two
\* lists of pages agree, a page has the boxes of the nodes above it, and the
\* form is that of the document.
PagesLoaded ==
    part = "pages" => Pages!PagesInOrder /\ Pages!ListsAligned /\ Pages!BoxInherited /\ Pages!FormLoaded

\* Each outline dictionary is built into one item; First, Last, Next, Prev,
\* Parent and Count agree with each other; and an outline that is edited,
\* written and read again has the same items and destinations.
OutlinesRebuilt ==
    part = "outlines" => Outlines!LinksConsistent /\ Outlines!BuiltOnce /\ Outlines!WrittenReadBack

\* Annotations, popups, actions and file specifications that are loaded, added,
\* changed, written and read again in any order keep the entries that the
\* loaders know, pages keep their lists, and links have the actions set last. A
\* colour space is loaded again from what it was written as, also where several
\* share a container or a profile.
DictionariesKept ==
    /\ part = "annots" => Annots!EntriesKept /\ Annots!ListsKept /\ Annots!ActionsAsSet
    /\ part = "colours" => Colours!WrittenLoads /\ Colours!ObjectsStay

\* Through any chain of alternate spaces a colour of the right number of values
\* is accepted and converts to RGB, and an image converts to one of three
\* components with three samples for each pixel, except through a DeviceN space
\* whose alternate has another number of components.
ColoursReachRGB ==
    part = "colours" => Colours!ColoursConvert /\ Colours!ImagesConvert

\* The walks of the page tree and of the outlines end, with circular Kids,
\* First and Next entries too.
WalksEnd ==
    /\ part = "pages" => Pages!LoadEnds
    /\ part = "outlines" => Outlines!OutlineEnds
=============================================================================

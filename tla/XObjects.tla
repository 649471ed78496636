------------------------------ MODULE XObjects ------------------------------
(***************************************************************************)
(* Form and image XObjects (model/xobject.go).  A model holds the fields   *)
(* of a stream's dictionary, an encoder and the encoded data, and          *)
(* ToPdfObject puts them into the stream it was loaded from or made with.  *)
(* Encoders are objects that callers and models share, and that            *)
(* UpdateParams changes.                                                   *)
(*                                                                         *)
(* Data is content with the layers that encoders have put around it, the   *)
(* outermost last.  Values of dictionaries are tuples.                     *)
(***************************************************************************)
EXTENDS Naturals, Sequences, FiniteSets, SequencesExt

CONSTANTS
    Docs,       \* files: sequences of streams [d, data]
    Own,        \* encoders of the caller: a sequence of [kind, cols, colors]
    Images,     \* images a caller sets: records [w, comps, data, alpha]
    Contents,   \* content streams a caller sets
    MaxModels,  \* models made
    MaxCalls,   \* calls that change a model or write it
    NotOpen     \* no file is open

VARIABLES
    doc,      \* the streams as they were opened
    objs,     \* the streams as they are
    encs,     \* encoders: [kind, cols, colors, by], with the models they were set up for
    xobjs,    \* models: [class, at, f, enc, stream, want, same, sound, written]
    count     \* calls made

vars == <<doc, objs, encs, xobjs, count>>

Ok(x) == [ok |-> TRUE, x |-> x]
Error == [ok |-> FALSE, x |-> <<>>]

-----------------------------------------------------------------------------
(* Encoders: raw; flate; sub and png, Flate with the predictors 11, which is *)
(* the only one it encodes, and 15; fax.                                     *)

Nothing == [k \in {} |-> <<>>]

Raw == [kind |-> "raw", cols |-> 1, colors |-> 1]

\* The rows of the predictor are Columns long.
EncodeBytes(e, c) ==
    CASE e.kind = "raw" -> Ok(c)
      [] e.kind = "flate" -> Ok(Append(c, <<"flate">>))
      [] e.kind = "sub" -> Ok(c \o <<<<"rows", e.cols>>, <<"flate">>>>)
      [] e.kind = "fax" -> Ok(Append(c, <<"fax", e.cols>>))
      [] OTHER -> Error

Peel(c, layer) == IF c # <<>> /\ Last(c) = layer THEN Ok(Front(c)) ELSE Error

\* What is no data of the filter is taken for an error of it.
DecodeBytes(e, c) ==
    CASE e.kind = "raw" -> Ok(c)
      [] e.kind = "fax" -> Peel(c, <<"fax", e.cols>>)
      [] OTHER -> Peel(c, <<"flate">>)

\* MakeStreamDict.
MakeStreamDict(e) ==
    CASE e.kind = "raw" -> Nothing
      [] e.kind = "flate" -> [Filter |-> <<"flate">>]
      [] OTHER -> [Filter |-> <<e.kind>>, DecodeParms |-> <<"parms", e.cols, e.colors>>]

\* NewEncoderFromStream.
NewEncoderFromStream(d) ==
    IF "Filter" \notin DOMAIN d THEN Ok(Raw)
    ELSE IF d.Filter[1] = "flate" THEN Ok([kind |-> "flate", cols |-> 1, colors |-> 1])
    ELSE IF d.Filter[1] \in {"sub", "png", "fax"}
         THEN Ok([kind |-> d.Filter[1], cols |-> d.DecodeParms[2], colors |-> d.DecodeParms[3]])
    ELSE Error

\* DecodeStream undoes the predictor as well, in rows of all colours.
Unpredicted(e, r) == IF r.ok /\ e.kind \in {"sub", "png"} THEN Peel(r.x, <<"rows", e.cols * e.colors>>) ELSE r

Decoded(r, c) == IF r.ok THEN Unpredicted(r.x, DecodeBytes(r.x, c)) ELSE Error

DecodeStream(o) == Decoded(NewEncoderFromStream(o.d), o.data)

\* UpdateParams with the parameters of an image, for the model m.
UpdateParams(e, w, comps, m) ==
    CASE e.kind = "fax" -> [e EXCEPT !.cols = w, !.by = @ \cup {m}]
      [] e.kind \in {"flate", "sub", "png"} -> [e EXCEPT !.cols = w, !.colors = comps, !.by = @ \cup {m}]
      [] OTHER -> e

-----------------------------------------------------------------------------
(* Dictionaries.                                                            *)

FormKeys ==
    {"FormType", "BBox", "Matrix", "Resources", "Group", "Ref", "MetaData", "PieceInfo", "LastModified",
     "StructParent", "StructParents", "OPI", "OC", "Name"}

ImageKeys ==
    {"Width", "Height", "ColorSpace", "BitsPerComponent", "Intent", "ImageMask", "Mask", "Decode",
     "Interpolate", "Alternatives", "SMask", "SMaskInData", "Matte", "Name", "StructParent", "ID", "OPI",
     "Metadata", "OC"}

Only(d, keys) == [k \in DOMAIN d \cap keys |-> d[k]]

With(d, e) == [k \in DOMAIN d \cup DOMAIN e |-> IF k \in DOMAIN e THEN e[k] ELSE d[k]]

\* NewXObjectFormFromStream: a Subtype must be Form, and Resources a dictionary.
NewXObjectFormFromStream(d) ==
    IF \/ "Subtype" \in DOMAIN d /\ d.Subtype # <<"name", "Form">>
       \/ "Resources" \in DOMAIN d /\ d.Resources[1] # "dict"
    THEN Error
    ELSE Ok(Only(d, FormKeys))

\* NewXObjectImageFromStream: width and height are numbers, and gray is assumed.
NewXObjectImageFromStream(d) ==
    IF \/ "Width" \notin DOMAIN d \/ "Height" \notin DOMAIN d
       \/ d.Width[1] # "int" \/ d.Height[1] # "int"
       \/ "BitsPerComponent" \in DOMAIN d /\ d.BitsPerComponent[1] # "int"
    THEN Error
    ELSE Ok(With([ColorSpace |-> <<"comps", 1>>], Only(d, ImageKeys)))

\* ToPdfObject of either: with a filter the dictionary is a new one.
FormToPdfObject(o, m, e) ==
    [d |-> With(With(IF m.enc = 0 THEN o.d ELSE MakeStreamDict(e), [Subtype |-> <<"name", "Form">>]), m.f),
     data |-> m.stream]

ImageToPdfObject(o, m, e) ==
    [d |-> With(With(IF m.enc = 0 THEN o.d ELSE MakeStreamDict(e), [Subtype |-> <<"name", "Image">>]), m.f),
     data |-> m.stream]

\* XObjectForm.GetContentStream and the data of XObjectImage.ToImage: those of the
\* stream object, which ToPdfObject brings up to date.
GetContentStream(m) == DecodeStream(objs[m.at])

ToImage(m) == DecodeStream(objs[m.at])

Encoder(m) == IF m.enc = 0 THEN Raw ELSE encs[m.enc]

Written(m) ==
    IF m.class = "form" THEN FormToPdfObject(objs[m.at], m, Encoder(m)) ELSE ImageToPdfObject(objs[m.at], m, Encoder(m))

-----------------------------------------------------------------------------

Init ==
    /\ doc = NotOpen
    /\ objs = <<>>
    /\ encs = <<>>
    /\ xobjs = <<>>
    /\ count = 0

Open(x) ==
    /\ doc = NotOpen
    /\ doc' = x
    /\ objs' = x
    /\ encs' = [i \in DOMAIN Own |-> With(Own[i], [by |-> {}])]
    /\ UNCHANGED <<xobjs, count>>

Busy == doc # NotOpen /\ count < MaxCalls

\* A form or an image of the file, with an encoder of its own.
Loaded(class, id, r, e) ==
    /\ r.ok /\ e.ok
    /\ encs' = Append(encs, With(e.x, [by |-> {}]))
    /\ xobjs' = Append(xobjs, [class |-> class, at |-> id, f |-> r.x, enc |-> Len(encs) + 1, stream |-> objs[id].data,
                               want |-> DecodeStream(objs[id]).x, same |-> TRUE, sound |-> DecodeStream(objs[id]).ok,
                               written |-> FALSE])

LoadForm(id) ==
    /\ doc # NotOpen /\ Len(xobjs) < MaxModels
    /\ Loaded("form", id, NewXObjectFormFromStream(objs[id].d), NewEncoderFromStream(objs[id].d))
    /\ UNCHANGED <<doc, objs, count>>

LoadImage(id) ==
    /\ doc # NotOpen /\ Len(xobjs) < MaxModels
    /\ Loaded("image", id, NewXObjectImageFromStream(objs[id].d), NewEncoderFromStream(objs[id].d))
    /\ UNCHANGED <<doc, objs, count>>

\* NewXObjectForm: no filter, and a stream that is empty.
NewXObjectForm ==
    /\ Busy /\ Len(xobjs) < MaxModels
    /\ objs' = Append(objs, [d |-> Nothing, data |-> <<>>])
    /\ xobjs' = Append(xobjs, [class |-> "form", at |-> Len(objs) + 1, f |-> [BBox |-> <<"val", "BBox">>], enc |-> 0,
                               stream |-> <<>>, want |-> <<>>, same |-> FALSE, sound |-> TRUE, written |-> FALSE])
    /\ count' = count + 1
    /\ UNCHANGED <<doc, encs>>

\* XObjectForm.SetContentStream; without an encoder (0) that of the form is used, or
\* a raw one.
SetContentStream(i, c, e) ==
    /\ Busy /\ xobjs[i].class = "form"
    /\ LET own == xobjs[i].enc
           enc == IF e # 0 THEN e ELSE IF own # 0 THEN own ELSE Len(encs) + 1
           r == EncodeBytes(IF e = 0 /\ own = 0 THEN Raw ELSE encs[enc], c)
       IN  /\ encs' = IF e = 0 /\ own = 0 THEN Append(encs, With(Raw, [by |-> {}])) ELSE encs
           /\ xobjs' = IF r.ok THEN [xobjs EXCEPT ![i] = [@ EXCEPT !.stream = r.x, !.enc = enc, !.want = c, !.same = FALSE,
                                                                   !.sound = TRUE, !.written = FALSE]]
                       ELSE xobjs
    /\ count' = count + 1
    /\ UNCHANGED <<doc, objs>>

Size(img) == [Width |-> <<"int", img.w>>, Height |-> <<"int", 2>>, BitsPerComponent |-> <<"int", 8>>]

\* An encoding whose rows are not those that decoding expects.
Misrowed(e, comps) == e.kind = "sub" /\ comps # 1

\* XObjectImage.SetImage with no colour space given: the number of components
\* decides on one, or there is an error, after the data and the size were set.  The
\* encoder has its new parameters in every case.
SetImage(i, img) ==
    /\ Busy /\ xobjs[i].class = "image" /\ xobjs[i].enc # 0
    /\ LET e == UpdateParams(encs[xobjs[i].enc], img.w, img.comps, i)
           r == EncodeBytes(e, img.data)
       IN  /\ encs' = [encs EXCEPT ![xobjs[i].enc] = e]
           /\ xobjs' = IF ~r.ok THEN [xobjs EXCEPT ![i].sound = FALSE, ![i].same = FALSE]
                       ELSE [xobjs EXCEPT ![i] =
                                [@ EXCEPT !.stream = r.x, !.want = img.data, !.same = FALSE, !.written = FALSE,
                                          !.sound = ~Misrowed(e, img.comps),
                                          !.f = With(With(@, Size(img)),
                                                     IF img.comps \in {1, 3, 4} THEN [ColorSpace |-> <<"comps", img.comps>>]
                                                     ELSE Nothing)]]
    /\ count' = count + 1
    /\ UNCHANGED <<doc, objs>>

\* XObjectImage.SetFilter.  DecodeBytes leaves the rows of a predictor; the filter is
\* set before the encoding, which may fail.
SetFilter(i, e) ==
    /\ Busy /\ xobjs[i].class = "image" /\ xobjs[i].enc # 0
    /\ LET m == xobjs[i]
           dec == DecodeBytes(encs[m.enc], m.stream)
           new == UpdateParams(encs[e], m.f.Width[2], m.f.ColorSpace[2], i)
           r == EncodeBytes(new, dec.x)
       IN  IF ~dec.ok THEN UNCHANGED <<encs, xobjs>>
           ELSE /\ encs' = [encs EXCEPT ![e] = new]
                /\ xobjs' = [xobjs EXCEPT ![i] =
                       [@ EXCEPT !.enc = e, !.same = FALSE, !.written = FALSE, !.stream = IF r.ok THEN r.x ELSE @,
                                 !.sound = @ /\ r.ok /\ encs[m.enc].kind \notin {"sub", "png"}
                                             /\ ~Misrowed(new, m.f.ColorSpace[2])]]
    /\ count' = count + 1
    /\ UNCHANGED <<doc, objs>>

\* smaskMatteToGray.
smaskMatteToGray(s, v) ==
    IF v[1] = "stream" /\ "Matte" \in DOMAIN s[v[2]].d THEN [s EXCEPT ![v[2]].d.Matte = <<"comps", 1>>] ELSE s

Entry(f, k) == IF k \in DOMAIN f THEN f[k] ELSE <<"none">>

\* The mask that an image without alpha takes from the one before.
Masked(s, f, comps) == IF comps = 1 THEN smaskMatteToGray(s, Entry(f, "SMask")) ELSE s

\* UpdateXObjectImageFromImage: an image made of img with the caller's encoder e, or
\* none (0), and the masks of the model i.  An alpha channel becomes a mask that is
\* encoded with the same encoder and written at once.
UpdateXObjectImageFromImage(i, img, e) ==
    /\ Busy /\ Len(xobjs) < MaxModels /\ xobjs[i].class = "image"
    /\ LET new == IF e = 0 THEN With(Raw, [by |-> {}]) ELSE UpdateParams(encs[e], img.w, img.comps, Len(xobjs) + 1)
           enc == IF e = 0 THEN Len(encs) + 1 ELSE e
           r == EncodeBytes(new, img.data)
           made == [d |-> Nothing, data |-> <<>>]
           mask == [d |-> With(MakeStreamDict(new), With(Size(img), [Subtype |-> <<"name", "Image">>,
                                                                     ColorSpace |-> <<"comps", 1>>])),
                    data |-> EncodeBytes(new, img.alpha).x]
           f == With(Size(img), [ColorSpace |-> <<"comps", img.comps>>])
           masks == IF img.alpha # <<>> THEN [SMask |-> <<"stream", Len(objs) + 2>>]
                    ELSE Only(xobjs[i].f, {"SMask", "ImageMask"})
       IN  /\ encs' = IF e = 0 THEN Append(encs, new) ELSE [encs EXCEPT ![e] = new]
           /\ IF ~r.ok \/ img.comps \notin {1, 3, 4} THEN UNCHANGED <<objs, xobjs>>
              ELSE /\ objs' = IF img.alpha # <<>> THEN objs \o <<made, mask>>
                              ELSE Append(Masked(objs, xobjs[i].f, img.comps), made)
                   /\ xobjs' = Append(xobjs, [class |-> "image", at |-> Len(objs) + 1, f |-> With(f, masks), enc |-> enc,
                                              stream |-> r.x, want |-> img.data, same |-> FALSE,
                                              sound |-> ~Misrowed(new, img.comps), written |-> FALSE])
    /\ count' = count + 1
    /\ UNCHANGED doc

\* ToPdfObject.
ToPdfObject(i) ==
    /\ Busy
    /\ objs' = [objs EXCEPT ![xobjs[i].at] = Written(xobjs[i])]
    /\ xobjs' = [j \in DOMAIN xobjs |-> IF j = i THEN [xobjs[j] EXCEPT !.written = TRUE]
                                        ELSE IF xobjs[j].at = xobjs[i].at THEN [xobjs[j] EXCEPT !.written = FALSE]
                                        ELSE xobjs[j]]
    /\ count' = count + 1
    /\ UNCHANGED <<doc, encs>>

Next ==
    \/ \E x \in Docs : Open(x)
    \/ doc # NotOpen /\ \E id \in DOMAIN objs : LoadForm(id) \/ LoadImage(id)
    \/ NewXObjectForm
    \/ \E i \in DOMAIN xobjs :
          \/ \E c \in Contents, e \in {0} \cup DOMAIN Own : SetContentStream(i, c, e)
          \/ \E img \in Images : SetImage(i, img)
          \/ \E e \in DOMAIN Own : SetFilter(i, e)
          \/ \E img \in Images, e \in {0} \cup DOMAIN Own : UpdateXObjectImageFromImage(i, img, e)
          \/ ToPdfObject(i)

Spec == Init /\ [][Next]_vars

-----------------------------------------------------------------------------
(* Properties.                                                              *)

\* No other model has set up the encoder of m.
OwnEncoder(i) == xobjs[i].enc = 0 \/ encs[xobjs[i].enc].by \subseteq {i}

\* A stream that was written has the data that were set last, encoded as its
\* dictionary says, whatever was set, converted and written before; the exceptions
\* are a call that failed half-way, the rows of a predictor that SetFilter leaves or
\* that hold several colours, and an encoder set up for another image.
ContentWritten ==
    \A i \in DOMAIN xobjs :
        xobjs[i].written /\ xobjs[i].sound /\ OwnEncoder(i) =>
            Ok(xobjs[i].want) = IF xobjs[i].class = "form" THEN GetContentStream(xobjs[i]) ELSE ToImage(xobjs[i])

\* Loading and writing change no entry that the model knows, nor the data: a stream of
\* which nothing was set is what it was, but for the entries a model has no field for
\* and the Matte of a mask.
EntriesKept ==
    doc # NotOpen =>
        \A id \in DOMAIN doc :
            (\A i \in DOMAIN xobjs : xobjs[i].at = id => xobjs[i].same) /\ DecodeStream(doc[id]).ok =>
                /\ DecodeStream(objs[id]) = DecodeStream(doc[id])
                /\ LET known == {"Filter", "DecodeParms"} \cup ((FormKeys \cup ImageKeys) \ {"Matte"})
                   IN  "Subtype" \in DOMAIN doc[id].d =>
                           LET image == doc[id].d.Subtype = <<"name", "Image">>
                               keys == known \cap ({"Filter", "DecodeParms"} \cup IF image THEN ImageKeys ELSE FormKeys)
                           IN  Only(doc[id].d, keys \ {"ColorSpace"}) = Only(objs[id].d, keys \ {"ColorSpace"})

\* The mask of an image that was made with one decodes to the alpha channel, and a
\* mask under a gray image has a gray Matte.
MasksFit ==
    \A i \in DOMAIN xobjs :
        xobjs[i].class = "image" /\ Entry(xobjs[i].f, "SMask")[1] = "stream" =>
            LET id == xobjs[i].f.SMask[2]
            IN  /\ id > Len(doc) => DecodeStream(objs[id]) \in {Ok(img.alpha) : img \in Images} \/ objs[id].d.Filter = <<"sub">>
                /\ xobjs[i].at > Len(doc) /\ xobjs[i].f.ColorSpace = <<"comps", 1>> =>
                       Entry(objs[id].d, "Matte") \in {<<"none">>, <<"comps", 1>>}

=============================================================================

---------------------------- MODULE ColorSpaces ----------------------------
(***************************************************************************)
(* Colour spaces, model/colorspace.go: loading them from names, arrays and *)
(* indirect objects, writing them back into the containers they came from, *)
(* the number of components that each takes, and the conversion of colours *)
(* and of images to RGB through the chain of alternate spaces.             *)
(*                                                                         *)
(* The other entries of an array or of its dictionary are a function from  *)
(* their names to "good" or "bad".  count is the number of colorants, of   *)
(* entries of the lookup table or of ICC components; limit is the number   *)
(* of outputs of the tint transform, or HiVal.                             *)
(***************************************************************************)
EXTENDS Integers, Sequences, SequencesExt

CONSTANTS
    Null,
    Stores,     \* documents: sequences of objects, of which the last is the colour space
    Floats,     \* component values that are tried
    MaxOps

VARIABLES
    initial,    \* the document as read
    store,      \* its objects now
    loaded,     \* the colour spaces that have been loaded
    written,    \* the object that each of them was last written as, or Null
    ops

vars == <<initial, store, loaded, written, ops>>

Device == {"DeviceGray", "DeviceRGB", "DeviceCMYK"}
CIE == {"CalGray", "CalRGB", "Lab"}
Tinted == {"Separation", "DeviceN"}

None == [k |-> "none"]
Error == [fam |-> "error"]
NoSpace == [fam |-> "none"]

-----------------------------------------------------------------------------
\* Loading.
Required(fam) ==
    CASE fam \in CIE -> {"WhitePoint"}
      [] fam = "Indexed" -> {"Lookup"}
      [] fam = "Separation" -> {"Name", "TintTransform"}
      [] fam = "DeviceN" -> {"Names", "TintTransform"}
      [] OTHER -> {}
Defaulted(fam) ==
    CASE fam = "CalGray" -> {"BlackPoint", "Gamma"}
      [] fam = "CalRGB" -> {"BlackPoint", "Gamma", "Matrix"}
      [] fam = "Lab" -> {"BlackPoint", "Range"}
      [] fam = "ICCBased" -> {"Range"}
      [] OTHER -> {}
Optional(fam) ==
    CASE fam = "ICCBased" -> {"Metadata"}
      [] fam = "DeviceN" -> {"Attributes", "Subtype", "Colorants", "Process", "MixingHints"}
      [] OTHER -> {}
Known(fam) == Required(fam) \cup Defaulted(fam) \cup Optional(fam)

RECURSIVE TraceToDirectObject(_, _)
TraceToDirectObject(o, st) == IF o.k = "ref" THEN TraceToDirectObject(st[o.to], st) ELSE o

Lengths(fam) ==
    CASE fam \in CIE \cup {"ICCBased"} -> {2}
      [] fam = "Pattern" -> {1, 2}
      [] fam \in {"Indexed", "Separation"} -> {4}
      [] fam = "DeviceN" -> {4, 5}
      [] fam \in Device -> {1}
      [] OTHER -> {}

\* The stream of an ICC profile; it is decoded when the space is loaded.
DecodeStream(s) == IF ~s.filtered THEN s.data ELSE IF s.data[1] = "encoded" THEN s.data[2] ELSE Null
IsProfile(o, st) ==
    /\ TraceToDirectObject(o, st).k = "icc"
    /\ LET s == TraceToDirectObject(o, st) IN s.count \in {1, 3, 4} /\ "bad" \notin Range(s.par) /\ DecodeStream(s) # Null

DetermineColorspaceNameFromPdfObject(o, st) == LET t == TraceToDirectObject(o, st) IN IF t.k \in {"name", "arr"} THEN t.fam ELSE ""

\* The checks of each family before its other colour space is loaded.
Accepted(t, st) ==
    /\ t.len \in Lengths(t.fam)
    /\ Required(t.fam) \subseteq DOMAIN t.par
    /\ \A k \in Known(t.fam) \cap DOMAIN t.par : t.par[k] = "good"
    /\ t.fam = "ICCBased" => IsProfile(t.base, st)
    /\ t.fam = "Indexed" => DetermineColorspaceNameFromPdfObject(t.base, st) \notin {"Indexed", "Pattern"} /\ t.limit <= 255

\* The object of the other colour space.
BaseOf(t, st) ==
    CASE t.fam = "ICCBased" -> TraceToDirectObject(t.base, st).alt
      [] t.fam = "Pattern" -> IF t.len = 1 THEN None ELSE TraceToDirectObject(t.base, st)
      [] t.fam \in Tinted \cup {"Indexed"} -> t.base
      [] OTHER -> None

Fields(fam, par) ==
    [k \in Known(fam) |-> IF k \in DOMAIN par THEN par[k] ELSE IF k \in Defaulted(fam) THEN "good" ELSE "absent"]

\* The stream that holds the profile is the one reached last.
RECURSIVE StreamOf(_, _)
StreamOf(o, st) == IF st[o.to].k = "ref" THEN StreamOf(st[o.to], st) ELSE o.to

Space(fam, container, base, par, count, limit, stream, data) ==
    [fam |-> fam, container |-> container, base |-> base, par |-> par, count |-> count, limit |-> limit,
     stream |-> stream, data |-> data]
Plain(fam) == Space(fam, Null, NoSpace, Fields(fam, <<>>), 0, 0, Null, Null)

Loaded(t, container, st, base) ==
    IF base = Error THEN Error
    ELSE IF t.fam \in Device THEN Plain(t.fam)
    ELSE IF t.fam = "ICCBased"
    THEN LET s == TraceToDirectObject(t.base, st)
         IN  Space(t.fam, container, base, Fields(t.fam, s.par), s.count, 0, StreamOf(t.base, st), DecodeStream(s))
    ELSE Space(t.fam, container, base, Fields(t.fam, t.par), t.count, t.limit, Null, Null)

RECURSIVE Load(_, _)
LoadTraced(t, container, st) ==
    IF t.k = "name" THEN IF t.fam \in Device \cup {"Pattern"} THEN Plain(t.fam) ELSE Error
    ELSE IF t.k # "arr" THEN Error
    ELSE IF ~Accepted(t, st) THEN Error
    ELSE Loaded(t, container, st, Load(BaseOf(t, st), st))

\* NewPdfColorspaceFromPdfObject, and no space where there is none.
Load(o, st) ==
    IF o = None THEN NoSpace
    ELSE LoadTraced(TraceToDirectObject(o, st), IF o.k = "ref" THEN o.to ELSE Null, st)

-----------------------------------------------------------------------------
\* Writing.  The result is the object and the document, in which containers and streams
\* have been changed.
Result(o, st) == [o |-> o, st |-> st]
Entries(m) == [k \in {k \in DOMAIN m.par : m.par[k] # "absent"} |-> m.par[k]]
LenOf(m) ==
    IF m.fam = "DeviceN" /\ m.par.Attributes # "absent" THEN 5
    ELSE IF m.fam = "Pattern" THEN 2 ELSE CHOOSE n \in Lengths(m.fam) : \A l \in Lengths(m.fam) : n <= l
Array(m, base) == [k |-> "arr", fam |-> m.fam, len |-> LenOf(m), base |-> base,
                   par |-> IF m.fam = "ICCBased" THEN <<>> ELSE Entries(m), count |-> m.count, limit |-> m.limit]
InContainer(m, o, st) ==
    IF m.container = Null THEN Result(o, st) ELSE Result([k |-> "ref", to |-> m.container], [st EXCEPT ![m.container] = o])

\* The profile is written as it was decoded, with a dictionary that names no filter.
ProfileStream(m, alt) == [k |-> "icc", count |-> m.count, alt |-> alt, par |-> Entries(m), data |-> m.data, filtered |-> FALSE]

WithBase(m, b) ==
    IF m.fam = "ICCBased"
    THEN InContainer(m, Array(m, [k |-> "ref", to |-> m.stream]), [b.st EXCEPT ![m.stream] = ProfileStream(m, b.o)])
    ELSE InContainer(m, Array(m, b.o), b.st)

RECURSIVE ToPdfObject(_, _)
ToPdfObject(m, st) ==
    IF m = NoSpace THEN Result(None, st)
    ELSE IF m.fam \in Device \/ (m.fam = "Pattern" /\ m.base = NoSpace) THEN Result([k |-> "name", fam |-> m.fam], st)
    ELSE WithBase(m, ToPdfObject(m.base, st))

-----------------------------------------------------------------------------
\* Components and colours.
RECURSIVE GetNumComponents(_)
GetNumComponents(m) ==
    CASE m.fam \in {"DeviceGray", "CalGray", "Indexed", "Separation"} -> 1
      [] m.fam \in {"DeviceRGB", "CalRGB", "Lab"} -> 3
      [] m.fam = "DeviceCMYK" -> 4
      [] m.fam \in {"ICCBased", "DeviceN"} -> m.count
      [] m.fam = "Pattern" -> GetNumComponents(m.base)

\* Without an alternate space an ICC profile stands for the device space of its components.
DeviceOf(n) == Plain(CASE n = 1 -> "DeviceGray" [] n = 3 -> "DeviceRGB" [] n = 4 -> "DeviceCMYK")
AlternateOf(m) == IF m.fam = "ICCBased" /\ m.base = NoSpace THEN DeviceOf(m.count) ELSE m.base

Unit(v) == IF v < 0 THEN 0 ELSE IF v > 1 THEN 1 ELSE v
InUnit(vals) == \A i \in DOMAIN vals : vals[i] \in 0 .. 1
Colour(m) == [type |-> m.fam]

\* A space of its own accepts colours in its range; gray values are clipped.
ColorHere(m, vals) ==
    IF Len(vals) # GetNumComponents(m) THEN Error
    ELSE IF m.fam = "DeviceGray" THEN Colour(m)
    ELSE IF m.fam = "Lab"
    THEN IF vals[1] \in 0 .. 100 /\ vals[2] \in -100 .. 100 /\ vals[3] \in -100 .. 100 THEN Colour(m) ELSE Error
    ELSE IF InUnit(vals) THEN Colour(m) ELSE Error

\* The values in the other space: the entry of the table, the outputs of the tint transform
\* for the values, or the values themselves.
Passed(m, vals) ==
    CASE m.fam = "Indexed" -> [i \in 1 .. GetNumComponents(m.base) |-> 1]
      [] m.fam \in Tinted -> [i \in 1 .. m.limit |-> Unit(vals[1])]
      [] OTHER -> vals
TableLen(m) == IF m.limit + 1 < m.count THEN m.limit + 1 ELSE m.count
Refused(m, vals) ==
    \/ m.fam \in Tinted \cup {"Indexed"} /\ Len(vals) # GetNumComponents(m)
    \/ m.fam = "Indexed" /\ vals[1] \notin 0 .. TableLen(m) - 1
    \/ m.fam = "Pattern" /\ m.base = NoSpace

RECURSIVE ColorFromFloats(_, _)
ColorFromFloats(m, vals) ==
    IF m.fam \in Device \cup CIE THEN ColorHere(m, vals)
    ELSE IF Refused(m, vals) THEN Error ELSE ColorFromFloats(AlternateOf(m), Passed(m, vals))

\* Colours keep the type of the space that made them, which is checked when they are
\* converted; of an ICC profile of three components without an alternate it is not.
RECURSIVE ColorToRGB(_, _)
ColorToRGB(m, colour) ==
    IF m.fam \in Device \cup CIE THEN IF colour.type = m.fam THEN Colour(Plain("DeviceRGB")) ELSE Error
    ELSE IF m.fam = "Pattern" THEN Error
    ELSE IF m.fam = "ICCBased" /\ m.base = NoSpace /\ m.count = 3 THEN colour
    ELSE ColorToRGB(AlternateOf(m), colour)

-----------------------------------------------------------------------------
\* Images: the number of components, the length of the Decode array (0 without one), and the
\* samples that the data has for each pixel.
DecodeLen(m) == 2 * GetNumComponents(m)
RGBImage(im, per) == [im EXCEPT !.comps = 3, !.per = per]
Fewer(a, b) == IF a < b THEN a ELSE b
BadImage == [comps |-> 0, decode |-> 0, per |-> 0]

\* Per family: gray pixels are read one by one and drop the Decode array, CMYK ones are
\* checked, and the samples of the others are converted as they come.
GrayImage(im) ==
    IF im.per < im.comps \/ im.comps \notin {1, 3, 4} THEN BadImage ELSE [RGBImage(im, 3) EXCEPT !.decode = 0]
CMYKImage(im) == IF im.decode \notin {0, 8} \/ im.comps # 4 \/ im.per < 4 THEN BadImage ELSE RGBImage(im, 3)
CalGrayImage(im) == RGBImage(im, 3 * Fewer(im.per, im.comps))
CalRGBImage(im) == RGBImage(im, Fewer(im.per, im.comps))

ImageHere(m, im) ==
    CASE m.fam = "DeviceGray" -> GrayImage(im)
      [] m.fam = "DeviceRGB" -> im
      [] m.fam = "DeviceCMYK" -> CMYKImage(im)
      [] m.fam = "CalGray" -> CalGrayImage(im)
      [] m.fam \in {"CalRGB", "Lab"} -> CalRGBImage(im)

\* An indexed image has new data of n components, or none if the table is empty.
IndexedImage(n, table) == [comps |-> n, decode |-> 0, per |-> IF table = 0 THEN 0 ELSE n]

\* Variant: only the samples are changed in other spaces too.
AlternateImage_OnlySamples(m, im) ==
    IF m.fam \in Tinted THEN [im EXCEPT !.per = m.limit]
    ELSE IF m.fam = "Indexed" THEN IndexedImage(GetNumComponents(m.base), TableLen(m)) ELSE im

\* The image in the other space.  Of a DeviceN image only the samples are changed.
AlternateImage(m, im) ==
    CASE m.fam = "Indexed" -> IndexedImage(GetNumComponents(m.base), TableLen(m))
      [] m.fam = "Separation" -> [comps |-> GetNumComponents(m.base), decode |-> DecodeLen(m.base), per |-> m.limit]
      [] m.fam = "DeviceN" -> [im EXCEPT !.per = m.limit]
      [] OTHER -> im

RECURSIVE ImageToRGB(_, _)
ImageToRGB(m, im) ==
    IF m.fam \in Device \cup CIE THEN ImageHere(m, im)
    ELSE IF m.fam = "Pattern" THEN BadImage
    ELSE ImageToRGB(AlternateOf(m), AlternateImage(m, im))

-----------------------------------------------------------------------------
Init ==
    /\ initial \in Stores
    /\ store = initial
    /\ loaded = <<>> /\ written = <<>> /\ ops = 0

Op == ops < MaxOps /\ ops' = ops + 1
Obj(n) == [k |-> "ref", to |-> n]

\* A colour space is loaded, through its container or from the object in it.
NewPdfColorspaceFromPdfObject(n, direct) ==
    /\ Op
    /\ LET m == Load(IF direct THEN store[n] ELSE Obj(n), store)
       IN  /\ m # Error
           /\ loaded' = Append(loaded, m) /\ written' = Append(written, Null)
    /\ UNCHANGED <<initial, store>>

Write(i) ==
    /\ Op
    /\ LET w == ToPdfObject(loaded[i], store)
       IN  store' = w.st /\ written' = [written EXCEPT ![i] = w.o]
    /\ UNCHANGED <<initial, loaded>>

Next ==
    \/ \E n \in {Len(store) - 1, Len(store)}, d \in BOOLEAN : NewPdfColorspaceFromPdfObject(n, d)
    \/ \E i \in DOMAIN loaded : Write(i)

Spec == Init /\ [][Next]_vars

-----------------------------------------------------------------------------
TypeOK == Len(loaded) = Len(written) /\ ops \in 0 .. MaxOps /\ Len(store) = Len(initial)

\* Two spaces that differ at most in the containers they came from.
RECURSIVE Same(_, _)
Same(m, n) ==
    IF m.fam # n.fam THEN FALSE
    ELSE IF m.fam \in {"none", "error"} THEN TRUE
    ELSE /\ [m EXCEPT !.container = Null, !.base = NoSpace] = [n EXCEPT !.container = Null, !.base = NoSpace]
         /\ Same(m.base, n.base)

\* What a colour space was written as loads as that space, whatever has been loaded and
\* written in between, also where several of them share a container or the stream of a profile.
WrittenLoads ==
    \A i \in DOMAIN loaded : written[i] # Null => Same(Load(written[i], store), loaded[i])

\* Every object of the document that is a colour space stays the same one.
ObjectsStay ==
    \A n \in DOMAIN initial : Same(Load(Obj(n), store), Load(Obj(n), initial))

\* Spaces whose parts fit together: the outputs of tint transforms and the components of
\* profiles are those of the alternate space, and no pattern is within.
RECURSIVE Fits(_)
Fits(m) ==
    CASE m.fam = "Pattern" -> FALSE
      [] m.fam \in Tinted -> Fits(m.base) /\ m.limit = GetNumComponents(m.base)
      [] m.fam = "Indexed" -> Fits(m.base) /\ TableLen(m) > 0
      [] m.fam = "ICCBased" -> m.base = NoSpace \/ (Fits(m.base) /\ GetNumComponents(m.base) = m.count)
      [] OTHER -> TRUE

\* A colour of as many values as a space has components, and of no other number, is accepted
\* where the values are in range, and an accepted colour converts to RGB.
ColoursConvert ==
    \A i \in DOMAIN loaded : Fits(loaded[i]) =>
        \A n \in 1 .. 4, v \in Floats :
            LET c == ColorFromFloats(loaded[i], [k \in 1 .. n |-> v])
            IN  /\ c # Error => n = GetNumComponents(loaded[i]) /\ ColorToRGB(loaded[i], c) = Colour(Plain("DeviceRGB"))
                /\ n = GetNumComponents(loaded[i]) /\ v = 0 => c # Error

\* DeviceN spaces, alone or within, whose colorants are as many as the components of the
\* alternate space.
RECURSIVE Even(_)
Even(m) == m.fam = "none" \/ (Even(m.base) /\ (m.fam = "DeviceN" => m.count = m.limit))

\* An image converts to one with three components and three samples for each pixel, through
\* any chain of spaces, except through a DeviceN space whose alternate has another number of
\* components.
ImagesConvert ==
    \A i \in DOMAIN loaded : Fits(loaded[i]) /\ Even(loaded[i]) =>
        LET n == GetNumComponents(loaded[i])
        IN  \A d \in {0, 2 * n} :
                LET im == ImageToRGB(loaded[i], [comps |-> n, decode |-> d, per |-> n])
                IN  im.comps = 3 /\ im.per = 3
=============================================================================

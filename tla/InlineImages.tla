---------------------------- MODULE InlineImages ----------------------------
(***************************************************************************)
(* Inline images of content streams (contentstream/inline-image.go and     *)
(* encoding.go): NewInlineImageFromImage encodes an image, WriteString     *)
(* writes it between BI and EI, ParseInlineImage looks for the EI that     *)
(* ends its data a byte at a time, and ToImage decodes it.  A stream that  *)
(* was parsed may be written and parsed again.                             *)
(*                                                                         *)
(* Data are bytes; what an encoder makes of data is the data together with *)
(* the encoder, which has to be the same to decode them.                   *)
(***************************************************************************)
EXTENDS Integers, Sequences, FiniteSets, SequencesExt

CONSTANTS Images,       \* images, their encoded data and encoders
          Others,       \* inline images as other programs write them
          Followers,    \* what follows an image in the content
          Window,       \* bytes that are looked at after an EI: twenty in the code
          MaxRounds     \* how often an image is written and parsed

VARIABLES source, inline, text, pos, state, skipBytes, stream, rounds

vars == <<source, inline, text, pos, state, skipBytes, stream, rounds>>

-----------------------------------------------------------------------------
\* Encoders and their parameters.
Encoder(f) == [f |-> f, Predictor |-> 1, Columns |-> 1, Colors |-> 1, EarlyChange |-> 1]
NewCCITTFaxEncoder == [Encoder("CCITTFaxDecode") EXCEPT !.Columns = 1728]
Multi(es) == [f |-> "Multi", es |-> es]
NoEncoder == [f |-> "none"]

\* UpdateParams with the parameters of an image: only some encoders have a use for them.
UpdateParams(enc, im) ==
    CASE enc.f \in {"FlateDecode", "LZWDecode"} -> [enc EXCEPT !.Columns = im.w, !.Colors = im.comps]
      [] enc.f = "CCITTFaxDecode" -> [enc EXCEPT !.Columns = im.w]
      [] OTHER -> enc

\* EncodeBytes of LZW knows one of its two forms only.
Encodes(enc) == enc.f = "LZWDecode" => enc.Predictor = 1 /\ enc.EarlyChange = 0

GetFilterName(enc) == IF enc.f = "Multi" THEN "several" ELSE enc.f

ColorSpaceOf(comps) == CASE comps = 1 -> "G" [] comps = 3 -> "RGB" [] comps = 4 -> "CMYK"
NoImage == [ok |-> FALSE]
NewInlineImageFromImage(im, encoder) ==
    LET enc == UpdateParams(encoder, im)
    IN  IF im.comps \notin {1, 3, 4} \/ ~Encodes(enc) THEN NoImage
        ELSE [ok |-> TRUE, stream |-> im.data, enc |-> enc,
              attrs |-> [k \in {"ColorSpace", "BitsPerComponent", "Width", "Height"} \cup (IF enc.f = "Raw" THEN {} ELSE {"Filter"}) |->
                          CASE k = "ColorSpace" -> [name |-> ColorSpaceOf(im.comps)] [] k = "BitsPerComponent" -> [int |-> im.bpc]
                            [] k = "Width" -> [int |-> im.w] [] k = "Height" -> [int |-> im.h] [] k = "Filter" -> [name |-> GetFilterName(enc)]]]

-----------------------------------------------------------------------------
\* The encoder that the attributes stand for.
Has(attrs, k) == k \in DOMAIN attrs
Param(dict, k, default) == IF k \in DOMAIN dict THEN dict[k] ELSE default

\* The decode parameters for a filter: its own, or else those of the image, which have to be a
\* dictionary then.
NoParms == [dict |-> <<>>]
IsDict(o) == "dict" \in DOMAIN o
ParmsFor(own, attrs) == IF own = NoParms /\ Has(attrs, "DecodeParms") THEN attrs["DecodeParms"] ELSE own

newFlateEncoderFromInlineImage(dp) ==
    LET pred == Param(dp.dict, "Predictor", 1)
    IN  IF ~IsDict(dp) THEN NoEncoder
        ELSE [Encoder("FlateDecode") EXCEPT !.Predictor = pred, !.Columns = IF pred > 1 THEN Param(dp.dict, "Columns", 1) ELSE 1,
                                            !.Colors = IF pred > 1 THEN Param(dp.dict, "Colors", 1) ELSE 1]
newLZWEncoderFromInlineImage(dp) ==
    IF ~IsDict(dp) THEN NoEncoder
    ELSE IF Param(dp.dict, "EarlyChange", 1) \notin {0, 1} THEN NoEncoder
    ELSE [newFlateEncoderFromInlineImage(dp) EXCEPT !.f = "LZWDecode", !.EarlyChange = Param(dp.dict, "EarlyChange", 1)]

\* One of several filters: fewer names are known than for a filter alone.
OneOf(name, own, attrs) ==
    CASE name \in {"FlateDecode", "Fl"} -> newFlateEncoderFromInlineImage(ParmsFor(own, attrs))
      [] name = "LZWDecode" -> newLZWEncoderFromInlineImage(ParmsFor(own, attrs))
      [] name = "ASCIIHexDecode" -> Encoder(name)
      [] name \in {"ASCII85Decode", "A85"} -> Encoder("ASCII85Decode")
      [] OTHER -> NoEncoder
newMultiEncoderFromInlineImage(attrs) ==
    LET names == attrs["Filter"].names
        dps == IF Has(attrs, "DecodeParms") /\ ~IsDict(attrs["DecodeParms"]) THEN attrs["DecodeParms"].arr ELSE <<>>
        own(i) == IF i \in DOMAIN dps THEN dps[i] ELSE NoParms
        es == [i \in DOMAIN names |-> OneOf(names[i], own(i), attrs)]
    IN  IF Len(dps) \in 1 .. Len(names) - 1 \/ \E i \in DOMAIN es : es[i] = NoEncoder THEN NoEncoder ELSE Multi(es)

newEncoderFromName(name, attrs) ==
    CASE name \in {"AHx", "ASCIIHexDecode"} -> Encoder("ASCIIHexDecode")
      [] name \in {"A85", "ASCII85Decode"} -> Encoder("ASCII85Decode")
      [] name \in {"DCT", "DCTDecode"} -> Encoder("DCTDecode")
      [] name \in {"Fl", "FlateDecode"} -> newFlateEncoderFromInlineImage(ParmsFor(NoParms, attrs))
      [] name \in {"LZW", "LZWDecode"} -> newLZWEncoderFromInlineImage(ParmsFor(NoParms, attrs))
      [] name \in {"CCF", "CCITTFaxDecode"} -> NewCCITTFaxEncoder
      [] name \in {"RL", "RunLengthDecode"} -> Encoder("RunLengthDecode")
      [] OTHER -> NoEncoder

newEncoderFromInlineImage(attrs) ==
    IF ~Has(attrs, "Filter") THEN Encoder("Raw")
    ELSE IF "name" \in DOMAIN attrs["Filter"] THEN newEncoderFromName(attrs["Filter"].name, attrs)
    ELSE IF attrs["Filter"].names = <<>> THEN Encoder("Raw")
    ELSE IF Len(attrs["Filter"].names) = 1 THEN newEncoderFromName(attrs["Filter"].names[1], attrs)
    ELSE newMultiEncoderFromInlineImage(attrs)

\* GetColorSpace: how many components; an indexed space is an array, others would be in the resources.
IsIndexed(cs) == "indexed" \in DOMAIN cs /\ cs.indexed \in {"G", "RGB", "CMYK", "DeviceGray", "DeviceRGB", "DeviceCMYK"}
CountOf(attrs) ==
    IF ~Has(attrs, "ColorSpace") THEN 1
    ELSE LET cs == attrs["ColorSpace"]
         IN  IF "indexed" \in DOMAIN cs THEN IF IsIndexed(cs) THEN 1 ELSE 0
             ELSE CASE cs.name \in {"G", "DeviceGray"} -> 1 [] cs.name \in {"RGB", "DeviceRGB"} -> 3
                    [] cs.name \in {"CMYK", "DeviceCMYK"} -> 4 [] OTHER -> 0
IsMask(attrs) == Has(attrs, "ImageMask") /\ attrs["ImageMask"].bool
ToImage(im) ==
    LET enc == newEncoderFromInlineImage(im.attrs)
        mask == IsMask(im.attrs)
    IN  IF enc = NoEncoder \/ ~Has(im.attrs, "Height") \/ ~Has(im.attrs, "Width") \/ (~mask /\ CountOf(im.attrs) = 0) THEN NoImage
        ELSE [ok |-> TRUE, w |-> im.attrs["Width"].int, h |-> im.attrs["Height"].int, enc |-> enc, data |-> im.stream,
              bpc |-> IF mask THEN 1 ELSE IF Has(im.attrs, "BitsPerComponent") THEN im.attrs["BitsPerComponent"].int ELSE 8,
              comps |-> IF mask THEN 1 ELSE CountOf(im.attrs)]

-----------------------------------------------------------------------------
\* Writing and parsing of the attributes: the short key of each, and what either key stands for.
Short ==
    [BitsPerComponent |-> "BPC", ColorSpace |-> "CS", Decode |-> "D", DecodeParms |-> "DP", Filter |-> "F", Height |-> "H",
     ImageMask |-> "IM", Intent |-> "Intent", Interpolate |-> "I", Width |-> "W"]
Attributes == DOMAIN Short
WriteAttributes(attrs) == {<<Short[k], attrs[k]>> : k \in DOMAIN attrs}
Ignored == {"Length", "Subtype", "Type"}
Known(key) == \E k \in Attributes : key \in {k, Short[k]}
AttributeOf(key) == CHOOSE k \in Attributes : key \in {k, Short[k]}
ParseAttributes(pairs) ==
    LET of == {p \in pairs : p[1] \notin Ignored}
    IN  IF \E p \in of : ~Known(p[1]) THEN NoImage
        ELSE [ok |-> TRUE, attrs |-> [k \in {AttributeOf(p[1]) : p \in of} |-> (CHOOSE p \in of : AttributeOf(p[1]) = k)[2]]]

-----------------------------------------------------------------------------
\* Bytes: white space, E, I, and operands.
IsWhiteSpace(b) == b \in {0, 9, 10, 12, 13, 32}
Delimiter(b) == b = 41
Marker == <<10, 69, 73, 10>>
isValidOperand(word) == word \in {<<81>>, <<69, 73>>, <<66, 84>>}

\* The objects after an EI, as a parser of a copy of the next bytes sees them: the end of the
\* copy and what is no object at all count as valid.
Limit(i) == IF i + Window - 1 < Len(text) THEN i + Window - 1 ELSE Len(text)
RECURSIVE AfterSpaces(_, _)
AfterSpaces(i, end) == IF i <= end /\ IsWhiteSpace(text[i]) THEN AfterSpaces(i + 1, end) ELSE i
RECURSIVE AfterWord(_, _)
AfterWord(i, end) == IF i <= end /\ ~IsWhiteSpace(text[i]) /\ ~Delimiter(text[i]) THEN AfterWord(i + 1, end) ELSE i
RECURSIVE ValidFrom(_, _, _)
ValidFrom(i, end, n) ==
    LET a == AfterSpaces(i, end)
        b == AfterWord(a, end)
    IN  \/ n = 0 \/ a + 1 > end \/ b > end
        \/ IF a = b THEN ValidFrom(a, end, n - 1)
           ELSE isValidOperand(SubSeq(text, a, b - 1)) /\ ValidFrom(b, end, n - 1)
isDone(i) == ValidFrom(i, Limit(i), 3)

-----------------------------------------------------------------------------
Nothing == [ok |-> FALSE, attrs |-> <<>>, encoder |-> NoEncoder]

Init ==
    /\ source = Nothing
    /\ inline = Nothing
    /\ text = <<>> /\ pos = 1 /\ state = "idle" /\ skipBytes = <<>> /\ stream = <<>> /\ rounds = 0

\* An image of this program, or of another one, is in the content.
Make ==
    /\ state = "idle" /\ rounds = 0
    /\ \E im \in Images, f \in Followers :
          LET made == NewInlineImageFromImage(im.image, im.encoder)
          IN  /\ made.ok
              /\ source' = [ok |-> TRUE, attrs |-> made.attrs, stream |-> made.stream, image |-> im.image, encoder |-> made.enc, follow |-> f]
              /\ inline' = [ok |-> TRUE, attrs |-> made.attrs, stream |-> made.stream]
    /\ state' = "made"
    /\ UNCHANGED <<text, pos, skipBytes, stream, rounds>>

Encounter ==
    /\ state = "idle" /\ rounds = 0
    /\ \E im \in Others, f \in Followers :
          LET got == ParseAttributes(im.pairs)
          IN  /\ source' = [ok |-> got.ok, attrs |-> IF got.ok THEN got.attrs ELSE <<>>, stream |-> im.data, encoder |-> NoEncoder, follow |-> f]
              /\ inline' = IF got.ok THEN [ok |-> TRUE, attrs |-> got.attrs, stream |-> im.data] ELSE Nothing
              /\ state' = IF got.ok THEN "made" ELSE "failed"
    /\ UNCHANGED <<text, pos, skipBytes, stream, rounds>>

\* WriteString; Parse gets to the byte after the ID and its space.
Write ==
    /\ state = "made" /\ rounds < MaxRounds
    /\ text' = inline.stream \o Marker \o source.follow
    /\ inline' = [inline EXCEPT !.attrs = ParseAttributes(WriteAttributes(inline.attrs)).attrs]
    /\ pos' = 1 /\ state' = "data" /\ skipBytes' = <<>> /\ stream' = <<>> /\ rounds' = rounds + 1
    /\ UNCHANGED source

Keep(bytes) == stream' = stream \o bytes /\ skipBytes' = <<>>

\* One byte of the data, in each of the states of the search for the end.
InData ==
    /\ state = "data" /\ pos <= Len(text)
    /\ LET c == text[pos]
       IN  IF IsWhiteSpace(c) \/ c = 69
           THEN /\ state' = IF c = 69 THEN "E" ELSE "space"
                /\ skipBytes' = <<c>> /\ UNCHANGED stream
           ELSE state' = "data" /\ Keep(<<c>>)
    /\ pos' = pos + 1 /\ UNCHANGED <<source, inline, text, rounds>>

AfterSpace ==
    /\ state = "space" /\ pos <= Len(text)
    /\ LET c == text[pos]
       IN  IF c = 69 THEN state' = "E" /\ skipBytes' = Append(skipBytes, c) /\ UNCHANGED stream
           ELSE state' = (IF IsWhiteSpace(c) THEN "space" ELSE "data") /\ Keep(Append(skipBytes, c))
    /\ pos' = pos + 1 /\ UNCHANGED <<source, inline, text, rounds>>

AfterE ==
    /\ state = "E" /\ pos <= Len(text)
    /\ LET c == text[pos]
       IN  IF c = 73 THEN state' = "EI" /\ skipBytes' = Append(skipBytes, c) /\ UNCHANGED stream
           ELSE state' = "data" /\ Keep(Append(skipBytes, c))
    /\ pos' = pos + 1 /\ UNCHANGED <<source, inline, text, rounds>>

AfterEI ==
    /\ state = "EI" /\ pos <= Len(text)
    /\ LET c == text[pos]
       IN  IF IsWhiteSpace(c) /\ isDone(pos + 1)
           THEN state' = "made" /\ inline' = [inline EXCEPT !.stream = stream] /\ UNCHANGED <<skipBytes, stream>>
           ELSE state' = "data" /\ Keep(Append(skipBytes, c)) /\ UNCHANGED inline
    /\ pos' = pos + 1 /\ UNCHANGED <<source, text, rounds>>

\* No end was found.
Missing ==
    /\ state \in {"data", "space", "E", "EI"} /\ pos > Len(text)
    /\ state' = "failed"
    /\ UNCHANGED <<source, inline, text, pos, skipBytes, stream, rounds>>

Next == Make \/ Encounter \/ Write \/ InData \/ AfterSpace \/ AfterE \/ AfterEI \/ Missing

Spec == Init /\ [][Next]_vars

-----------------------------------------------------------------------------
TypeOK ==
    /\ state \in {"idle", "made", "data", "space", "E", "EI", "failed"}
    /\ pos \in 1 .. Len(text) + 1 /\ rounds \in 0 .. MaxRounds
    /\ (state \in {"E", "EI"}) => skipBytes /= <<>>

\* An EI before the one that ends the data, which cannot be told from it.
Ambiguous(data) ==
    \E k \in 1 .. Len(data) : text[k] = 69 /\ text[k + 1] = 73 /\ IsWhiteSpace(text[k + 2]) /\ isDone(k + 3)
WrittenData == SubSeq(text, 1, Len(text) - Len(source.follow) - 4)

\* The search of ParseInlineImage ends at the EI that WriteString wrote unless an earlier one
\* looks the same: the image has the data that were written, with a line feed more when they
\* end in white space or in an E, and what follows it is left to be parsed.
DataFound ==
    state = "made" /\ rounds > 0 /\ ~Ambiguous(WrittenData) =>
        /\ pos = Len(text) - Len(source.follow) + 1
        /\ \/ inline.stream = WrittenData
           \/ Last(WrittenData) \in {10, 32, 69} /\ inline.stream = Append(WrittenData, 10)

\* The end is found, whatever the data are, when what follows is content that the parser knows;
\* an operator it does not know makes it read on to the end of the content.
EndFound == state = "failed" /\ rounds > 0 => ~isDone(Len(WrittenData) + 5)

\* An image that was written and parsed has the attributes it had, and ToImage decodes it as it
\* was encoded, as long as the encoder is one filter without parameters, which are not written;
\* the only encoder for LZW has some, and so has the one for faxes.
ImageBack ==
    source.encoder /= NoEncoder /\ state = "made" =>
        /\ inline.attrs = source.attrs
        /\ source.encoder.f \notin {"Multi", "LZWDecode", "CCITTFaxDecode"} /\ source.encoder.Predictor = 1 =>
              LET im == ToImage(inline)
              IN  /\ im.ok /\ im.enc.f = source.encoder.f /\ im.enc.Predictor = 1
                  /\ im.w = source.image.w /\ im.h = source.image.h /\ im.bpc = source.image.bpc /\ im.comps = source.image.comps

\* A filter in an array of one is the filter itself: both forms give the same encoder, or none.
FilterForms ==
    state = "made" /\ Has(inline.attrs, "Filter") /\ "name" \in DOMAIN inline.attrs["Filter"] =>
        newEncoderFromInlineImage([inline.attrs EXCEPT !["Filter"] = [names |-> <<inline.attrs["Filter"].name>>]]) =
            newEncoderFromInlineImage(inline.attrs)
=============================================================================

--------------------------- MODULE StreamFilters ---------------------------
(***************************************************************************)
(* Streams and their filters: core/stream.go and the encoders of           *)
(* core/encoding.go seen from outside, that is what MakeStreamDict and     *)
(* MakeDecodeParams put into the dictionary of a stream, what              *)
(* NewEncoderFromStream makes of it, and how MultiEncoder chains encoders. *)
(*                                                                         *)
(* Data is the sequence of the layers that encoders have put around it,    *)
(* the outermost last: a predictor is a layer below that of Flate or LZW.  *)
(* What a filter does to bytes is the subject of ByteFilters and CCITTFax. *)
(***************************************************************************)
EXTENDS Integers, Sequences, SequencesExt

CONSTANTS
    Chains,     \* sequences of encoders a stream is made with
    MaxEncodes  \* bound: how often the stream is encoded anew

VARIABLES
    input,      \* the encoders
    stream,     \* the stream: dict and data
    encodes,    \* number of times it was encoded
    output      \* what reading it has returned

vars == <<input, stream, encodes, output>>

None == [kind |-> "none"]
Null == [kind |-> "null"]
Dict(d) == [kind |-> "dict", d |-> d]
Arr(a) == [kind |-> "array", a |-> a]
Name(n) == [kind |-> "name", n |-> n]

Ok(v) == [ok |-> TRUE, v |-> v]
Failed == [ok |-> FALSE, v |-> <<>>]

\* Encoders.  Those with parameters: Flate and LZW (predictor, columns, colors, bpc, for
\* LZW also early) and CCITTFax (pages, a value for K, Columns and the like that are always
\* written, with rows and eob).  The others are a name.
Predicting == {"FlateDecode", "LZWDecode"}
NewPredicting(f) == [f |-> f, predictor |-> 1, columns |-> 1, colors |-> 1, bpc |-> 8, early |-> 1]
NewFax == [f |-> "CCITTFaxDecode", k |-> 0, columns |-> 1728, rows |-> 0, eob |-> TRUE]
Simple(f) == [f |-> f]

-----------------------------------------------------------------------------
\* MakeDecodeParams: values that are the default are left out.
Changed(d, default) == [k \in {x \in DOMAIN d : d[x] # default[x]} |-> d[k]]

MakeDecodeParams1(e) ==
    CASE e.f \in Predicting ->
           IF e.predictor > 1
           THEN Dict(Changed([predictor |-> e.predictor, columns |-> e.columns, colors |-> e.colors, bpc |-> e.bpc],
                             [predictor |-> 1, columns |-> 1, colors |-> 1, bpc |-> 8]))
           ELSE None
      [] e.f = "CCITTFaxDecode" ->
           LET always == [k |-> e.k, columns |-> e.columns]
               rows == IF e.rows # 0 /\ ~e.eob THEN [rows |-> e.rows] ELSE <<>>
               eob == IF ~e.eob THEN [eob |-> FALSE] ELSE <<>>
           IN  Dict(always @@ rows @@ eob)
      [] OTHER -> None

MakeDecodeParams(es) ==
    IF es = <<>> THEN None
    ELSE IF Len(es) = 1 THEN MakeDecodeParams1(es[1])
    ELSE Arr([i \in DOMAIN es |-> IF MakeDecodeParams1(es[i]) = None THEN Null ELSE MakeDecodeParams1(es[i])])

\* MakeStreamDict of one encoder and of a chain, which passes on the entries other than
\* Filter and DecodeParms, that is EarlyChange; the last of several stays.
EarlyOf(es) ==
    LET lzw == SelectSeq(es, LAMBDA e : e.f = "LZWDecode")
    IN  IF lzw = <<>> THEN None ELSE [kind |-> "int", n |-> Last(lzw).early]

MakeStreamDict(es, multi) ==
    [Filter |-> IF multi THEN Arr([i \in DOMAIN es |-> Name(es[i].f)])
                ELSE IF es[1].f = "Raw" THEN None ELSE Name(es[1].f),
     DecodeParms |-> IF multi THEN MakeDecodeParams(es) ELSE MakeDecodeParams1(es[1]),
     EarlyChange |-> EarlyOf(es)]

-----------------------------------------------------------------------------
\* Encoders from a stream.

Get(d, k, default) == IF k \in DOMAIN d THEN d[k] ELSE default

\* The parameters of a dictionary; columns and colors only with a predictor.
Parameters(e, d) ==
    LET p == Get(d, "predictor", 1)
    IN  [e EXCEPT !.predictor = p, !.bpc = Get(d, "bpc", 8),
                  !.columns = IF p > 1 THEN Get(d, "columns", 1) ELSE 1,
                  !.colors = IF p > 1 THEN Get(d, "colors", 1) ELSE 1]

\* dp: the parameters a chain has found for the encoder, or None.  Without them those of
\* the stream are used; the one element of an array is looked at, and not used.
newFlateEncoderFromStream(s, dp) ==
    LET own == s.dict.DecodeParms
        e == NewPredicting("FlateDecode")
    IN  IF dp # None THEN Ok(Parameters(e, dp.d))
        ELSE CASE own.kind = "array" -> IF Len(own.a) # 1 THEN Failed ELSE Ok(e)
               [] own.kind = "dict" -> Ok(Parameters(e, own.d))
               [] own.kind \in {"null", "none"} -> Ok(e)
               [] OTHER -> Failed

newLZWEncoderFromStream(s, dp) ==
    LET own == s.dict.DecodeParms
        found == IF dp # None THEN dp
                 ELSE IF own.kind = "array" /\ Len(own.a) = 1 /\ own.a[1].kind = "dict" THEN own.a[1]
                 ELSE own
        e == [NewPredicting("LZWDecode") EXCEPT !.early = IF s.dict.EarlyChange = None THEN 1 ELSE s.dict.EarlyChange.n]
    IN  IF found = None THEN Ok(e)
        ELSE IF found.kind # "dict" THEN Failed
        ELSE Ok(Parameters(e, found.d))

newCCITTFaxEncoderFromStream(s) ==
    LET own == s.dict.DecodeParms
        found == IF own.kind = "array" /\ Len(own.a) = 1 THEN own.a[1] ELSE own
    IN  IF found.kind # "dict" THEN Failed
        ELSE Ok([f |-> "CCITTFaxDecode", k |-> Get(found.d, "k", 0), columns |-> Get(found.d, "columns", 1728),
                 rows |-> Get(found.d, "rows", 0), eob |-> Get(found.d, "eob", TRUE)])

\* The filters a chain may have are fewer than those of a single one.
FromChain(s, name, dp) ==
    CASE name = "FlateDecode" -> newFlateEncoderFromStream(s, dp)
      [] name = "LZWDecode" -> newLZWEncoderFromStream(s, dp)
      [] name \in {"ASCIIHexDecode", "ASCII85Decode"} -> Ok(Simple(name))
      [] OTHER -> Failed

newMultiEncoderFromStream(s) ==
    LET names == s.dict.Filter.a
        own == s.dict.DecodeParms
        Params(i) == IF own.kind = "dict" THEN own
                     ELSE IF own.kind = "array" /\ own.a # <<>>
                          THEN (IF own.a[i].kind = "dict" THEN own.a[i] ELSE Dict(<<>>))
                     ELSE None
        made == [i \in DOMAIN names |-> FromChain(s, names[i].n, Params(i))]
    IN  IF own.kind = "array" /\ Len(own.a) \in 1 .. Len(names) - 1 THEN Failed
        ELSE IF \E i \in DOMAIN made : ~made[i].ok THEN Failed
        ELSE Ok([multi |-> TRUE, es |-> [i \in DOMAIN made |-> made[i].v]])

NewEncoderFromStream(s) ==
    LET f == s.dict.Filter
        One(r) == IF r.ok THEN Ok([multi |-> FALSE, es |-> <<r.v>>]) ELSE Failed
        Method(name) ==
            CASE name = "FlateDecode" -> One(newFlateEncoderFromStream(s, None))
              [] name = "LZWDecode" -> One(newLZWEncoderFromStream(s, None))
              [] name = "CCITTFaxDecode" -> One(newCCITTFaxEncoderFromStream(s))
              [] name \in {"ASCIIHexDecode", "ASCII85Decode", "RunLengthDecode"} -> One(Ok(Simple(name)))
              [] OTHER -> Failed
    IN  IF f.kind \in {"none", "null"} \/ (f.kind = "array" /\ f.a = <<>>) THEN One(Ok(Simple("Raw")))
        ELSE IF f.kind = "name" THEN Method(f.n)
        ELSE IF f.kind # "array" THEN Failed
        ELSE IF Len(f.a) # 1 THEN newMultiEncoderFromStream(s)
        ELSE Method(f.a[1].n)

-----------------------------------------------------------------------------
\* Encoding and decoding of layers.

EncodeBytes1(e, data) ==
    CASE e.f = "Raw" -> Ok(data)
      [] e.f = "FlateDecode" ->
           IF e.predictor = 1 THEN Ok(Append(data, <<"FlateDecode">>))
           ELSE IF e.predictor = 11 THEN Ok(data \o <<<<"rows", e.columns>>, <<"FlateDecode">>>>)
           ELSE Failed
      [] e.f = "LZWDecode" -> IF e.predictor # 1 \/ e.early = 1 THEN Failed ELSE Ok(Append(data, <<"LZWDecode", 0>>))
      [] e.f = "CCITTFaxDecode" -> Ok(Append(data, <<"CCITTFaxDecode", e.k, e.columns, e.eob>>))
      [] OTHER -> Ok(Append(data, <<e.f>>))

Peel(data, layer) == IF data # <<>> /\ Last(data) = layer THEN Ok(Front(data)) ELSE Failed

DecodeBytes1(e, data) ==
    CASE e.f = "Raw" -> Ok(data)
      [] e.f = "LZWDecode" -> Peel(data, <<"LZWDecode", e.early>>)
      [] e.f = "CCITTFaxDecode" -> Peel(data, <<"CCITTFaxDecode", e.k, e.columns, e.eob>>)
      [] OTHER -> Peel(data, <<e.f>>)

\* DecodeStream of one encoder: the predictor is undone as well.
DecodeStream1(e, data) ==
    LET r == DecodeBytes1(e, data)
    IN  IF e.f \notin Predicting THEN r
        ELSE IF e.f = "FlateDecode" /\ e.bpc # 8 THEN Failed
        ELSE IF ~r.ok \/ e.predictor <= 1 THEN r
        ELSE Peel(r.v, <<"rows", e.columns * e.colors>>)

\* Variant: encoded from the first encoder to the last.
EncodeBytes_Forward(es, data) ==
    FoldLeft(LAMBDA r, e : IF r.ok THEN EncodeBytes1(e, r.v) ELSE r, Ok(data), es)

\* A chain is encoded from the last encoder to the first, and decoded with DecodeBytes of
\* each.
EncodeBytes(es, data) ==
    FoldRight(LAMBDA e, r : IF r.ok THEN EncodeBytes1(e, r.v) ELSE r, es, Ok(data))

MultiDecode(es, data) ==
    FoldLeft(LAMBDA r, e : IF r.ok THEN DecodeBytes1(e, r.v) ELSE r, Ok(data), es)

DecodeStream(s) ==
    LET r == NewEncoderFromStream(s)
    IN  IF ~r.ok THEN Failed
        ELSE IF r.v.multi THEN MultiDecode(r.v.es, s.data)
        ELSE DecodeStream1(r.v.es[1], s.data)

-----------------------------------------------------------------------------
\* The life of a stream.

NoStream == [dict |-> [Filter |-> None, DecodeParms |-> None, EarlyChange |-> None], data |-> <<>>, length |-> -1]
Unread == [st |-> "none", data |-> <<>>]
Result(r) == IF r.ok THEN [st |-> "ok", data |-> r.v] ELSE [st |-> "err", data |-> <<>>]

Init ==
    /\ input \in Chains
    /\ stream = NoStream
    /\ encodes = 0
    /\ output = Unread

\* UpdateParams with the parameters of an image.
UpdateParams(width, components) ==
    /\ encodes = 0
    /\ input' = [input EXCEPT !.es = [i \in DOMAIN @ |->
                   IF @[i].f \in Predicting THEN [@[i] EXCEPT !.columns = width, !.colors = components]
                   ELSE IF @[i].f = "CCITTFaxDecode" THEN [@[i] EXCEPT !.columns = width] ELSE @[i]]]
    /\ input' # input
    /\ UNCHANGED <<stream, encodes, output>>

\* MakeStream: nothing is made when the encoder fails.
MakeStream ==
    /\ encodes = 0
    /\ encodes' = 1
    /\ LET r == EncodeBytes(input.es, <<>>)
       IN  IF r.ok
           THEN /\ stream' = [dict |-> MakeStreamDict(input.es, input.multi), data |-> r.v, length |-> Len(r.v)]
                /\ UNCHANGED output
           ELSE /\ output' = [st |-> "refused", data |-> <<>>]
                /\ UNCHANGED stream
    /\ UNCHANGED input

\* Another program writes the filter, or the parameters too, as an array of one.
Respell ==
    /\ stream # NoStream /\ output = Unread
    /\ stream.dict.Filter.kind = "name"
    /\ \E parms \in {stream.dict.DecodeParms} \cup (IF stream.dict.DecodeParms.kind = "dict" THEN {Arr(<<stream.dict.DecodeParms>>)} ELSE {}) :
         stream' = [stream EXCEPT !.dict.Filter = Arr(<<@>>), !.dict.DecodeParms = parms]
    /\ UNCHANGED <<input, encodes, output>>

Read ==
    /\ stream # NoStream /\ output = Unread
    /\ output' = Result(DecodeStream(stream))
    /\ UNCHANGED <<input, stream, encodes>>

\* The data that was read is put into the stream, and EncodeStream called on it: LZW is
\* switched to the variant that can be written.
EncodeStream ==
    /\ output.st = "ok" /\ encodes < MaxEncodes
    /\ LET r == NewEncoderFromStream(stream)
           lzw == ~r.v.multi /\ r.v.es[1].f = "LZWDecode"
           es == IF lzw THEN <<[r.v.es[1] EXCEPT !.early = 0]>> ELSE r.v.es
           enc == EncodeBytes(es, output.data)
       IN  IF enc.ok
           THEN /\ stream' = [dict |-> IF lzw THEN [stream.dict EXCEPT !.EarlyChange = [kind |-> "int", n |-> 0]] ELSE stream.dict,
                              data |-> enc.v, length |-> Len(enc.v)]
                /\ output' = Unread
           ELSE /\ output' = [st |-> "refused", data |-> <<>>]
                /\ UNCHANGED stream
    /\ encodes' = encodes + 1
    /\ UNCHANGED input

Finished == output.st \in {"refused", "err"} \/ (output.st = "ok" /\ encodes = MaxEncodes)

Next == \/ \E w \in {1, 3}, c \in {1, 3} : UpdateParams(w, c)
        \/ MakeStream \/ Respell \/ Read \/ EncodeStream
        \/ Finished /\ UNCHANGED vars

Spec == Init /\ [][Next]_vars

-----------------------------------------------------------------------------
TypeOK ==
    /\ encodes \in 0 .. MaxEncodes
    /\ stream.length = (IF stream = NoStream THEN -1 ELSE Len(stream.data))
    /\ output.st \in {"none", "ok", "err", "refused"}

Chain == input.multi /\ Len(input.es) > 1
Predicted == \E i \in DOMAIN input.es : input.es[i].f \in Predicting /\ input.es[i].predictor > 1

\* What is not read back: a chain with a filter that newMultiEncoderFromStream does not
\* know is refused; a predictor stays on the rows in a chain, whose DecodeStream calls
\* DecodeBytes of the encoders, with Flate parameters in an array of one, which are dropped,
\* and with more than one colour.
Refused == Chain /\ \E i \in DOMAIN input.es : input.es[i].f \notin Predicting \cup {"ASCIIHexDecode", "ASCII85Decode"}
LeavesRows ==
    Predicted /\ \/ Chain
                 \/ stream.dict.DecodeParms.kind = "array" /\ input.es[1].f = "FlateDecode"
                 \/ \E i \in DOMAIN input.es : input.es[i].f \in Predicting /\ input.es[i].colors > 1

\* A stream made by MakeStream with any encoder or chain of encoders, and encoded anew any
\* number of times with EncodeStream, is decoded to the data by an encoder made from its
\* own dictionary alone, also when another program has written the dictionary with arrays.
ReadBack ==
    output.st \in {"ok", "err"} =>
       IF Refused THEN output.st = "err"
       ELSE LeavesRows \/ output = [st |-> "ok", data |-> <<>>]
=============================================================================
